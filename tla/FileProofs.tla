----------------------------- MODULE FileProofs -----------------------------
(***************************************************************************)
(* Proofs about fiona::file, for any finite set of coroutines, any table   *)
(* of slots and any pool of registered buffers, when a file is opened once *)
(* at a time (Uses = {}).                                                  *)
(***************************************************************************)
EXTENDS File, Counting

-----------------------------------------------------------------------------
(* The types, without that of the reference count.                         *)

OFrame == [h : Coros \cup {None}, temp : Slots \cup {NoFd},
           initiated : BOOLEAN, done : BOOLEAN]
XFrame == [h : Coros \cup {None}, buf : Buffers \cup {None},
           index : Ids \cup {NoIndex}, res : {Ok, "error", "EFAULT"},
           initiated : BOOLEAN, done : BOOLEAN]
Fixed  == [id : Ids, pos : Ids]
Arg    == [buf : Buffers \cup {None}, data : 0..MaxWrites]

FrameType ==
    /\ of \in OFrame /\ xf \in [Transfers -> XFrame]
    /\ fd \in Slots \cup {NoFd}
    /\ fds \subseteq Slots /\ others \subseteq Slots
    /\ file \in [Slots -> {"empty", "own", "other"}]
PoolType ==
    /\ ids \in [Ids -> Ids] /\ avail \in 0..NumBufs
    /\ own \in [Coros -> Fixed \cup {None}]
DataType ==
    /\ mem \in [Buffers -> 0..MaxWrites] /\ arg \in [Coros -> Arg]
    /\ content \in 0..MaxWrites /\ writes \in 0..MaxWrites
    /\ returned \in 0..MaxWrites
LoopType ==
    /\ co \in [Coros -> Kinds \cup {"idle", "gone"}]
    /\ handles \in Seq(Coros)
    /\ pc \in {"user", "submit", "reap", "abort", "end"}
    /\ back \in {"user", "reap", "abort"}
    /\ sq \in Seq(Sqe) /\ cq \in Seq(Cqe) /\ held \in [Kinds -> Sqe \cup {None}]

Types == FrameType /\ PoolType /\ DataType /\ LoopType

-----------------------------------------------------------------------------
(* The invariant of the operations: frames, references, handles.           *)

\* The fields that the three frames have in common.
Ini(k) == IF k = "open" THEN of.initiated ELSE xf[k].initiated
Dn(k)  == IF k = "open" THEN of.done ELSE xf[k].done
H(k)   == IF k = "open" THEN of.h ELSE xf[k].h
Act(k) == Ini(k) /\ ~Dn(k)

\* How many operations of a kind are in flight.
N(k) == OfOp(sq, k) + OfOp(cq, k) + Bit(held[k] # None)

Control ==
    /\ back # "user" => pc = "submit"
    /\ pc \in {"abort", "end"} => sq = <<>>
    /\ pc = "end" => cq = <<>> /\ \A c \in Coros : co[c] = "gone"

\* What the frames say, and that no two coroutines share one.
Frames ==
    /\ \A k \in Kinds : /\ Dn(k) => Ini(k)
                        /\ H(k) \in Coros \cup {None} /\ (H(k) # None <=> Act(k))
    /\ \A c, d \in Coros : co[c] \in Kinds /\ co[c] = co[d] => c = d

\* A frame has one operation in flight when it says so, and none otherwise.
\* ~guard drops the completions at the end.
Flight == pc # "end" => \A k \in Kinds : N(k) = Bit(Act(k))

\* Who waits is in the frame, or its handle has been collected once.
Waiters ==
    ~Unwinding =>
      /\ \A k \in Kinds : H(k) # None => co[H(k)] = k
      /\ \A c \in Coros, k \in Kinds :
            co[c] = k => Ini(k) /\ Times(handles, c) = Bit(Dn(k))
      /\ \A c \in Coros : co[c] \notin Kinds => Times(handles, c) = 0

Alive == Kinds \cup {"idle"}

Exact ==
    refs = Pop(co, Coros, Alive) + Pop(co, Coros, Kinds)
           + N("open") + N("write") + N("read")

Core == Control /\ Frames /\ Flight /\ Waiters /\ Exact

\* The operations queued or taken by the kernel.
Issued == {o \in Sqe : \/ \E i \in 1..Len(sq) : sq[i] = o
                       \/ \E k \in Kinds : held[k] = o}

\* The kernel holds an operation under its own name, and a transfer has memory.
Bufs == /\ \A k \in Kinds : held[k] # None => held[k].op = k
        /\ \A o \in Issued : o.op \in Transfers => o.buf \in Buffers

-----------------------------------------------------------------------------
(* The invariant of the slots.                                             *)

\* A slot is parked in temp_fd_ exactly while the open is under way, and the
\* file is not open then.
Parked == /\ of.temp # NoFd <=> of.initiated /\ ~of.done
          /\ fd # NoFd => of.temp = NoFd

\* The open under way is for the slot that is parked, which stays empty until
\* the kernel has opened the file there.
Opens == \A o \in Issued :
            o.op = "open" => of.temp # NoFd /\ o.slot = of.temp /\ file[of.temp] = "empty"
Opened == \A i \in 1..Len(cq) :
             cq[i].op = "open" =>
                of.temp # NoFd /\ file[of.temp] = IF cq[i].res = Ok THEN "own" ELSE "empty"

Slotted == SlotsAccounted /\ Parked /\ Opens /\ Opened

-----------------------------------------------------------------------------
(* The invariant of the data.                                              *)

\* The pool gives every buffer out at most once.
Pool ==
    /\ \A i \in Ids : ids[i] = i
    /\ \A c \in Coros : own[c] # None => own[c].id = own[c].pos /\ own[c].id >= avail
    /\ \A c, d \in Coros :
          own[c] # None /\ own[d] # None /\ own[c].id = own[d].id => c = d

\* What the caller of a transfer that succeeded has.
Good(c) == IF co[c] = "write" THEN content >= arg[c].data
           ELSE mem[arg[c].buf] >= arg[c].data

\* The frames are clean, the file is as new as the last write that returned.
Clean == /\ \A k \in Transfers :
               xf[k].res # "EFAULT" /\ (~xf[k].initiated => xf[k].index = NoIndex)
         /\ content <= writes /\ returned <= content

\* The caller's memory and number.
Caller(c) ==
    co[c] \in Transfers =>
      /\ arg[c].buf \in BuffersOf(c)
      /\ co[c] = "write" => arg[c].data = writes /\ mem[arg[c].buf] = writes
      /\ co[c] = "read" => arg[c].data <= content
      /\ xf[co[c]].done /\ xf[co[c]].res = Ok => Good(c)

\* The operation in flight is the caller's, and so is its completion.
Carries(c) ==
    /\ \A o \in Issued : o.op \in Transfers /\ o.op = co[c] =>
          o.buf = arg[c].buf /\ (o.index = NoIndex \/ o.index = o.buf)
    /\ \A i \in 1..Len(cq) : cq[i].op \in Transfers /\ cq[i].op = co[c] =>
          cq[i].res # "EFAULT" /\ (cq[i].res = Ok => Good(c))

Callers == \A c \in Coros : Caller(c) /\ Carries(c)

Data == ~Unwinding => Pool /\ Clean /\ Callers

-----------------------------------------------------------------------------
(* Facts used by several actions.                                          *)

\* The queues obey the laws of counting.
LEMMA Laws ==
    /\ OpLaws(Sqe) /\ OpLaws(Cqe) /\ TimesLaws(Coros)
    /\ \A f, S : Pop(f, Coros, S) \in Nat
BY OfOpFacts, TimesFacts, PopNat, FileAssumption

\* The counts are numbers.
LEMMA NatFacts ==
    ASSUME LoopType
    PROVE  /\ \A op : OfOp(sq, op) \in Nat /\ OfOp(cq, op) \in Nat
           /\ \A k : N(k) \in Nat
           /\ \A c : Times(handles, c) \in Nat
           /\ \A f, S : Pop(f, Coros, S) \in Nat
<1>1. /\ \A op : OfOp(sq, op) \in Nat /\ OfOp(cq, op) \in Nat
      /\ \A c : Times(handles, c) \in Nat
      /\ \A f, S : Pop(f, Coros, S) \in Nat
  BY Laws DEF LoopType, OpLaws, TimesLaws
<1>2. ASSUME NEW k PROVE N(k) \in Nat
  BY <1>1 DEF N, Bit
<1>3. QED BY <1>1, <1>2

\* TypeOK is the types and that the reference count is a number.
LEMMA TypesGive ==
    ASSUME Types, refs \in Nat
    PROVE  TypeOK
BY DEF Types, FrameType, PoolType, DataType, LoopType, TypeOK, OFrame, XFrame,
       Fixed, Arg

\* The count is a sum of numbers.
LEMMA ExactNat ==
    ASSUME LoopType, Exact
    PROVE  refs \in Nat
BY NatFacts DEF Exact

\* A coroutine that changes its state.
LEMMA OneMoves ==
    ASSUME NEW c \in Coros, \A d \in Coros \ {c} : co'[d] = co[d]
    PROVE  /\ Pop(co', Coros, Alive) + Bit(co[c] \in Alive)
                 = Pop(co, Coros, Alive) + Bit(co'[c] \in Alive)
           /\ Pop(co', Coros, Kinds) + Bit(co[c] \in Kinds)
                 = Pop(co, Coros, Kinds) + Bit(co'[c] \in Kinds)
<1>1. IsFiniteSet(Coros)
  BY FileAssumption
<1>2. ASSUME NEW S
      PROVE  Pop(co', Coros, S) + Bit(co[c] \in S)
                = Pop(co, Coros, S) + Bit(co'[c] \in S)
  BY <1>1, PopChange DEF Bit
<1>3. QED BY <1>2

\* The three kinds of operation.
LEMMA KindsFacts ==
    /\ Kinds = {"open", "write", "read"}
    /\ Alive = {"open", "write", "read", "idle"}
BY DEF Kinds, Transfers, Alive

\* Initially there is nothing but the file and its copies.
LEMMA InitTypes == Init => Types
<1> SUFFICES ASSUME Init PROVE Types
  OBVIOUS
<1>1. ResetOpen \in OFrame
  BY FileAssumption DEF ResetOpen, OFrame
<1>2. NewTransfer \in XFrame
  BY DEF NewTransfer, XFrame, NoIndex, Ok
<1>3. NoArg \in Arg
  BY FileAssumption DEF NoArg, Arg
<1>4. FrameType
  BY <1>1, <1>2 DEF Init, FrameType
<1>5. PoolType
  BY FileAssumption DEF Init, InitPool, PoolType
<1>6. DataType
  BY <1>3, FileAssumption DEF Init, DataType
<1>7. LoopType
  BY DEF Init, LoopType
<1>8. QED BY <1>4, <1>5, <1>6, <1>7 DEF Types

\* A file that nobody has opened yet.
LEMMA InitCore == Init => Core
<1> SUFFICES ASSUME Init PROVE Core
  OBVIOUS
<1>1. \A k \in Kinds : ~Ini(k) /\ ~Dn(k) /\ H(k) = None /\ ~Act(k)
  BY DEF Init, Ini, Dn, H, Act, ResetOpen, NewTransfer, Kinds, Transfers
<1>2. \A c \in Coros : co[c] = "idle" /\ co[c] \notin Kinds
  BY DEF Init, Kinds, Transfers
<1>3. \A op : OfOp(sq, op) = 0 /\ OfOp(cq, op) = 0
  BY Laws DEF Init, OpLaws
<1>4. \A k \in Kinds : N(k) = 0
  BY <1>3 DEF Init, N, Bit
<1>5. Control /\ Frames
  BY <1>1, <1>2 DEF Init, Control, Frames
<1>6. Flight
  BY <1>1, <1>4 DEF Flight, Bit
<1>7. Waiters
  BY <1>1, <1>2, Laws DEF Init, Waiters, TimesLaws, Bit
<1>8. Exact
  <2>1. \A c \in Coros : co[c] \in Alive /\ co[c] \notin Kinds
    BY <1>2 DEF Alive
  <2>2. Pop(co, Coros, Alive) = Cardinality(Coros) /\ Pop(co, Coros, Kinds) = 0
    BY <2>1, PopZero, FileAssumption
  <2>3. Cardinality(Coros) \in Nat
    BY FileAssumption, FS_CardinalityType
  <2>4. N("open") = 0 /\ N("write") = 0 /\ N("read") = 0
    BY <1>4, KindsFacts
  <2>5. QED BY <2>2, <2>3, <2>4 DEF Init, Exact
<1>9. QED BY <1>5, <1>6, <1>7, <1>8 DEF Core

-----------------------------------------------------------------------------
(* The steps, as far as the operations are concerned.                      *)

\* What a step that leaves the frames alone does not touch.
SameFrames == \A k \in Kinds : (Ini(k)' <=> Ini(k)) /\ (Dn(k)' <=> Dn(k)) /\ H(k)' = H(k)

\* The thread moves, and a cancel may be queued.
LEMMA CoreThread ==
    ASSUME LoopType, Core, SameFrames, UNCHANGED <<refs, co>>,
           \A k \in Kinds : N(k)' = N(k),
           pc' = "end" <=> pc = "end",
           ~Unwinding' => ~Unwinding /\ UNCHANGED handles,
           Control'
    PROVE  Core'
<1>1. \A k \in Kinds : (Act(k)' <=> Act(k)) /\ H(k)' = H(k) /\ (Ini(k)' <=> Ini(k))
                       /\ (Dn(k)' <=> Dn(k))
  BY DEF SameFrames, Act
<1>2. Frames'
  BY <1>1 DEF Core, Frames
<1>3. Flight'
  BY <1>1 DEF Core, Flight, Bit
<1>4. Waiters'
  BY <1>1 DEF Core, Waiters, Bit
<1>5. Exact'
  <2>1. N("open")' = N("open") /\ N("write")' = N("write") /\ N("read")' = N("read")
    BY KindsFacts
  <2>2. QED BY <2>1 DEF Core, Exact
<1>6. QED BY <1>2, <1>3, <1>4, <1>5 DEF Core

\* An operation more or less: the sum follows.
LEMMA SumMoves ==
    ASSUME NEW k \in Kinds, NEW d \in Int, \A j \in Kinds : N(j) \in Nat,
           N(k)' = N(k) + d, \A j \in Kinds \ {k} : N(j)' = N(j)
    PROVE  N("open")' + N("write")' + N("read")'
              = N("open") + N("write") + N("read") + d
<1>1. CASE k = "open"
  <2>1. N("open")' = N("open") + d /\ N("write")' = N("write") /\ N("read")' = N("read")
    BY <1>1, KindsFacts
  <2>2. N("open") \in Nat /\ N("write") \in Nat /\ N("read") \in Nat
    BY KindsFacts
  <2>3. QED BY <2>1, <2>2
<1>2. CASE k = "write"
  <2>1. N("open")' = N("open") /\ N("write")' = N("write") + d /\ N("read")' = N("read")
    BY <1>2, KindsFacts
  <2>2. N("open") \in Nat /\ N("write") \in Nat /\ N("read") \in Nat
    BY KindsFacts
  <2>3. QED BY <2>1, <2>2
<1>3. CASE k = "read"
  <2>1. N("open")' = N("open") /\ N("write")' = N("write") /\ N("read")' = N("read") + d
    BY <1>3, KindsFacts
  <2>2. N("open") \in Nat /\ N("write") \in Nat /\ N("read") \in Nat
    BY KindsFacts
  <2>3. QED BY <2>1, <2>2
<1>4. QED BY <1>1, <1>2, <1>3, KindsFacts

\* A coroutine starts an operation on an idle frame.
LEMMA CoreStart ==
    ASSUME LoopType, LoopType', Core, NEW c \in Coros, NEW k \in Kinds,
           pc = "user", co[c] = "idle", ~Ini(k),
           Ini(k)', Dn(k)' <=> Dn(k), H(k)' = c,
           \A j \in Kinds \ {k} : (Ini(j)' <=> Ini(j)) /\ (Dn(j)' <=> Dn(j)) /\ H(j)' = H(j),
           co'[c] = k, \A d \in Coros \ {c} : co'[d] = co[d],
           N(k)' = N(k) + 1, \A j \in Kinds \ {k} : N(j)' = N(j),
           refs' = refs + 2, UNCHANGED <<pc, back, handles>>
    PROVE  Core'
<1>1. /\ \A j : N(j) \in Nat
      /\ \A f, S : Pop(f, Coros, S) \in Nat
  BY NatFacts
<1>2. ~Dn(k) /\ ~Dn(k)' /\ Act(k)' /\ ~Act(k)
  BY DEF Core, Frames, Act
<1>3. \A j \in Kinds \ {k} : Act(j)' <=> Act(j)
  BY DEF Act
<1>4. ~Unwinding /\ ~Unwinding' /\ back = "user"
  BY DEF Core, Control, Unwinding
<1>5. \A d \in Coros \ {c} : co[d] # k
  BY <1>4 DEF Core, Waiters
<1>6. Control'
  BY <1>4 DEF Control
<1>7. c # None
  BY FileAssumption
<1>8. Frames'
  <2>1. \A j \in Kinds : /\ Dn(j)' => Ini(j)'
                         /\ H(j)' \in Coros \cup {None} /\ (H(j)' # None <=> Act(j)')
    BY <1>2, <1>3, <1>7 DEF Core, Frames
  <2>2. \A d, e \in Coros : co'[d] \in Kinds /\ co'[d] = co'[e] => d = e
    BY <1>5 DEF Core, Frames
  <2>3. QED BY <2>1, <2>2 DEF Frames
<1>9. Flight'
  <2>1. N(k)' = Bit(Act(k)')
    BY <1>1, <1>2 DEF Core, Flight, Bit
  <2>2. \A j \in Kinds \ {k} : N(j)' = Bit(Act(j)')
    BY <1>3 DEF Core, Flight, Bit
  <2>3. QED BY <2>1, <2>2 DEF Flight
<1>10. Waiters'
  <2>1. ASSUME NEW j \in Kinds, H(j)' # None PROVE co'[H(j)'] = j
    <3>1. CASE j = k
      BY <3>1
    <3>2. CASE j # k
      <4>1. H(j)' = H(j) /\ H(j) # None /\ co[H(j)] = j
        BY <1>4, <2>1, <3>2 DEF Core, Waiters
      <4>2. H(j) # c
        BY <4>1 DEF Kinds, Transfers
      <4>3. H(j) \in Coros
        BY <4>1 DEF Core, Frames
      <4>4. QED BY <4>1, <4>2, <4>3
    <3>3. QED BY <3>1, <3>2
  <2>2. ASSUME NEW d \in Coros, NEW j \in Kinds, co'[d] = j
        PROVE  Ini(j)' /\ Times(handles', d) = Bit(Dn(j)')
    <3>1. CASE d = c
      <4>1. Times(handles, c) = 0
        BY <1>4 DEF Core, Waiters, Kinds, Transfers
      <4>2. j = k
        BY <2>2, <3>1
      <4>3. QED BY <1>2, <3>1, <4>1, <4>2 DEF Bit
    <3>2. CASE d # c
      <4>1. co[d] = j /\ j # k
        BY <1>5, <2>2, <3>2
      <4>2. Ini(j) /\ Times(handles, d) = Bit(Dn(j))
        BY <1>4, <4>1 DEF Core, Waiters
      <4>3. QED BY <4>1, <4>2 DEF Bit
    <3>3. QED BY <3>1, <3>2
  <2>3. ASSUME NEW d \in Coros, co'[d] \notin Kinds PROVE Times(handles', d) = 0
    <3>1. co[d] \notin Kinds
      BY <2>3
    <3>2. QED BY <1>4, <3>1 DEF Core, Waiters
  <2>4. QED BY <2>1, <2>2, <2>3 DEF Waiters
<1>11. Exact'
  <2>1. /\ Pop(co', Coros, Alive) = Pop(co, Coros, Alive)
        /\ Pop(co', Coros, Kinds) = Pop(co, Coros, Kinds) + 1
    <3>1. co[c] \in Alive /\ co[c] \notin Kinds /\ co'[c] \in Alive /\ co'[c] \in Kinds
      BY DEF Alive, Kinds, Transfers
    <3>2. QED BY <1>1, <3>1, OneMoves DEF Bit
  <2>2. N("open")' + N("write")' + N("read")' = N("open") + N("write") + N("read") + 1
    BY <1>1, SumMoves
  <2>3. N("open") \in Nat /\ N("write") \in Nat /\ N("read") \in Nat
        /\ N("open")' \in Nat /\ N("write")' \in Nat /\ N("read")' \in Nat
    BY <1>1, KindsFacts
  <2>4. QED BY <1>1, <2>1, <2>2, <2>3 DEF Core, Exact
<1>12. QED BY <1>6, <1>8, <1>9, <1>10, <1>11 DEF Core

\* The references when an awaitable goes.
LEMMA ExactReturns ==
    ASSUME Exact, refs' = refs - 1,
           Pop(co', Coros, Alive) = Pop(co, Coros, Alive),
           Pop(co', Coros, Kinds) + 1 = Pop(co, Coros, Kinds),
           \A f, S : Pop(f, Coros, S) \in Nat, \A j : N(j) \in Nat,
           \A j \in Kinds : N(j)' = N(j)
    PROVE  Exact'
<1>1. N("open")' = N("open") /\ N("write")' = N("write") /\ N("read")' = N("read")
  BY KindsFacts
<1>2. N("open") \in Nat /\ N("write") \in Nat /\ N("read") \in Nat
  OBVIOUS
<1>3. QED BY <1>1, <1>2 DEF Exact

\* A coroutine whose handle was collected goes on, and its awaitable goes.
LEMMA CoreReturn ==
    ASSUME LoopType, Core, handles # <<>>, pc = "user",
           NEW c \in Coros, c = Head(handles), NEW k \in Kinds, co[c] = k,
           ~Ini(k)', ~Dn(k)', H(k)' = None,
           \A j \in Kinds \ {k} : (Ini(j)' <=> Ini(j)) /\ (Dn(j)' <=> Dn(j)) /\ H(j)' = H(j),
           co'[c] = "idle", \A d \in Coros \ {c} : co'[d] = co[d],
           \A j \in Kinds : N(j)' = N(j),
           handles' = Tail(handles), refs' = refs - 1, UNCHANGED <<pc, back>>
    PROVE  Core' /\ Ini(k) /\ Dn(k)
<1>1. /\ \A j : N(j) \in Nat
      /\ \A f, S : Pop(f, Coros, S) \in Nat
  BY NatFacts
<1>2. ~Unwinding /\ ~Unwinding' /\ back = "user"
  BY DEF Core, Control, Unwinding
<1>3. /\ \A d : Times(handles, d) = Times(handles', d) + Bit(c = d)
      /\ \A d : Times(handles, d) \in Nat /\ Times(handles', d) \in Nat
  <2>1. handles \in Seq(Coros) /\ handles' \in Seq(Coros)
    BY DEF LoopType
  <2>2. \A d : Times(handles, d) = Times(Tail(handles), d) + Bit(Head(handles) = d)
    BY <2>1, Laws DEF TimesLaws
  <2>3. \A d : Times(handles, d) \in Nat /\ Times(handles', d) \in Nat
    BY <2>1, Laws DEF TimesLaws
  <2>4. QED BY <2>2, <2>3
<1>4. Ini(k) /\ Times(handles, c) = Bit(Dn(k))
  BY <1>2 DEF Core, Waiters
<1>5. Dn(k) /\ Times(handles', c) = 0
  BY <1>3, <1>4 DEF Bit
<1>6. \A d \in Coros \ {c} : Times(handles', d) = Times(handles, d)
  BY <1>3 DEF Bit
<1>7. ~Act(k) /\ ~Act(k)' /\ \A j \in Kinds \ {k} : Act(j)' <=> Act(j)
  BY <1>5 DEF Act
<1>8. \A d \in Coros \ {c} : co'[d] = co[d] /\ co[d] # k
  BY DEF Core, Frames
<1>9. "idle" \notin Kinds
  BY KindsFacts
<1>10. Control'
  BY <1>2 DEF Control
<1>11. Frames'
  <2>1. \A j \in Kinds : /\ Dn(j)' => Ini(j)'
                         /\ H(j)' \in Coros \cup {None} /\ (H(j)' # None <=> Act(j)')
    BY <1>7 DEF Core, Frames
  <2>2. \A d, e \in Coros : co'[d] \in Kinds /\ co'[d] = co'[e] => d = e
    BY <1>8, <1>9 DEF Core, Frames
  <2>3. QED BY <2>1, <2>2 DEF Frames
<1>12. Flight'
  BY <1>7 DEF Core, Flight, Bit
<1>13. Waiters'
  <2>1. ASSUME NEW j \in Kinds, H(j)' # None PROVE co'[H(j)'] = j
    <3>1. j # k /\ H(j)' = H(j) /\ co[H(j)] = j /\ H(j) \in Coros
      BY <1>2, <2>1 DEF Core, Waiters, Frames
    <3>2. H(j) # c
      BY <3>1
    <3>3. QED BY <3>1, <3>2
  <2>2. ASSUME NEW d \in Coros, NEW j \in Kinds, co'[d] = j
        PROVE  Ini(j)' /\ Times(handles', d) = Bit(Dn(j)')
    <3>1. d # c /\ co[d] = j /\ j # k
      BY <1>8, <1>9, <2>2
    <3>2. Ini(j) /\ Times(handles, d) = Bit(Dn(j))
      BY <1>2, <3>1 DEF Core, Waiters
    <3>3. QED BY <1>6, <3>1, <3>2 DEF Bit
  <2>3. ASSUME NEW d \in Coros, co'[d] \notin Kinds PROVE Times(handles', d) = 0
    <3>1. CASE d = c
      BY <1>5, <3>1
    <3>2. CASE d # c
      BY <1>2, <1>6, <1>8, <2>3, <3>2 DEF Core, Waiters
    <3>3. QED BY <3>1, <3>2
  <2>4. QED BY <2>1, <2>2, <2>3 DEF Waiters
<1>14. Exact'
  <2>1. /\ Pop(co', Coros, Alive) = Pop(co, Coros, Alive)
        /\ Pop(co', Coros, Kinds) + 1 = Pop(co, Coros, Kinds)
    <3>1. co[c] \in Alive /\ co[c] \in Kinds /\ co'[c] \in Alive /\ co'[c] \notin Kinds
      BY <1>9 DEF Alive
    <3>2. QED BY <1>1, <3>1, OneMoves DEF Bit
  <2>2. QED BY <1>1, <2>1, ExactReturns DEF Core
<1>15. QED BY <1>4, <1>5, <1>10, <1>11, <1>12, <1>13, <1>14 DEF Core

\* A completion is processed: the handle is collected, the reference ends.
LEMMA CoreReap ==
    ASSUME LoopType, LoopType', Core, pc = "reap", NEW k \in Kinds,
           Dn(k)', Ini(k)' <=> Ini(k), H(k)' = None,
           \A j \in Kinds \ {k} : (Ini(j)' <=> Ini(j)) /\ (Dn(j)' <=> Dn(j)) /\ H(j)' = H(j),
           N(k) = N(k)' + 1, \A j \in Kinds \ {k} : N(j)' = N(j),
           handles' = Collect(H(k)), refs' = refs - 1, UNCHANGED <<pc, back, co>>
    PROVE  Core' /\ Act(k)
<1>1. /\ \A j : N(j) \in Nat /\ N(j)' \in Nat
      /\ \A f, S : Pop(f, Coros, S) \in Nat
  <2>1. ASSUME NEW j PROVE N(j)' \in Nat
    <3>1. OfOp(sq', j) \in Nat /\ OfOp(cq', j) \in Nat
      BY Laws DEF LoopType, OpLaws
    <3>2. QED BY <3>1 DEF N, Bit
  <2>2. QED BY <2>1, NatFacts
<1>2. ~Unwinding /\ ~Unwinding' /\ back = "user"
  BY DEF Core, Control, Unwinding
<1>3. Act(k) /\ N(k)' = 0
  <2>1. N(k) = Bit(Act(k)) /\ N(k) \in Nat /\ N(k)' \in Nat
    BY <1>1 DEF Core, Flight
  <2>2. QED BY <2>1 DEF Bit
<1>4. /\ H(k) \in Coros /\ co[H(k)] = k /\ H(k) # None
      /\ Ini(k) /\ ~Dn(k) /\ ~Act(k)'
  BY <1>2, <1>3 DEF Core, Waiters, Frames, Act
<1>5. /\ \A d : Times(handles', d) = Times(handles, d) + Bit(H(k) = d)
      /\ \A d : Times(handles, d) \in Nat
  <2>1. handles \in Seq(Coros) /\ handles' = Append(handles, H(k))
    BY <1>4 DEF LoopType, Collect
  <2>2. QED BY <1>4, <2>1, Laws DEF TimesLaws
<1>6. \A j \in Kinds \ {k} : Act(j)' <=> Act(j)
  BY DEF Act
<1>7. Control'
  BY <1>2 DEF Control
<1>8. Frames'
  <2>1. \A j \in Kinds : /\ Dn(j)' => Ini(j)'
                         /\ H(j)' \in Coros \cup {None} /\ (H(j)' # None <=> Act(j)')
    BY <1>4, <1>6 DEF Core, Frames
  <2>2. QED BY <2>1 DEF Core, Frames
<1>9. Flight'
  BY <1>3, <1>4, <1>6 DEF Core, Flight, Bit
<1>10. Waiters'
  <2>1. ASSUME NEW j \in Kinds, H(j)' # None PROVE co'[H(j)'] = j
    BY <1>2, <2>1 DEF Core, Waiters
  <2>2. ASSUME NEW d \in Coros, NEW j \in Kinds, co'[d] = j
        PROVE  Ini(j)' /\ Times(handles', d) = Bit(Dn(j)')
    <3>1. Ini(j) /\ Times(handles, d) = Bit(Dn(j)) /\ co[d] = j
      BY <1>2, <2>2 DEF Core, Waiters
    <3>2. CASE d = H(k)
      <4>1. j = k
        BY <1>4, <3>1, <3>2
      <4>2. QED BY <1>4, <1>5, <3>1, <3>2, <4>1 DEF Bit
    <3>3. CASE d # H(k)
      <4>1. j # k
        BY <1>4, <3>1, <3>3 DEF Core, Frames
      <4>2. QED BY <1>5, <3>1, <3>3, <4>1 DEF Bit
    <3>4. QED BY <3>2, <3>3
  <2>3. ASSUME NEW d \in Coros, co'[d] \notin Kinds PROVE Times(handles', d) = 0
    <3>1. d # H(k) /\ Times(handles, d) = 0
      BY <1>2, <1>4, <2>3 DEF Core, Waiters
    <3>2. QED BY <1>5, <3>1 DEF Bit
  <2>4. QED BY <2>1, <2>2, <2>3 DEF Waiters
<1>11. Exact'
  <2>1. N("open")' + N("write")' + N("read")' = N("open") + N("write") + N("read") + (0 - 1)
    <3>1. N(k)' = N(k) + (0 - 1) /\ (0 - 1) \in Int
      BY <1>1
    <3>2. QED BY <1>1, <3>1, SumMoves
  <2>2. N("open") \in Nat /\ N("write") \in Nat /\ N("read") \in Nat
        /\ N("open")' \in Nat /\ N("write")' \in Nat /\ N("read")' \in Nat
    BY <1>1
  <2>3. QED BY <1>1, <2>1, <2>2 DEF Core, Exact
<1>12. QED BY <1>3, <1>7, <1>8, <1>9, <1>10, <1>11 DEF Core

\* A coroutine goes with its copy of the file, and its awaitable if it has one.
LEMMA CoreLeave ==
    ASSUME LoopType, Core, NEW c \in Coros, co[c] \in Alive, SameFrames,
           co'[c] = "gone", \A d \in Coros \ {c} : co'[d] = co[d],
           \A j \in Kinds : N(j)' = N(j), pc # "end", pc' # "end",
           refs' = refs - 1 - Bit(co[c] \in Kinds), UNCHANGED handles,
           ~Unwinding' => ~Unwinding /\ co[c] = "idle",
           Control'
    PROVE  Core'
<1>1. /\ \A j : N(j) \in Nat
      /\ \A f, S : Pop(f, Coros, S) \in Nat
  BY NatFacts
<1>2. \A k \in Kinds : (Act(k)' <=> Act(k)) /\ H(k)' = H(k) /\ (Ini(k)' <=> Ini(k))
                       /\ (Dn(k)' <=> Dn(k))
  BY DEF SameFrames, Act
<1>3. "gone" \notin Kinds /\ "gone" \notin Alive /\ "idle" \notin Kinds
  BY KindsFacts
<1>4. Frames'
  BY <1>2, <1>3 DEF Core, Frames
<1>5. Flight'
  BY <1>2 DEF Core, Flight, Bit
<1>6. Waiters'
  <2>1. SUFFICES ASSUME ~Unwinding'
                 PROVE  /\ \A k \in Kinds : H(k)' # None => co'[H(k)'] = k
                        /\ \A d \in Coros, k \in Kinds :
                              co'[d] = k => Ini(k)' /\ Times(handles', d) = Bit(Dn(k)')
                        /\ \A d \in Coros : co'[d] \notin Kinds => Times(handles', d) = 0
    BY DEF Waiters
  <2>2. ~Unwinding /\ co[c] = "idle"
    BY <2>1
  <2>3. ASSUME NEW k \in Kinds, H(k)' # None PROVE co'[H(k)'] = k
    <3>1. H(k)' = H(k) /\ co[H(k)] = k /\ H(k) \in Coros
      BY <1>2, <2>2, <2>3 DEF Core, Waiters, Frames
    <3>2. H(k) # c
      BY <1>3, <2>2, <3>1
    <3>3. QED BY <3>1, <3>2
  <2>4. ASSUME NEW d \in Coros, NEW k \in Kinds, co'[d] = k
        PROVE  Ini(k)' /\ Times(handles', d) = Bit(Dn(k)')
    <3>1. d # c /\ co[d] = k
      BY <1>3, <2>4
    <3>2. QED BY <1>2, <2>2, <3>1 DEF Core, Waiters, Bit
  <2>5. ASSUME NEW d \in Coros, co'[d] \notin Kinds PROVE Times(handles', d) = 0
    <3>1. co[d] \notin Kinds
      BY <1>3, <2>2, <2>5
    <3>2. QED BY <2>2, <3>1 DEF Core, Waiters
  <2>6. QED BY <2>3, <2>4, <2>5
<1>7. Exact'
  <2>1. /\ Pop(co', Coros, Alive) + 1 = Pop(co, Coros, Alive)
        /\ Pop(co', Coros, Kinds) + Bit(co[c] \in Kinds) = Pop(co, Coros, Kinds)
    BY <1>1, <1>3, OneMoves DEF Bit
  <2>2. N("open")' = N("open") /\ N("write")' = N("write") /\ N("read")' = N("read")
    BY KindsFacts
  <2>3. N("open") \in Nat /\ N("write") \in Nat /\ N("read") \in Nat
    BY <1>1
  <2>4. QED BY <1>1, <2>1, <2>2, <2>3 DEF Core, Exact, Bit
<1>8. QED BY <1>4, <1>5, <1>6, <1>7 DEF Core

\* An SQE is queued.
LEMMA QueueFacts ==
    ASSUME LoopType, NEW o \in Sqe, sq' = Append(sq, o), UNCHANGED <<cq, held>>
    PROVE  /\ sq' \in Seq(Sqe)
           /\ \A j \in Kinds : N(j)' = N(j) + Bit(o.op = j)
<1>1. sq \in Seq(Sqe) /\ sq' \in Seq(Sqe)
  BY DEF LoopType
<1>2. \A j : OfOp(sq', j) = OfOp(sq, j) + Bit(o.op = j)
  BY <1>1, Laws DEF OpLaws
<1>3. \A j : OfOp(sq, j) \in Nat /\ OfOp(cq, j) \in Nat
  BY NatFacts
<1>4. ASSUME NEW j \in Kinds PROVE N(j)' = N(j) + Bit(o.op = j)
  <2>1. Bit(o.op = j) \in Nat /\ Bit(held[j] # None) \in Nat
    BY DEF Bit
  <2>2. held'[j] = held[j] /\ cq' = cq
    OBVIOUS
  <2>3. QED BY <1>2, <1>3, <2>1, <2>2 DEF N
<1>5. QED BY <1>1, <1>4

\* The SQEs of the file.
LEMMA SqeFacts ==
    /\ \A k \in Kinds, s \in Slots \cup {NoFd}, b \in Buffers \cup {None}, i \in Ids \cup {NoIndex} :
          /\ Op(k, s, b, i) \in Sqe /\ Op(k, s, b, i).op = k
          /\ Op(k, s, b, i).slot = s /\ Op(k, s, b, i).buf = b /\ Op(k, s, b, i).index = i
    /\ \A k \in Kinds : Cancel(k) \in Sqe /\ Cancel(k).op = "cancel" /\ Cancel(k).of = k
    /\ "cancel" \notin Kinds
<1>1. ASSUME NEW k \in Kinds, NEW s \in Slots \cup {NoFd}, NEW b \in Buffers \cup {None},
             NEW i \in Ids \cup {NoIndex}
      PROVE  /\ Op(k, s, b, i) \in Sqe /\ Op(k, s, b, i).op = k
             /\ Op(k, s, b, i).slot = s /\ Op(k, s, b, i).buf = b /\ Op(k, s, b, i).index = i
  BY DEF Op, Sqe
<1>2. ASSUME NEW k \in Kinds
      PROVE  Cancel(k) \in Sqe /\ Cancel(k).op = "cancel" /\ Cancel(k).of = k
  BY DEF Cancel, Sqe
<1>3. QED BY <1>1, <1>2, KindsFacts

-----------------------------------------------------------------------------
(* The steps of the coroutines.                                            *)

\* async_open.
LEMMA AsyncOpenInv ==
    ASSUME Types, Core, Uses = {}, NEW c \in Coros, AsyncOpen(c)
    PROVE  Types' /\ Core'
<1>1. PICK s \in fds :
          /\ fds' = fds \ {s}
          /\ of' = [of EXCEPT !.h = c, !.temp = s, !.initiated = TRUE]
          /\ sq' = Append(sq, Op("open", s, None, NoIndex))
  BY DEF AsyncOpen
<1>2. /\ pc = "user" /\ co[c] = "idle" /\ ~of.initiated /\ fd = NoFd
      /\ refs' = refs + 2 /\ co' = [co EXCEPT ![c] = "open"]
      /\ UNCHANGED <<xf, fd, ids, avail, own, mem, arg, returned, writes, handles,
                     pc, back, held, cq, file, content, others>>
  BY DEF AsyncOpen, Free, poolVars, loopVars
<1>3. s \in Slots /\ of \in OFrame
  BY DEF Types, FrameType
<1>4. /\ of' \in OFrame /\ of'.h = c /\ of'.temp = s /\ of'.initiated
      /\ of'.done = of.done
  BY <1>1, <1>3 DEF OFrame
<1> DEFINE o == Op("open", s, None, NoIndex)
<1>5. o \in Sqe /\ o.op = "open" /\ sq' = Append(sq, o)
  BY <1>1, <1>3, SqeFacts, KindsFacts
<1> HIDE DEF o
<1>6. sq' \in Seq(Sqe) /\ \A j \in Kinds : N(j)' = N(j) + Bit(j = "open")
  BY <1>2, <1>5, QueueFacts DEF Types, Bit
<1>7. /\ co' \in [Coros -> Kinds \cup {"idle", "gone"}]
      /\ co'[c] = "open" /\ \A d \in Coros \ {c} : co'[d] = co[d]
  BY <1>2, KindsFacts DEF Types, LoopType
<1>8. LoopType'
  BY <1>2, <1>6, <1>7 DEF Types, LoopType
<1>9. Types'
  <2>1. FrameType'
    BY <1>1, <1>2, <1>4 DEF Types, FrameType
  <2>2. PoolType' /\ DataType'
    BY <1>2 DEF Types, PoolType, DataType
  <2>3. QED BY <1>8, <2>1, <2>2 DEF Types
<1>10. /\ ~Ini("open") /\ Ini("open")' /\ (Dn("open")' <=> Dn("open")) /\ H("open")' = c
       /\ \A j \in Kinds \ {"open"} :
             (Ini(j)' <=> Ini(j)) /\ (Dn(j)' <=> Dn(j)) /\ H(j)' = H(j)
  BY <1>2, <1>4 DEF Ini, Dn, H
<1>11. /\ N("open")' = N("open") + 1
       /\ \A j \in Kinds \ {"open"} : N(j)' = N(j)
  <2>1. \A j : N(j) \in Nat
    BY NatFacts DEF Types
  <2>2. QED BY <1>6, <2>1, KindsFacts DEF Bit
<1>12. UNCHANGED <<pc, back, handles>> /\ "open" \in Kinds
  BY <1>2, KindsFacts
<1>13. Core'
  BY <1>2, <1>7, <1>8, <1>10, <1>11, <1>12, CoreStart DEF Types
<1>14. QED BY <1>9, <1>13

\* The buffer that goes into a frame.
LEMMA SetBufFacts ==
    ASSUME NEW f \in XFrame, NEW b \in Buffers
    PROVE  /\ SetBuf(f, b) \in XFrame /\ SetBuf(f, b).buf = b
           /\ SetBuf(f, b).index = IF b \in Ids THEN b ELSE f.index
           /\ SetBuf(f, b).h = f.h /\ SetBuf(f, b).res = f.res
           /\ SetBuf(f, b).initiated = f.initiated /\ SetBuf(f, b).done = f.done
<1>1. CASE b \in Ids
  BY <1>1 DEF SetBuf, XFrame
<1>2. CASE b \notin Ids
  BY <1>2 DEF SetBuf, XFrame
<1>3. QED BY <1>1, <1>2

\* The memory a coroutine passes exists.
LEMMA BuffersOfFacts ==
    ASSUME Types, NEW c \in Coros
    PROVE  BuffersOf(c) \subseteq Buffers
<1>1. own[c] # None => own[c] \in Fixed
  BY DEF Types, PoolType
<1>2. own[c] # None => own[c].id \in Ids
  BY <1>1 DEF Fixed
<1>3. QED BY <1>2 DEF BuffersOf, Buffers

\* The index that goes with it.
IndexOf(k, b) == IF b \in Ids THEN b ELSE xf[k].index

\* What async_write and async_read do to the frame, the buffer and the counters.
LEMMA TransferFacts ==
    ASSUME Types, NEW c \in Coros, NEW k \in Transfers, NEW b \in BuffersOf(c),
           AsyncTransfer(c, k, b)
    PROVE  /\ pc = "user" /\ co[c] = "idle" /\ ~xf[k].initiated
           /\ refs' = refs + 2 /\ co' = [co EXCEPT ![c] = k]
           /\ UNCHANGED <<of, fd, fds, ids, avail, own, returned, handles, pc, back,
                          held, cq, file, content, others>>
           /\ xf' \in [Transfers -> XFrame]
           /\ xf'[k].h = c /\ xf'[k].initiated /\ xf'[k].done = xf[k].done
           /\ xf'[k].res = xf[k].res
           /\ \A j \in Transfers \ {k} : xf'[j] = xf[j]
           /\ b \in Buffers /\ k \in Kinds
<1> DEFINE f == SetBuf(xf[k], b)
           g == [f EXCEPT !.h = c, !.initiated = TRUE]
<1>1. /\ pc = "user" /\ co[c] = "idle" /\ ~xf[k].initiated
      /\ refs' = refs + 2 /\ co' = [co EXCEPT ![c] = k]
      /\ UNCHANGED <<of, fd, fds, ids, avail, own, returned, handles, pc, back,
                     held, cq, file, content, others>>
      /\ xf' = [xf EXCEPT ![k] = g]
  BY DEF AsyncTransfer, Free, poolVars, loopVars
<1>2. xf \in [Transfers -> XFrame] /\ xf[k] \in XFrame /\ b \in Buffers
  BY BuffersOfFacts DEF Types, FrameType
<1>3. f \in XFrame /\ f.done = xf[k].done /\ f.res = xf[k].res
  BY <1>2, SetBufFacts
<1> HIDE DEF f
<1>4. g \in XFrame /\ g.h = c /\ g.initiated /\ g.done = f.done /\ g.res = f.res
  BY <1>3 DEF XFrame
<1> HIDE DEF g
<1>5. /\ xf' \in [Transfers -> XFrame] /\ xf'[k] = g
      /\ \A j \in Transfers \ {k} : xf'[j] = xf[j]
  BY <1>1, <1>2, <1>4
<1>6. k \in Kinds
  BY DEF Kinds
<1>7. QED BY <1>1, <1>2, <1>3, <1>4, <1>5, <1>6

\* The SQE it queues.
LEMMA TransferSqe ==
    ASSUME Types, NEW c \in Coros, NEW k \in Transfers, NEW b \in BuffersOf(c),
           AsyncTransfer(c, k, b)
    PROVE  \E o \in Sqe : /\ sq' = Append(sq, o) /\ o.op = k /\ o.slot = fd
                          /\ o.buf = b /\ o.index = IndexOf(k, b)
<1> DEFINE f == SetBuf(xf[k], b)
           o == Op(k, fd, b, IndexOf(k, b))
<1>1. sq' = Append(sq, Op(k, fd, f.buf, f.index))
  BY DEF AsyncTransfer
<1>2. xf[k] \in XFrame /\ b \in Buffers /\ k \in Kinds
  BY BuffersOfFacts DEF Types, FrameType, Kinds
<1>3. f.buf = b /\ f.index = IndexOf(k, b)
  BY <1>2, SetBufFacts DEF IndexOf
<1>4. /\ IndexOf(k, b) \in Ids \cup {NoIndex} /\ fd \in Slots \cup {NoFd}
      /\ b \in Buffers \cup {None}
  BY <1>2 DEF IndexOf, XFrame, Types, FrameType
<1>5. o \in Sqe /\ o.op = k /\ o.slot = fd /\ o.buf = b /\ o.index = IndexOf(k, b)
  BY <1>2, <1>4, SqeFacts
<1>6. sq' = Append(sq, o)
  BY <1>1, <1>3
<1> HIDE DEF o
<1>7. QED BY <1>5, <1>6

\* The data it is about.
LEMMA TransferData ==
    ASSUME Types, NEW c \in Coros, NEW k \in Transfers, NEW b \in BuffersOf(c),
           AsyncTransfer(c, k, b)
    PROVE  /\ DataType'
           /\ arg'[c].buf = b /\ arg'[c].data = Expected(k)
           /\ \A d \in Coros \ {c} : arg'[d] = arg[d]
           /\ UNCHANGED <<returned, content>>
           /\ k = "read" => UNCHANGED <<mem, writes>>
           /\ k # "read" => /\ writes' = writes + 1 /\ mem'[b] = writes + 1
                            /\ \A x \in Buffers \ {b} : mem'[x] = mem[x]
<1>1. /\ UNCHANGED <<returned, content>>
      /\ arg' = [arg EXCEPT ![c] = [buf |-> b, data |-> Expected(k)]]
      /\ Fill(k, b)
  BY DEF AsyncTransfer
<1>2. b \in Buffers
  BY BuffersOfFacts
<1>3. /\ writes \in 0..MaxWrites /\ returned \in 0..MaxWrites /\ MaxWrites \in Nat
      /\ mem \in [Buffers -> 0..MaxWrites] /\ arg \in [Coros -> Arg]
      /\ content \in 0..MaxWrites
  BY FileAssumption DEF Types, DataType
<1>4. /\ writes' \in 0..MaxWrites /\ mem' \in [Buffers -> 0..MaxWrites]
      /\ Expected(k) \in 0..MaxWrites
      /\ k = "read" => UNCHANGED <<mem, writes>>
      /\ k # "read" => /\ writes' = writes + 1 /\ mem'[b] = writes + 1
                       /\ \A x \in Buffers \ {b} : mem'[x] = mem[x]
  <2>1. CASE k = "read"
    BY <1>1, <1>3, <2>1 DEF Fill, Expected
  <2>2. CASE k # "read"
    <3>1. /\ writes < MaxWrites /\ writes' = writes + 1
          /\ mem' = [mem EXCEPT ![b] = writes + 1] /\ k = "write"
      BY <1>1, <2>2 DEF Fill, Transfers
    <3>2. writes + 1 \in 0..MaxWrites
      BY <1>3, <3>1
    <3>3. QED BY <1>2, <1>3, <2>2, <3>1, <3>2 DEF Expected
  <2>3. QED BY <2>1, <2>2
<1> DEFINE a == [buf |-> b, data |-> Expected(k)]
<1>5. a \in Arg /\ a.buf = b /\ a.data = Expected(k) /\ arg' = [arg EXCEPT ![c] = a]
  BY <1>1, <1>2, <1>4 DEF Arg
<1> HIDE DEF a
<1>6. arg' \in [Coros -> Arg] /\ arg'[c] = a /\ \A d \in Coros \ {c} : arg'[d] = arg[d]
  BY <1>3, <1>5
<1>7. DataType'
  BY <1>1, <1>3, <1>4, <1>6 DEF DataType
<1>8. QED BY <1>1, <1>4, <1>5, <1>6, <1>7

\* async_write and async_read.
LEMMA AsyncTransferInv ==
    ASSUME Types, Core, NEW c \in Coros, NEW k \in Transfers, NEW b \in BuffersOf(c),
           AsyncTransfer(c, k, b)
    PROVE  Types' /\ Core'
<1>1. /\ pc = "user" /\ co[c] = "idle" /\ ~xf[k].initiated
      /\ refs' = refs + 2 /\ co' = [co EXCEPT ![c] = k]
      /\ UNCHANGED <<of, fd, fds, ids, avail, own, returned, handles, pc, back,
                     held, cq, file, content, others>>
      /\ xf' \in [Transfers -> XFrame]
      /\ xf'[k].h = c /\ xf'[k].initiated /\ xf'[k].done = xf[k].done
      /\ \A j \in Transfers \ {k} : xf'[j] = xf[j]
      /\ b \in Buffers /\ k \in Kinds /\ k # "open"
      /\ DataType'
  BY TransferFacts, TransferData DEF Transfers
<1>2. PICK o \in Sqe : sq' = Append(sq, o) /\ o.op = k
  BY TransferSqe
<1>3. sq' \in Seq(Sqe) /\ \A j \in Kinds : N(j)' = N(j) + Bit(j = k)
  BY <1>1, <1>2, QueueFacts DEF Types, Bit
<1>4. /\ co' \in [Coros -> Kinds \cup {"idle", "gone"}]
      /\ co'[c] = k /\ \A d \in Coros \ {c} : co'[d] = co[d]
  BY <1>1 DEF Types, LoopType
<1>5. LoopType'
  BY <1>1, <1>3, <1>4 DEF Types, LoopType
<1>6. Types'
  <2>1. FrameType' /\ PoolType'
    BY <1>1 DEF Types, FrameType, PoolType
  <2>2. QED BY <1>1, <1>5, <2>1 DEF Types
<1>7. /\ ~Ini(k) /\ Ini(k)' /\ (Dn(k)' <=> Dn(k)) /\ H(k)' = c
      /\ \A j \in Kinds \ {k} :
             (Ini(j)' <=> Ini(j)) /\ (Dn(j)' <=> Dn(j)) /\ H(j)' = H(j)
  BY <1>1 DEF Ini, Dn, H, Kinds
<1>8. N(k)' = N(k) + 1 /\ \A j \in Kinds \ {k} : N(j)' = N(j)
  <2>1. \A j : N(j) \in Nat
    BY NatFacts DEF Types
  <2>2. QED BY <1>1, <1>3, <2>1 DEF Bit
<1>9. UNCHANGED <<pc, back, handles>> /\ k \in Kinds
  BY <1>1
<1>10. Core'
  BY <1>1, <1>4, <1>5, <1>7, <1>8, <1>9, CoreStart DEF Types
<1>11. QED BY <1>6, <1>10

\* A transfer that is turned away changes the buffer of the frame, and cancels
\* the transfer under way.
LEMMA TransferBusyInv ==
    ASSUME Types, Core, NEW c \in Coros, NEW k \in Transfers, NEW b \in BuffersOf(c),
           TransferBusy(c, k, b)
    PROVE  Types' /\ Core' /\ SameFrames /\ (\A j \in Kinds : N(j)' = N(j))
           /\ (sq' = sq \/ sq' = Append(sq, Cancel(k)))
<1>1. /\ pc = "user" /\ xf' = [xf EXCEPT ![k] = SetBuf(@, b)]
      /\ UNCHANGED <<of, refs, fd, fds, ids, avail, own, mem, co, arg, returned, writes,
                     handles, held, cq, file, content, others>>
      /\ \/ sq' = Append(sq, Cancel(k)) /\ pc' = "submit" /\ back' = "user"
         \/ UNCHANGED <<sq, pc, back>>
  BY DEF TransferBusy, Free, poolVars, coVars
<1>2. xf \in [Transfers -> XFrame] /\ xf[k] \in XFrame /\ b \in Buffers
  BY BuffersOfFacts DEF Types, FrameType
<1> DEFINE f == SetBuf(xf[k], b)
<1>3. /\ f \in XFrame /\ f.h = xf[k].h
      /\ f.initiated = xf[k].initiated /\ f.done = xf[k].done
  BY <1>2, SetBufFacts
<1>4. xf' = [xf EXCEPT ![k] = f]
  BY <1>1
<1> HIDE DEF f
<1>5. /\ xf' \in [Transfers -> XFrame] /\ xf'[k] = f
      /\ \A j \in Transfers \ {k} : xf'[j] = xf[j]
  BY <1>2, <1>3, <1>4
<1>6. SameFrames
  <2>1. \A j \in Transfers : /\ xf'[j].initiated = xf[j].initiated
                             /\ xf'[j].done = xf[j].done /\ xf'[j].h = xf[j].h
    BY <1>3, <1>5
  <2>2. of' = of /\ \A j \in Kinds : j # "open" => j \in Transfers
    BY <1>1 DEF Kinds
  <2>3. QED BY <2>1, <2>2 DEF SameFrames, Ini, Dn, H
<1>7. sq' \in Seq(Sqe) /\ \A j \in Kinds : N(j)' = N(j)
  <2>1. UNCHANGED <<cq, held>> /\ k \in Kinds
    BY <1>1 DEF Kinds
  <2>2. CASE sq' = sq
    BY <2>1, <2>2 DEF N, Types, LoopType
  <2>3. CASE sq' = Append(sq, Cancel(k))
    <3>1. /\ Cancel(k) \in Sqe /\ \A j \in Kinds : Cancel(k).op # j
      BY <2>1, SqeFacts
    <3>2. /\ sq' \in Seq(Sqe)
          /\ \A j \in Kinds : N(j)' = N(j) + Bit(Cancel(k).op = j)
      BY <2>1, <2>3, <3>1, QueueFacts DEF Types
    <3>3. \A j : N(j) \in Nat
      BY NatFacts DEF Types
    <3>4. QED BY <3>1, <3>2, <3>3 DEF Bit
  <2>4. QED BY <1>1, <2>2, <2>3
<1>8. pc' \in {"user", "submit"} /\ back' \in {"user", "reap", "abort"} /\ back' = "user"
      /\ (sq' = sq \/ sq' = Append(sq, Cancel(k)))
  BY <1>1 DEF Core, Control, Types, LoopType
<1>9. Types'
  <2>1. FrameType' /\ PoolType' /\ DataType'
    BY <1>1, <1>5 DEF Types, FrameType, PoolType, DataType
  <2>2. LoopType'
    BY <1>1, <1>7, <1>8 DEF Types, LoopType
  <2>3. QED BY <2>1, <2>2 DEF Types
<1>10. Control' /\ ~Unwinding /\ ~Unwinding'
  BY <1>1, <1>8 DEF Core, Control, Unwinding
<1>11. Core'
  <2>1. UNCHANGED <<refs, co, handles>> /\ (pc' = "end" <=> pc = "end")
    BY <1>1, <1>8
  <2>2. QED BY <1>6, <1>7, <1>10, <2>1, CoreThread DEF Types
<1>12. QED BY <1>6, <1>7, <1>8, <1>9, <1>11

\* A step that leaves the frames, the queues and the thread alone.
LEMMA CoreSame ==
    ASSUME LoopType, Core, UNCHANGED <<of, xf, refs, co, handles, pc, back, sq, held, cq>>
    PROVE  LoopType' /\ Core'
<1>1. SameFrames
  BY DEF SameFrames, Ini, Dn, H
<1>2. \A k \in Kinds : N(k)' = N(k)
  BY DEF N
<1>3. Control' /\ LoopType' /\ (Unwinding' <=> Unwinding)
  BY DEF Core, Control, LoopType, Unwinding
<1>4. QED BY <1>1, <1>2, <1>3, CoreThread

\* What ~fixed_buffer writes is an index.
LEMMA ReturnBufType ==
    ASSUME Types, NEW c \in Coros, ReturnBuf(c)
    PROVE  PoolType'
<1>1. own' = [own EXCEPT ![c] = None] /\ avail' = avail
  BY DEF ReturnBuf
<1>2. own[c] # None => own[c].id \in Ids /\ own[c].pos \in Ids
  BY DEF Types, PoolType, Fixed
<1>3. ids' \in [Ids -> Ids]
  BY <1>2 DEF ReturnBuf, Types, PoolType
<1>4. QED BY <1>1, <1>3 DEF Types, PoolType

\* The pool is used, somebody else uses a slot, the file is closed.
LEMMA ElsewhereInv ==
    ASSUME Types, Core,
           \/ \E c \in Coros : GetAvailBuf(c) \/ DropBuf(c)
           \/ \E s \in Slots : Other(s)
           \/ Destruct
    PROVE  Types' /\ Core'
<1>1. UNCHANGED <<of, xf, refs, co, handles, pc, back, sq, held, cq>>
  BY DEF GetAvailBuf, DropBuf, Other, Destruct, frameVars, coVars, loopVars, kernVars
<1>2. LoopType' /\ Core'
  BY <1>1, CoreSame DEF Types
<1>3. DataType'
  BY DEF GetAvailBuf, DropBuf, Other, Destruct, coVars, kernVars, Types, DataType
<1>4. PoolType'
  <2>1. CASE \E c \in Coros : GetAvailBuf(c)
    <3>1. PICK c \in Coros : GetAvailBuf(c)
      BY <2>1
    <3>2. avail \in 0..NumBufs /\ NumBufs \in Nat /\ avail # 0
      BY <3>1, FileAssumption DEF GetAvailBuf, Types, PoolType
    <3>3. avail - 1 \in Ids /\ avail - 1 \in 0..NumBufs
      BY <3>2 DEF Ids
    <3>4. [id |-> ids[avail - 1], pos |-> avail - 1] \in Fixed
      BY <3>3 DEF Types, PoolType, Fixed
    <3>5. QED BY <3>1, <3>3, <3>4 DEF GetAvailBuf, Types, PoolType
  <2>2. CASE \E c \in Coros : DropBuf(c)
    BY <2>2, ReturnBufType DEF DropBuf
  <2>3. CASE (\E s \in Slots : Other(s)) \/ Destruct
    BY <2>3 DEF Other, Destruct, poolVars, Types, PoolType
  <2>4. QED BY <2>1, <2>2, <2>3
<1>5. FrameType'
  <2>1. CASE \E c \in Coros : GetAvailBuf(c) \/ DropBuf(c)
    BY <2>1 DEF GetAvailBuf, DropBuf, frameVars, kernVars, Types, FrameType
  <2>2. CASE \E s \in Slots : Other(s)
    BY <2>2 DEF Other, Types, FrameType
  <2>3. CASE Destruct
    BY <2>3 DEF Destruct, Types, FrameType
  <2>4. QED BY <2>1, <2>2, <2>3
<1>6. QED BY <1>2, <1>3, <1>4, <1>5 DEF Types

\* A coroutine lets go of its copy of the file.
LEMMA LetGoInv ==
    ASSUME Types, Core, NEW c \in Coros, LetGo(c)
    PROVE  Types' /\ Core'
<1>1. /\ pc = "user" /\ co[c] = "idle" /\ co' = [co EXCEPT ![c] = "gone"]
      /\ refs' = refs - 1 /\ ReturnBuf(c)
      /\ UNCHANGED <<of, xf, fd, fds, mem, arg, returned, writes, handles, pc, back,
                     sq, held, cq, file, content, others>>
  BY DEF LetGo, Free, loopVars, kernVars
<1>2. /\ co' \in [Coros -> Kinds \cup {"idle", "gone"}]
      /\ co'[c] = "gone" /\ \A d \in Coros \ {c} : co'[d] = co[d]
  BY <1>1 DEF Types, LoopType
<1>3. Types'
  <2>1. FrameType' /\ DataType' /\ LoopType'
    BY <1>1, <1>2 DEF Types, FrameType, DataType, LoopType
  <2>2. QED BY <1>1, <2>1, ReturnBufType DEF Types
<1>4. SameFrames /\ \A j \in Kinds : N(j)' = N(j)
  BY <1>1 DEF SameFrames, Ini, Dn, H, N
<1>5. co[c] \in Alive /\ co[c] \notin Kinds
  BY <1>1, KindsFacts
<1>6. refs' = refs - 1 - Bit(co[c] \in Kinds)
  <2>1. refs \in Nat
    BY ExactNat DEF Types, Core
  <2>2. QED BY <1>1, <1>5, <2>1 DEF Bit
<1>7. Control' /\ ~Unwinding /\ ~Unwinding'
  BY <1>1 DEF Core, Control, Unwinding
<1>8. UNCHANGED handles /\ pc # "end" /\ pc' # "end"
  BY <1>1
<1>9. Core'
  BY <1>1, <1>2, <1>4, <1>5, <1>6, <1>7, <1>8, CoreLeave DEF Types
<1>10. QED BY <1>3, <1>9

\* Reset frames.
LEMMA ResetFacts ==
    /\ ResetOpen \in OFrame /\ ResetOpen.h = None /\ ~ResetOpen.initiated /\ ~ResetOpen.done
    /\ ResetOpen.temp = NoFd
    /\ \A f : /\ ResetTransfer(f) \in XFrame /\ ResetTransfer(f).h = None
              /\ ~ResetTransfer(f).initiated /\ ~ResetTransfer(f).done
              /\ ResetTransfer(f).index = NoIndex /\ ResetTransfer(f).res = Ok
    /\ NoArg \in Arg
<1>1. /\ ResetOpen \in OFrame /\ ResetOpen.h = None /\ ~ResetOpen.initiated
      /\ ~ResetOpen.done /\ ResetOpen.temp = NoFd
  BY DEF ResetOpen, OFrame
<1>2. ASSUME NEW f
      PROVE  /\ ResetTransfer(f) \in XFrame /\ ResetTransfer(f).h = None
             /\ ~ResetTransfer(f).initiated /\ ~ResetTransfer(f).done
             /\ ResetTransfer(f).index = NoIndex /\ ResetTransfer(f).res = Ok
  BY DEF ResetTransfer, XFrame, Ok
<1>3. NoArg \in Arg
  BY FileAssumption DEF NoArg, Arg
<1>4. QED BY <1>1, <1>2, <1>3

\* What resuming a coroutine does, whatever it waited for.
LEMMA ResumeFacts ==
    ASSUME Types, Core, Resume
    PROVE  /\ Head(handles) \in Coros /\ handles # <<>> /\ pc = "user"
           /\ co[Head(handles)] \in Kinds
           /\ co' \in [Coros -> Kinds \cup {"idle", "gone"}]
           /\ co'[Head(handles)] = "idle"
           /\ \A d \in Coros \ {Head(handles)} : co'[d] = co[d]
           /\ arg' \in [Coros -> Arg]
           /\ \A d \in Coros \ {Head(handles)} : arg'[d] = arg[d]
           /\ handles' = Tail(handles) /\ handles' \in Seq(Coros) /\ refs' = refs - 1
           /\ UNCHANGED <<fd, fds, ids, avail, own, mem, writes, pc, back, sq, held, cq,
                          file, content, others>>
<1> DEFINE c == Head(handles)
<1>1. /\ handles # <<>> /\ handles \in Seq(Coros) /\ pc = "user"
      /\ handles' = Tail(handles) /\ refs' = refs - 1
      /\ co' = [co EXCEPT ![c] = "idle"] /\ arg' = [arg EXCEPT ![c] = NoArg]
      /\ UNCHANGED <<fd, fds, ids, avail, own, mem, writes, pc, back, sq, held, cq,
                     file, content, others>>
      /\ co[c] = "open" \/ co[c] \in Transfers
  BY DEF Resume, Types, LoopType, poolVars, kernVars
<1>2. c \in Coros /\ handles' \in Seq(Coros) /\ co[c] \in Kinds
  BY <1>1, TailEntries DEF Kinds
<1> HIDE DEF c
<1>3. /\ co \in [Coros -> Kinds \cup {"idle", "gone"}] /\ arg \in [Coros -> Arg]
      /\ NoArg \in Arg
  BY ResetFacts DEF Types, LoopType, DataType
<1>4. /\ co' \in [Coros -> Kinds \cup {"idle", "gone"}]
      /\ co'[c] = "idle" /\ \A d \in Coros \ {c} : co'[d] = co[d]
  BY <1>1, <1>2, <1>3
<1>5. arg' \in [Coros -> Arg] /\ \A d \in Coros \ {c} : arg'[d] = arg[d]
  BY <1>1, <1>2, <1>3
<1>6. QED BY <1>1, <1>2, <1>4, <1>5 DEF c

\* await_resume of an open.
LEMMA ResumeOpenInv ==
    ASSUME Types, Core, Resume, co[Head(handles)] = "open"
    PROVE  Types' /\ Core' /\ of' = ResetOpen /\ of.done /\ of.initiated /\ UNCHANGED xf
<1> DEFINE c == Head(handles)
<1>1. of' = ResetOpen /\ UNCHANGED <<xf, returned>>
  BY DEF Resume, Transfers
<1>2. /\ c \in Coros /\ handles # <<>> /\ pc = "user" /\ co[c] = "open"
      /\ co' \in [Coros -> Kinds \cup {"idle", "gone"}]
      /\ co'[c] = "idle" /\ \A d \in Coros \ {c} : co'[d] = co[d]
      /\ arg' \in [Coros -> Arg]
      /\ handles' = Tail(handles) /\ handles' \in Seq(Coros) /\ refs' = refs - 1
      /\ UNCHANGED <<fd, fds, ids, avail, own, mem, writes, pc, back, sq, held, cq,
                     file, content, others>>
  BY ResumeFacts
<1>3. c = Head(handles)
  OBVIOUS
<1> HIDE DEF c
<1>4. /\ ~Ini("open")' /\ ~Dn("open")' /\ H("open")' = None
      /\ \A j \in Kinds \ {"open"} :
            (Ini(j)' <=> Ini(j)) /\ (Dn(j)' <=> Dn(j)) /\ H(j)' = H(j)
  BY <1>1, ResetFacts DEF Ini, Dn, H
<1>5. Types'
  <2>1. FrameType' /\ PoolType'
    BY <1>1, <1>2, ResetFacts DEF Types, FrameType, PoolType
  <2>2. DataType' /\ LoopType'
    BY <1>1, <1>2 DEF Types, DataType, LoopType
  <2>3. QED BY <2>1, <2>2 DEF Types
<1>6. \A j \in Kinds : N(j)' = N(j)
  BY <1>2 DEF N
<1>7. UNCHANGED <<pc, back>> /\ "open" \in Kinds
  BY <1>2, KindsFacts
<1>8. Core' /\ Ini("open") /\ Dn("open")
  BY <1>2, <1>3, <1>4, <1>6, <1>7, CoreReturn DEF Types
<1>9. QED BY <1>1, <1>5, <1>8 DEF Ini, Dn

\* await_resume of a transfer.
LEMMA ResumeTransferInv ==
    ASSUME Types, Core, Resume, NEW k \in Transfers, co[Head(handles)] = k
    PROVE  /\ Types' /\ Core' /\ xf[k].done /\ xf[k].initiated /\ UNCHANGED of
           /\ xf'[k] = ResetTransfer(xf[k]) /\ \A j \in Transfers \ {k} : xf'[j] = xf[j]
           /\ returned' = IF k = "write" /\ xf[k].res = Ok
                          THEN arg[Head(handles)].data ELSE returned
<1> DEFINE c == Head(handles)
<1>1. /\ xf' = [xf EXCEPT ![k] = ResetTransfer(xf[k])] /\ UNCHANGED of
      /\ returned' = IF k = "write" /\ xf[k].res = Ok THEN arg[c].data ELSE returned
  BY DEF Resume, Transfers
<1>2. /\ c \in Coros /\ handles # <<>> /\ pc = "user" /\ co[c] = k
      /\ co' \in [Coros -> Kinds \cup {"idle", "gone"}]
      /\ co'[c] = "idle" /\ \A d \in Coros \ {c} : co'[d] = co[d]
      /\ arg' \in [Coros -> Arg]
      /\ handles' = Tail(handles) /\ handles' \in Seq(Coros) /\ refs' = refs - 1
      /\ UNCHANGED <<fd, fds, ids, avail, own, mem, writes, pc, back, sq, held, cq,
                     file, content, others>>
  BY ResumeFacts
<1>3. c = Head(handles) /\ k \in Kinds /\ k # "open"
  BY DEF Kinds, Transfers
<1> HIDE DEF c
<1>4. /\ xf' \in [Transfers -> XFrame] /\ xf'[k] = ResetTransfer(xf[k])
      /\ \A j \in Transfers \ {k} : xf'[j] = xf[j]
  <2>1. xf \in [Transfers -> XFrame] /\ ResetTransfer(xf[k]) \in XFrame
    BY ResetFacts DEF Types, FrameType
  <2>2. QED BY <1>1, <2>1
<1>5. /\ ~Ini(k)' /\ ~Dn(k)' /\ H(k)' = None
      /\ \A j \in Kinds \ {k} :
            (Ini(j)' <=> Ini(j)) /\ (Dn(j)' <=> Dn(j)) /\ H(j)' = H(j)
  <2>1. ~Ini(k)' /\ ~Dn(k)' /\ H(k)' = None
    BY <1>3, <1>4, ResetFacts DEF Ini, Dn, H
  <2>2. QED BY <1>1, <1>4, <2>1 DEF Ini, Dn, H, Kinds
<1>6. returned' \in 0..MaxWrites
  <2>1. arg[c].data \in 0..MaxWrites
    BY <1>2 DEF Types, DataType, Arg
  <2>2. QED BY <1>1, <2>1 DEF Types, DataType
<1>7. Types'
  <2>1. FrameType' /\ PoolType'
    BY <1>1, <1>2, <1>4 DEF Types, FrameType, PoolType
  <2>2. DataType' /\ LoopType'
    BY <1>2, <1>6 DEF Types, DataType, LoopType
  <2>3. QED BY <2>1, <2>2 DEF Types
<1>8. \A j \in Kinds : N(j)' = N(j)
  BY <1>2 DEF N
<1>9. UNCHANGED <<pc, back>>
  BY <1>2
<1>10. Core' /\ Ini(k) /\ Dn(k)
  BY <1>2, <1>3, <1>5, <1>8, <1>9, CoreReturn DEF Types
<1>11. QED BY <1>1, <1>3, <1>4, <1>7, <1>10 DEF Ini, Dn, c

-----------------------------------------------------------------------------
(* The steps of the loop and of the kernel.                                *)

\* The loop goes to submit and comes back; run() begins to be left.
LEMMA LoopMovesInv ==
    ASSUME Types, Core, SubmitAndWait \/ SubmitFull \/ SubmitDone \/ ReapDone \/ Abort
    PROVE  Types' /\ Core'
<1>1. /\ UNCHANGED <<of, xf, refs, fd, fds, ids, avail, own, co, sq, held, cq, file, others>>
      /\ handles' \in {handles, <<>>} /\ (~Unwinding' => handles' = handles)
      /\ pc # "end" /\ pc' \in {"user", "submit", "reap", "abort"}
      /\ back' \in {"user", "reap", "abort"} /\ (back' # "user" => pc' = "submit")
      /\ (pc' = "abort" => sq = <<>>)
      /\ ~Unwinding' => ~Unwinding
  BY DEF SubmitAndWait, SubmitFull, SubmitDone, ReapDone, Abort, frameVars, poolVars,
     kernVars, coVars,
         Types, LoopType, Core, Control, Unwinding
<1>2. DataType'
  <2>1. CASE Abort
    <3>1. /\ arg' = [c \in Coros |-> NoArg] /\ returned' = 0 /\ writes' = 0
          /\ mem' = [b \in Buffers |-> 0] /\ content' = 0
      BY <2>1 DEF Abort
    <3>2. 0 \in 0..MaxWrites /\ NoArg \in Arg
      BY FileAssumption, ResetFacts
    <3>3. QED BY <3>1, <3>2 DEF DataType
  <2>2. CASE SubmitAndWait \/ SubmitFull \/ SubmitDone \/ ReapDone
    BY <2>2 DEF SubmitAndWait, SubmitFull, SubmitDone, ReapDone, coVars, kernVars,
       Types, DataType
  <2>3. QED BY <2>1, <2>2
<1>3. FrameType' /\ PoolType'
  BY <1>1 DEF Types, FrameType, PoolType
<1>4. LoopType'
  <2>1. handles' \in Seq(Coros)
    <3>1. handles \in Seq(Coros) /\ <<>> \in Seq(Coros)
      BY DEF Types, LoopType
    <3>2. handles' = handles \/ handles' = <<>>
      BY <1>1
    <3>3. CASE handles' = handles
      BY <3>1, <3>3
    <3>4. CASE handles' = <<>>
      BY <3>4
    <3>5. QED BY <3>2, <3>3, <3>4
  <2>2. UNCHANGED <<co, sq, held, cq>>
    BY <1>1
  <2>3. pc' \in {"user", "submit", "reap", "abort", "end"} /\ back' \in {"user", "reap", "abort"}
    BY <1>1
  <2>4. QED BY <2>1, <2>2, <2>3 DEF Types, LoopType
<1>5. SameFrames /\ \A j \in Kinds : N(j)' = N(j)
  BY <1>1 DEF SameFrames, Ini, Dn, H, N
<1>6. Control'
  BY <1>1 DEF Control
<1>7. UNCHANGED <<refs, co>> /\ (pc' = "end" <=> pc = "end")
      /\ (~Unwinding' => ~Unwinding /\ UNCHANGED handles)
  BY <1>1
<1>8. Core'
  BY <1>5, <1>6, <1>7, CoreThread DEF Types
<1>9. QED BY <1>2, <1>3, <1>4, <1>8 DEF Types

\* A CQE is taken from the queue.
LEMMA CqeFacts ==
    ASSUME Types, cq # <<>>, cq' = Tail(cq), UNCHANGED <<sq, held>>,
           NEW k, k = Head(cq).op
    PROVE  /\ cq' \in Seq(Cqe) /\ Head(cq) \in Cqe /\ k \in Kinds
           /\ 1 \in 1..Len(cq) /\ Head(cq) = cq[1]
           /\ \A i \in 1..Len(cq') : i + 1 \in 1..Len(cq) /\ cq'[i] = cq[i + 1]
           /\ N(k) = N(k)' + 1 /\ \A j \in Kinds \ {k} : N(j)' = N(j)
<1>1. cq \in Seq(Cqe)
  BY DEF Types, LoopType
<1>2. /\ cq' \in Seq(Cqe) /\ Head(cq) \in Cqe
      /\ 1 \in 1..Len(cq) /\ Head(cq) = cq[1]
      /\ \A i \in 1..Len(cq') : i + 1 \in 1..Len(cq) /\ cq'[i] = cq[i + 1]
  BY <1>1, TailEntries
<1>3. k \in Kinds
  BY <1>2 DEF Cqe
<1>4. \A j : OfOp(cq, j) = OfOp(cq', j) + Bit(k = j)
  BY <1>1, Laws DEF OpLaws
<1>5. \A j : OfOp(sq, j) \in Nat /\ OfOp(cq, j) \in Nat /\ OfOp(cq', j) \in Nat
  BY <1>2, NatFacts, Laws DEF OpLaws, Types
<1>6. ASSUME NEW j \in Kinds PROVE N(j) = N(j)' + Bit(k = j)
  <2>1. Bit(k = j) \in Nat /\ Bit(held[j] # None) \in Nat
    BY DEF Bit
  <2>2. sq' = sq /\ held'[j] = held[j]
    OBVIOUS
  <2>3. QED BY <1>4, <1>5, <2>1, <2>2 DEF N
<1>7. N(k) = N(k)' + 1
  BY <1>3, <1>6 DEF Bit
<1>8. ASSUME NEW j \in Kinds \ {k} PROVE N(j)' = N(j)
  <2>1. N(j) = N(j)' + 0
    BY <1>6 DEF Bit
  <2>2. N(j)' \in Nat
    BY <1>5 DEF N, Bit
  <2>3. QED BY <2>1, <2>2
<1>9. QED BY <1>2, <1>3, <1>7, <1>8

\* A collected handle is one of a coroutine.
LEMMA CollectType ==
    ASSUME Types, NEW h \in Coros \cup {None}
    PROVE  Collect(h) \in Seq(Coros)
BY DEF Collect, Types, LoopType

\* The open completes.
LEMMA ReapOpenInv ==
    ASSUME Types, Core, Parked, Reap, Head(cq).op = "open"
    PROVE  /\ Types' /\ Core' /\ of.initiated /\ ~of.done /\ UNCHANGED <<xf, file, others>>
           /\ of'.temp = NoFd /\ of'.initiated /\ of'.done
           /\ IF Head(cq).res = Ok THEN fd' = of.temp /\ fds' = fds
              ELSE fd' = fd /\ fds' = fds \cup {of.temp}
<1>1. /\ pc = "reap" /\ cq # <<>> /\ cq' = Tail(cq) /\ refs' = refs - 1
      /\ UNCHANGED <<ids, avail, own, mem, co, arg, returned, writes, pc, back, sq, held,
                     file, content, others, xf>>
      /\ of' = [of EXCEPT !.done = TRUE, !.temp = NoFd, !.h = None]
      /\ handles' = Collect(of.h)
      /\ IF Head(cq).res = Ok THEN fd' = of.temp /\ fds' = fds
         ELSE fd' = fd /\ fds' = fds \cup {of.temp}
  BY DEF Reap, ProcessOpen, ProcessTransfer, Transfers, poolVars, coVars
<1>2. /\ cq' \in Seq(Cqe) /\ N("open") = N("open")' + 1
      /\ \A j \in Kinds \ {"open"} : N(j)' = N(j)
  BY <1>1, CqeFacts
<1>3. of \in OFrame
  BY DEF Types, FrameType
<1>4. /\ of' \in OFrame /\ of'.h = None /\ of'.done /\ of'.initiated = of.initiated
      /\ of'.temp = NoFd
  BY <1>1, <1>3 DEF OFrame
<1>5. of.h \in Coros \cup {None} /\ of.temp \in Slots \cup {NoFd}
  BY <1>3 DEF OFrame
<1>6. handles' \in Seq(Coros)
  BY <1>1, <1>5, CollectType
<1>7. LoopType'
  BY <1>1, <1>2, <1>6 DEF Types, LoopType
<1>8. /\ Dn("open")' /\ (Ini("open")' <=> Ini("open")) /\ H("open")' = None /\ H("open") = of.h
      /\ \A j \in Kinds \ {"open"} :
            (Ini(j)' <=> Ini(j)) /\ (Dn(j)' <=> Dn(j)) /\ H(j)' = H(j)
  BY <1>1, <1>4 DEF Ini, Dn, H
<1>9. UNCHANGED <<pc, back, co>> /\ handles' = Collect(H("open")) /\ "open" \in Kinds
  BY <1>1, <1>8, KindsFacts
<1>10. Core' /\ Act("open")
  BY <1>1, <1>2, <1>7, <1>8, <1>9, CoreReap DEF Types
<1>11. of.initiated /\ ~of.done
  BY <1>10 DEF Act, Ini, Dn
<1>12. FrameType'
  <2>1. of.temp \in Slots
    BY <1>5, <1>11 DEF Parked
  <2>2. fd' \in Slots \cup {NoFd} /\ fds' \subseteq Slots
    BY <1>1, <2>1 DEF Types, FrameType
  <2>3. QED BY <1>1, <1>4, <2>2 DEF Types, FrameType
<1>13. PoolType' /\ DataType'
  BY <1>1 DEF Types, PoolType, DataType
<1>14. QED BY <1>1, <1>4, <1>7, <1>10, <1>11, <1>12, <1>13 DEF Types

\* A transfer completes.
LEMMA ReapTransferInv ==
    ASSUME Types, Core, Reap, NEW k \in Transfers, Head(cq).op = k
    PROVE  /\ Types' /\ Core' /\ xf[k].initiated /\ ~xf[k].done
           /\ UNCHANGED <<of, fd, fds, others, file>>
           /\ xf'[k].initiated /\ xf'[k].done /\ xf'[k].res = Head(cq).res
           /\ \A j \in Transfers \ {k} : xf'[j] = xf[j]
<1> DEFINE g == [xf[k] EXCEPT !.done = TRUE, !.res = Head(cq).res, !.h = None]
<1>1. /\ pc = "reap" /\ cq # <<>> /\ cq' = Tail(cq) /\ refs' = refs - 1
      /\ UNCHANGED <<ids, avail, own, mem, co, arg, returned, writes, pc, back, sq, held,
                     file, content, others, of, fd, fds>>
      /\ xf' = [xf EXCEPT ![k].done = TRUE, ![k].res = Head(cq).res, ![k].h = None]
      /\ handles' = Collect(xf[k].h)
  BY DEF Reap, ProcessOpen, ProcessTransfer, Transfers, poolVars, coVars
<1>2. /\ cq' \in Seq(Cqe) /\ Head(cq) \in Cqe /\ k \in Kinds /\ N(k) = N(k)' + 1
      /\ \A j \in Kinds \ {k} : N(j)' = N(j)
  BY <1>1, CqeFacts
<1>3. xf \in [Transfers -> XFrame] /\ xf[k] \in XFrame
  BY DEF Types, FrameType
<1>4. Head(cq).res \in {Ok, "error", "EFAULT"}
  BY <1>2 DEF Cqe
<1>5. /\ g \in XFrame /\ g.h = None /\ g.done /\ g.initiated = xf[k].initiated
      /\ g.res = Head(cq).res
  BY <1>3, <1>4 DEF XFrame
<1>6. xf' = [xf EXCEPT ![k] = g]
  BY <1>1, <1>3
<1> HIDE DEF g
<1>7. /\ xf' \in [Transfers -> XFrame] /\ xf'[k] = g
      /\ \A j \in Transfers \ {k} : xf'[j] = xf[j]
  BY <1>3, <1>5, <1>6
<1>8. xf[k].h \in Coros \cup {None} /\ k # "open"
  BY <1>3 DEF XFrame, Transfers
<1>9. handles' \in Seq(Coros)
  BY <1>1, <1>8, CollectType
<1>10. LoopType'
  BY <1>1, <1>2, <1>9 DEF Types, LoopType
<1>11. /\ Dn(k)' /\ (Ini(k)' <=> Ini(k)) /\ H(k)' = None /\ H(k) = xf[k].h
       /\ \A j \in Kinds \ {k} :
             (Ini(j)' <=> Ini(j)) /\ (Dn(j)' <=> Dn(j)) /\ H(j)' = H(j)
  <2>1. Dn(k)' /\ (Ini(k)' <=> Ini(k)) /\ H(k)' = None /\ H(k) = xf[k].h
    BY <1>5, <1>7, <1>8 DEF Ini, Dn, H
  <2>2. QED BY <1>1, <1>7, <2>1 DEF Ini, Dn, H, Kinds
<1>12. UNCHANGED <<pc, back, co>> /\ handles' = Collect(H(k))
  BY <1>1, <1>11
<1>13. Core' /\ Act(k)
  BY <1>1, <1>2, <1>10, <1>11, <1>12, CoreReap DEF Types
<1>14. xf[k].initiated /\ ~xf[k].done
  BY <1>8, <1>13 DEF Act, Ini, Dn
<1>15. FrameType' /\ PoolType' /\ DataType'
  BY <1>1, <1>7 DEF Types, FrameType, PoolType, DataType
<1>16. QED BY <1>1, <1>5, <1>7, <1>10, <1>13, <1>14, <1>15 DEF Types

\* A completion is posted for an operation the kernel holds.
LEMMA CompletedFacts ==
    ASSUME Types, NEW k \in Kinds, NEW res \in {Ok, "error", "EFAULT"},
           Completed(k, res), held[k] # None
    PROVE  /\ cq' \in Seq(Cqe) /\ held' \in [Kinds -> Sqe \cup {None}]
           /\ held'[k] = None /\ \A j \in Kinds \ {k} : held'[j] = held[j]
           /\ \A i \in 1..Len(cq') :
                 \/ i \in 1..Len(cq) /\ cq'[i] = cq[i]
                 \/ cq'[i].op = k /\ cq'[i].res = res
           /\ \A j \in Kinds : OfOp(cq', j) + Bit(held'[j] # None)
                                  = OfOp(cq, j) + Bit(held[j] # None)
<1> DEFINE e == [op |-> k, res |-> res]
<1>1. /\ cq \in Seq(Cqe) /\ held \in [Kinds -> Sqe \cup {None}]
      /\ cq' = Append(cq, e) /\ held' = [held EXCEPT ![k] = None]
      /\ e \in Cqe /\ e.op = k /\ e.res = res
  BY DEF Types, LoopType, Completed, Cqe
<1> HIDE DEF e
<1>2. /\ held' \in [Kinds -> Sqe \cup {None}] /\ held'[k] = None
      /\ \A j \in Kinds \ {k} : held'[j] = held[j]
  BY <1>1
<1>3. /\ cq' \in Seq(Cqe)
      /\ \A i \in 1..Len(cq') : (i \in 1..Len(cq) /\ cq'[i] = cq[i]) \/ cq'[i] = e
  BY <1>1, Entries
<1>4. \A j : OfOp(cq', j) = OfOp(cq, j) + Bit(k = j)
  BY <1>1, Laws DEF OpLaws
<1>5. \A j : OfOp(cq, j) \in Nat
  BY NatFacts DEF Types
<1>6. \A j \in Kinds : OfOp(cq', j) + Bit(held'[j] # None)
                          = OfOp(cq, j) + Bit(held[j] # None)
  BY <1>2, <1>4, <1>5 DEF Bit
<1>7. QED BY <1>1, <1>2, <1>3, <1>6

\* A step of the kernel: no operation is lost or made.
LEMMA CoreKernel ==
    ASSUME Types, Core, pc = "submit", UNCHANGED <<of, xf, refs, co, handles, pc, back>>,
           \A j \in Kinds : N(j)' = N(j)
    PROVE  Core'
<1>1. SameFrames
  BY DEF SameFrames, Ini, Dn, H
<1>2. Control' /\ (Unwinding' <=> Unwinding)
  BY DEF Core, Control, Unwinding
<1>3. QED BY <1>1, <1>2, CoreThread DEF Types

\* What every SQE the kernel takes leaves behind.
LEMMA TakeFacts ==
    ASSUME Types, KernelTakes
    PROVE  /\ UNCHANGED <<of, xf, refs, fd, fds, ids, avail, own, mem, co, arg, returned,
                          writes, handles, pc, back, file, content, others>>
           /\ pc = "submit" /\ sq' \in Seq(Sqe) /\ Head(sq) \in Sqe
           /\ \E j \in 1..Len(sq) : Head(sq) = sq[j]
           /\ \A i \in 1..Len(sq') : \E j \in 1..Len(sq) : sq'[i] = sq[j]
           /\ \A k : OfOp(sq, k) = OfOp(sq', k) + Bit(Head(sq).op = k)
           /\ \A k : OfOp(sq, k) \in Nat /\ OfOp(sq', k) \in Nat /\ OfOp(cq, k) \in Nat
<1>1. /\ UNCHANGED <<of, xf, refs, fd, fds, ids, avail, own, mem, co, arg, returned,
                     writes, handles, pc, back, file, content, others>>
      /\ pc = "submit" /\ sq # <<>> /\ sq' = Tail(sq) /\ sq \in Seq(Sqe)
  BY DEF KernelTakes, frameVars, poolVars, coVars, loopVars, Types, LoopType
<1>2. /\ sq' \in Seq(Sqe) /\ Head(sq) \in Sqe
      /\ 1 \in 1..Len(sq) /\ Head(sq) = sq[1]
      /\ \A i \in 1..Len(sq') : i + 1 \in 1..Len(sq) /\ sq'[i] = sq[i + 1]
  BY <1>1, TailEntries
<1>3. /\ \E j \in 1..Len(sq) : Head(sq) = sq[j]
      /\ \A i \in 1..Len(sq') : \E j \in 1..Len(sq) : sq'[i] = sq[j]
  BY <1>2
<1>4. \A k : OfOp(sq, k) = OfOp(sq', k) + Bit(Head(sq).op = k)
  BY <1>1, Laws DEF OpLaws
<1>5. \A k : OfOp(sq, k) \in Nat /\ OfOp(sq', k) \in Nat /\ OfOp(cq, k) \in Nat
  BY <1>2, NatFacts, Laws DEF OpLaws, Types
<1>6. QED BY <1>1, <1>2, <1>3, <1>4, <1>5

\* The kernel takes an operation, or a cancel that may end one.
LEMMA KernelTakesInv ==
    ASSUME Types, Core, KernelTakes
    PROVE  Types' /\ Core'
<1> DEFINE o == Head(sq)
<1>1. /\ UNCHANGED <<of, xf, refs, fd, fds, ids, avail, own, mem, co, arg, returned,
                     writes, handles, pc, back, file, content, others>>
      /\ pc = "submit" /\ sq' \in Seq(Sqe) /\ o \in Sqe
  BY TakeFacts
<1>2. /\ \A k : OfOp(sq, k) = OfOp(sq', k) + Bit(o.op = k)
      /\ \A k : OfOp(sq, k) \in Nat /\ OfOp(sq', k) \in Nat /\ OfOp(cq, k) \in Nat
  BY TakeFacts
<1>3. \/ o.op = "cancel" /\ TakeCancel(o.of)
      \/ o.op # "cancel" /\ held' = [held EXCEPT ![o.op] = o] /\ cq' = cq
  BY DEF KernelTakes
<1>4. /\ o.of \in Kinds /\ o.op \in Kinds \cup {"cancel"} /\ "cancel" \notin Kinds
      /\ cq \in Seq(Cqe) /\ held \in [Kinds -> Sqe \cup {None}]
  BY <1>1, KindsFacts DEF Sqe, Types, LoopType
<1> HIDE DEF o
<1>5. /\ cq' \in Seq(Cqe) /\ held' \in [Kinds -> Sqe \cup {None}]
      /\ \A j \in Kinds : N(j)' = N(j)
  <2>1. CASE o.op = "cancel"
    <3>1. \A j \in Kinds : OfOp(sq', j) = OfOp(sq, j)
      BY <1>2, <1>4, <2>1 DEF Bit
    <3>2. CASE UNCHANGED <<held, cq>>
      BY <1>4, <3>1, <3>2 DEF N
    <3>3. CASE held[o.of] # None /\ Completed(o.of, "error")
      <4>1. /\ cq' \in Seq(Cqe) /\ held' \in [Kinds -> Sqe \cup {None}]
            /\ \A j \in Kinds : OfOp(cq', j) + Bit(held'[j] # None)
                                  = OfOp(cq, j) + Bit(held[j] # None)
        BY <1>4, <3>3, CompletedFacts
      <4>2. ASSUME NEW j \in Kinds PROVE N(j)' = N(j)
        <5>1. OfOp(cq', j) \in Nat
          BY <4>1, Laws DEF OpLaws
        <5>2. Bit(held'[j] # None) \in Nat /\ Bit(held[j] # None) \in Nat
          BY DEF Bit
        <5>3. OfOp(cq', j) + Bit(held'[j] # None) = OfOp(cq, j) + Bit(held[j] # None)
          BY <4>1
        <5>4. QED BY <1>2, <3>1, <5>1, <5>2, <5>3 DEF N
      <4>3. QED BY <4>1, <4>2
    <3>4. QED BY <1>3, <2>1, <3>2, <3>3 DEF TakeCancel
  <2>2. CASE o.op # "cancel"
    <3>1. o.op \in Kinds /\ cq' = cq /\ held' = [held EXCEPT ![o.op] = o]
      BY <1>3, <1>4, <2>2
    <3>2. o # None
      BY <1>1, NoneAssumption
    <3>3. /\ held' \in [Kinds -> Sqe \cup {None}] /\ held'[o.op] # None
          /\ \A j \in Kinds \ {o.op} : held'[j] = held[j]
      BY <1>1, <1>4, <3>1, <3>2
    <3>4. held[o.op] = None
      <4>1. N(o.op) = Bit(Act(o.op))
        BY <1>1, <3>1 DEF Core, Flight
      <4>2. OfOp(sq, o.op) = OfOp(sq', o.op) + 1
        BY <1>2 DEF Bit
      <4>3. OfOp(sq, o.op) \in Nat /\ OfOp(sq', o.op) \in Nat /\ OfOp(cq, o.op) \in Nat
        BY <1>2
      <4>4. QED BY <4>1, <4>2, <4>3 DEF N, Bit
    <3>5. ASSUME NEW j \in Kinds PROVE N(j)' = N(j)
      <4>1. OfOp(sq, j) = OfOp(sq', j) + Bit(o.op = j)
            /\ OfOp(sq, j) \in Nat /\ OfOp(sq', j) \in Nat /\ OfOp(cq, j) \in Nat
        BY <1>2
      <4>2. Bit(o.op = j) + Bit(held[j] # None) = Bit(held'[j] # None)
        BY <3>3, <3>4 DEF Bit
      <4>3. Bit(o.op = j) \in Nat /\ Bit(held[j] # None) \in Nat /\ Bit(held'[j] # None) \in Nat
        BY DEF Bit
      <4>4. cq' = cq
        BY <3>1
      <4>5. QED BY <4>1, <4>2, <4>3, <4>4 DEF N
    <3>6. QED BY <1>4, <3>1, <3>3, <3>5
  <2>3. QED BY <2>1, <2>2
<1>6. Core'
  <2>1. UNCHANGED <<of, xf, refs, co, handles, pc, back>>
    BY <1>1
  <2>2. QED BY <1>1, <1>5, <2>1, CoreKernel
<1>7. Types'
  <2>1. FrameType' /\ PoolType' /\ DataType'
    BY <1>1 DEF Types, FrameType, PoolType, DataType
  <2>2. LoopType'
    BY <1>1, <1>5 DEF Types, LoopType
  <2>3. QED BY <2>1, <2>2 DEF Types
<1>8. QED BY <1>6, <1>7

\* What a completion does to the file and to memory.
LEMMA KernelCompletesFacts ==
    ASSUME Types, NEW k \in Kinds, KernelCompletes(k)
    PROVE  /\ UNCHANGED <<of, xf, refs, fd, fds, ids, avail, own, co, arg, returned,
                          writes, handles, pc, back, sq, others>>
           /\ pc = "submit" /\ held[k] # None
           /\ \E res \in {Ok, "error", "EFAULT"} :
                 /\ Completed(k, res)
                 /\ file' = IF k = "open" /\ res = Ok
                            THEN [file EXCEPT ![held["open"].slot] = "own"] ELSE file
<1>1. /\ UNCHANGED <<of, xf, refs, fd, fds, ids, avail, own, co, arg, returned,
                     writes, handles, pc, back, sq, others>>
      /\ pc = "submit" /\ held[k] # None
      /\ IF k = "open" THEN KernelOpens ELSE KernelTransfers(k)
  BY DEF KernelCompletes, frameVars, poolVars, coVars, loopVars
<1>2. CASE k = "open"
  BY <1>1, <1>2 DEF KernelOpens, Ok
<1>3. CASE k # "open"
  BY <1>1, <1>3 DEF KernelTransfers
<1>4. QED BY <1>1, <1>2, <1>3

\* An operation completes.
LEMMA KernelCompletesInv ==
    ASSUME Types, Core, Bufs, NEW k \in Kinds, KernelCompletes(k)
    PROVE  Types' /\ Core'
<1>1. /\ UNCHANGED <<of, xf, refs, fd, fds, ids, avail, own, co, arg, returned,
                     writes, handles, pc, back, sq, others>>
      /\ pc = "submit" /\ held[k] # None
  BY KernelCompletesFacts
<1>2. PICK res \in {Ok, "error", "EFAULT"} :
         /\ Completed(k, res)
         /\ file' = IF k = "open" /\ res = Ok
                    THEN [file EXCEPT ![held["open"].slot] = "own"] ELSE file
  BY KernelCompletesFacts
<1>3. /\ cq' \in Seq(Cqe) /\ held' \in [Kinds -> Sqe \cup {None}]
      /\ \A j \in Kinds : OfOp(cq', j) + Bit(held'[j] # None)
                             = OfOp(cq, j) + Bit(held[j] # None)
  BY <1>1, <1>2, CompletedFacts
<1>4. ASSUME NEW j \in Kinds PROVE N(j)' = N(j)
  <2>1. OfOp(cq', j) \in Nat /\ OfOp(cq, j) \in Nat /\ OfOp(sq, j) \in Nat
    BY <1>3, NatFacts, Laws DEF OpLaws, Types
  <2>2. Bit(held'[j] # None) \in Nat /\ Bit(held[j] # None) \in Nat
    BY DEF Bit
  <2>3. OfOp(cq', j) + Bit(held'[j] # None) = OfOp(cq, j) + Bit(held[j] # None)
        /\ sq' = sq
    BY <1>1, <1>3
  <2>4. QED BY <2>1, <2>2, <2>3 DEF N
<1>5. Core'
  <2>1. UNCHANGED <<of, xf, refs, co, handles, pc, back>>
    BY <1>1
  <2>2. QED BY <1>1, <1>4, <2>1, CoreKernel
<1>6. LoopType'
  BY <1>1, <1>3 DEF Types, LoopType
<1>7. file' \in [Slots -> {"empty", "own", "other"}]
  BY <1>2 DEF Types, FrameType
<1>8. FrameType' /\ PoolType'
  BY <1>1, <1>7 DEF Types, FrameType, PoolType
<1>9. DataType'
  <2>1. /\ mem \in [Buffers -> 0..MaxWrites] /\ content \in 0..MaxWrites
        /\ \/ UNCHANGED <<mem, content>>
           \/ k = "write" /\ content' = mem[held[k].buf] /\ mem' = mem
           \/ k \in {"read"} /\ mem' = [mem EXCEPT ![held[k].buf] = content] /\ content' = content
    BY DEF KernelCompletes, KernelOpens, KernelTransfers, Kinds, Transfers, Types, DataType
  <2>2. k \in {"write", "read"} => held[k].buf \in Buffers
    <3>1. held[k] \in Sqe
      BY <1>1 DEF Types, LoopType
    <3>2. held[k] \in Issued
      BY <3>1 DEF Issued
    <3>3. QED BY <1>1, <3>2 DEF Bufs, Transfers
  <2>3. mem' \in [Buffers -> 0..MaxWrites] /\ content' \in 0..MaxWrites
    BY <2>1, <2>2
  <2>4. QED BY <1>1, <2>3 DEF Types, DataType
<1>10. QED BY <1>5, <1>6, <1>8, <1>9 DEF Types

-----------------------------------------------------------------------------
(* run() is left by an exception.                                          *)

\* A coroutine goes with its awaitable, which cancels what is under way.
LEMMA DestroyCoroInv ==
    ASSUME Types, Core, NEW c \in Coros, DestroyCoro(c)
    PROVE  /\ Types' /\ Core' /\ Unwinding'
           /\ UNCHANGED <<of, xf, fd, fds, held, cq, file, others>>
           /\ sq' = sq \/ \E o \in Sqe : o.op = "cancel" /\ sq' = Append(sq, o)
<1> DEFINE k == co[c]
<1>1. /\ pc = "abort" /\ co[c] # "gone" /\ co' = [co EXCEPT ![c] = "gone"]
      /\ refs' = refs - 1 - One(co[c] \in Kinds) /\ ReturnBuf(c)
      /\ UNCHANGED <<of, xf, fd, fds, mem, arg, returned, writes, handles, held, cq,
                     file, content, others>>
      /\ \/ co[c] \in Kinds /\ sq' = Append(sq, Cancel(k)) /\ pc' = "submit" /\ back' = "abort"
         \/ UNCHANGED <<sq, pc, back>>
  BY DEF DestroyCoro
<1>2. /\ co' \in [Coros -> Kinds \cup {"idle", "gone"}]
      /\ co'[c] = "gone" /\ \A d \in Coros \ {c} : co'[d] = co[d]
      /\ co[c] \in Alive
  BY <1>1 DEF Types, LoopType, Alive
<1>3. refs' = refs - 1 - Bit(co[c] \in Kinds)
  BY <1>1 DEF One, Bit
<1>4. /\ sq' \in Seq(Sqe) /\ \A j \in Kinds : N(j)' = N(j)
      /\ sq' = sq \/ \E o \in Sqe : o.op = "cancel" /\ sq' = Append(sq, o)
  <2>1. UNCHANGED <<cq, held>>
    BY <1>1
  <2>2. CASE sq' = sq
    BY <2>1, <2>2 DEF N, Types, LoopType
  <2>3. CASE co[c] \in Kinds /\ sq' = Append(sq, Cancel(k))
    <3>1. PICK o \in Sqe : o.op = "cancel" /\ sq' = Append(sq, o)
      BY <2>3, SqeFacts
    <3>2. sq' \in Seq(Sqe) /\ \A j \in Kinds : N(j)' = N(j) + Bit(o.op = j)
      BY <2>1, <3>1, QueueFacts DEF Types
    <3>3. (\A j : N(j) \in Nat) /\ \A j \in Kinds : o.op # j
      BY <3>1, SqeFacts, NatFacts DEF Types
    <3>4. QED BY <3>1, <3>2, <3>3 DEF Bit
  <2>4. QED BY <1>1, <2>2, <2>3
<1>5. /\ pc' \in {"submit", "abort"} /\ back' \in {"user", "reap", "abort"}
      /\ Control' /\ Unwinding'
  <2>1. CASE UNCHANGED <<sq, pc, back>>
    BY <1>1, <2>1 DEF Core, Control, Types, LoopType, Unwinding
  <2>2. CASE pc' = "submit" /\ back' = "abort"
    BY <2>2 DEF Control, Unwinding
  <2>3. QED BY <1>1, <2>1, <2>2
<1>6. Types'
  <2>1. FrameType' /\ DataType'
    BY <1>1 DEF Types, FrameType, DataType
  <2>2. LoopType'
    BY <1>1, <1>2, <1>4, <1>5 DEF Types, LoopType
  <2>3. QED BY <1>1, <2>1, <2>2, ReturnBufType DEF Types
<1>7. SameFrames
  BY <1>1 DEF SameFrames, Ini, Dn, H
<1>8. UNCHANGED handles /\ pc # "end" /\ pc' # "end"
  BY <1>1, <1>5
<1>9. Core'
  BY <1>2, <1>3, <1>4, <1>5, <1>7, <1>8, CoreLeave DEF Types
<1>10. QED BY <1>1, <1>4, <1>5, <1>6, <1>9

\* Every completion is of one of the three kinds.
LEMMA CqesCounted ==
    ASSUME NEW s \in Seq(Cqe)
    PROVE  Len(s) = OfOp(s, "open") + OfOp(s, "write") + OfOp(s, "read")
<1> DEFINE A == {i \in 1..Len(s) : s[i].op = "open"}
           B == {i \in 1..Len(s) : s[i].op = "write"}
           C == {i \in 1..Len(s) : s[i].op = "read"}
<1>1. IsFiniteSet(1..Len(s)) /\ Cardinality(1..Len(s)) = Len(s) /\ Len(s) \in Nat
  <2>1. Len(s) \in Nat /\ 1 \in Int /\ Len(s) \in Int
    OBVIOUS
  <2>2. IsFiniteSet(1..Len(s)) /\ Cardinality(1..Len(s)) = IF 1 > Len(s) THEN 0 ELSE Len(s) - 1 + 1
    BY <2>1, FS_Interval
  <2>3. QED BY <2>1, <2>2
<1>2. \A i \in 1..Len(s) : s[i].op \in {"open", "write", "read"}
  <2>1. \A e \in Cqe : e.op \in {"open", "write", "read"}
    BY KindsFacts DEF Cqe
  <2>2. QED BY <2>1
<1>3. 1..Len(s) = (A \cup B) \cup C /\ A \cap B = {} /\ (A \cup B) \cap C = {}
  BY <1>2
<1>4. A \subseteq 1..Len(s) /\ B \subseteq 1..Len(s) /\ C \subseteq 1..Len(s)
  OBVIOUS
<1>5. /\ OfOp(s, "open") = Cardinality(A) /\ OfOp(s, "write") = Cardinality(B)
      /\ OfOp(s, "read") = Cardinality(C)
  BY DEF OfOp
<1> HIDE DEF A, B, C
<1>6. IsFiniteSet(A) /\ IsFiniteSet(B) /\ IsFiniteSet(C)
  BY <1>1, <1>4, FS_Subset
<1>7. /\ Cardinality(A) \in Nat /\ Cardinality(B) \in Nat /\ Cardinality(C) \in Nat
      /\ Cardinality({}) = 0
  BY <1>6, FS_CardinalityType, FS_EmptySet
<1>8. IsFiniteSet(A \cup B) /\ Cardinality(A \cup B) = Cardinality(A) + Cardinality(B)
  BY <1>3, <1>6, DisjointSum
<1>9. Cardinality((A \cup B) \cup C) = Cardinality(A \cup B) + Cardinality(C)
  BY <1>3, <1>6, <1>8, DisjointSum
<1>10. QED BY <1>1, <1>3, <1>5, <1>7, <1>8, <1>9

\* The references that go with the completions.
LEMMA ExactDrops ==
    ASSUME NEW a \in Nat, NEW b \in Nat, NEW x \in Nat, NEW y \in Nat, NEW z \in Nat,
           NEW p \in Nat, NEW q \in Nat, NEW r \in Nat
    PROVE  (a + b + (x + p) + (y + q) + (z + r)) - (p + q + r) = a + b + x + y + z
OBVIOUS

\* ~guard drops the completions, and their references with them.
LEMMA FlushInv ==
    ASSUME Types, Core, Flush
    PROVE  /\ Types' /\ Core' /\ Unwinding' /\ cq' = <<>>
           /\ UNCHANGED <<of, xf, fd, fds, sq, held, file, others>>
<1>1. /\ pc = "abort" /\ (\A c \in Coros : co[c] = "gone") /\ pc' = "end"
      /\ refs' = refs - Len(cq) /\ cq' = <<>>
      /\ UNCHANGED <<of, xf, fd, fds, ids, avail, own, mem, co, arg, returned, writes,
                     handles, back, sq, held, file, content, others>>
  BY DEF Flush, poolVars, coVars
<1>2. Types'
  BY <1>1 DEF Types, FrameType, PoolType, DataType, LoopType
<1>3. Unwinding' /\ Control'
  BY <1>1 DEF Core, Control, Unwinding
<1>4. Frames'
  <2>1. \A k : (Ini(k)' <=> Ini(k)) /\ (Dn(k)' <=> Dn(k)) /\ H(k)' = H(k) /\ (Act(k)' <=> Act(k))
    BY <1>1 DEF Ini, Dn, H, Act
  <2>2. QED BY <1>1, <2>1 DEF Core, Frames
<1>5. Flight' /\ Waiters'
  BY <1>1, <1>3 DEF Flight, Waiters
<1>6. Exact'
  <2>1. \A k : N(k) = N(k)' + OfOp(cq, k) /\ N(k)' \in Nat
    <3>1. ASSUME NEW k PROVE N(k) = N(k)' + OfOp(cq, k) /\ N(k)' \in Nat
      <4>1. OfOp(<<>>, k) = 0 /\ OfOp(sq, k) \in Nat /\ OfOp(cq, k) \in Nat
        BY NatFacts, Laws DEF Types, OpLaws
      <4>2. Bit(held[k] # None) \in Nat
        BY DEF Bit
      <4>3. QED BY <1>1, <4>1, <4>2 DEF N
    <3>2. QED BY <3>1
  <2>2. Len(cq) = OfOp(cq, "open") + OfOp(cq, "write") + OfOp(cq, "read")
    BY CqesCounted DEF Types, LoopType
  <2>3. /\ OfOp(cq, "open") \in Nat /\ OfOp(cq, "write") \in Nat /\ OfOp(cq, "read") \in Nat
        /\ Pop(co, Coros, Alive) \in Nat /\ Pop(co, Coros, Kinds) \in Nat
    BY NatFacts DEF Types
  <2>4. refs = Pop(co, Coros, Alive) + Pop(co, Coros, Kinds)
               + N("open") + N("write") + N("read")
    BY DEF Core, Exact
  <2>5. /\ N("open") = N("open")' + OfOp(cq, "open") /\ N("open")' \in Nat
        /\ N("write") = N("write")' + OfOp(cq, "write") /\ N("write")' \in Nat
        /\ N("read") = N("read")' + OfOp(cq, "read") /\ N("read")' \in Nat
    BY <2>1
  <2>6. refs' = Pop(co, Coros, Alive) + Pop(co, Coros, Kinds)
                + N("open")' + N("write")' + N("read")'
    <3>1. refs' = refs - Len(cq)
      BY <1>1
    <3>2. refs' = (Pop(co, Coros, Alive) + Pop(co, Coros, Kinds)
                   + (N("open")' + OfOp(cq, "open")) + (N("write")' + OfOp(cq, "write"))
                   + (N("read")' + OfOp(cq, "read")))
                  - (OfOp(cq, "open") + OfOp(cq, "write") + OfOp(cq, "read"))
      BY <2>2, <2>4, <2>5, <3>1
    <3>3. QED BY <2>3, <2>5, <3>2, ExactDrops
  <2>7. QED BY <1>1, <2>6 DEF Exact
<1>7. QED BY <1>1, <1>2, <1>3, <1>4, <1>5, <1>6 DEF Core

-----------------------------------------------------------------------------
(* What is queued and taken.                                               *)

\* An SQE more.
LEMMA IssuedAppend ==
    ASSUME LoopType, NEW o \in Sqe, sq' = Append(sq, o), UNCHANGED held
    PROVE  Issued' = Issued \cup {o}
<1>1. /\ \A i \in 1..Len(sq') : (i \in 1..Len(sq) /\ sq'[i] = sq[i]) \/ sq'[i] = o
      /\ \A i \in 1..Len(sq) : i \in 1..Len(sq') /\ sq'[i] = sq[i]
      /\ Len(sq) + 1 \in 1..Len(sq') /\ sq'[Len(sq) + 1] = o
  BY Entries DEF LoopType
<1>2. \A p \in Sqe : (\E i \in 1..Len(sq') : sq'[i] = p)
                     <=> (\E i \in 1..Len(sq) : sq[i] = p) \/ p = o
  BY <1>1
<1>3. QED BY <1>2 DEF Issued

\* The kernel completes one that it holds.
LEMMA IssuedCompleted ==
    ASSUME Types, Bufs, NEW k \in Kinds, NEW res \in {Ok, "error", "EFAULT"},
           held[k] # None, Completed(k, res), \A i \in 1..Len(sq') : \E j \in 1..Len(sq) : sq'[i] = sq[j]
    PROVE  Bufs' /\ Issued' \subseteq Issued /\ held[k] \in Issued /\ held[k].op = k
<1>1. /\ held'[k] = None /\ \A j \in Kinds \ {k} : held'[j] = held[j]
      /\ held \in [Kinds -> Sqe \cup {None}]
  BY CompletedFacts DEF Types, LoopType
<1>2. Issued' \subseteq Issued
  <2>1. SUFFICES ASSUME NEW o \in Sqe,
                        \/ \E i \in 1..Len(sq') : sq'[i] = o
                        \/ \E j \in Kinds : held'[j] = o
                 PROVE  o \in Issued
    BY DEF Issued
  <2>2. CASE \E i \in 1..Len(sq') : sq'[i] = o
    BY <2>2 DEF Issued
  <2>3. CASE \E j \in Kinds : held'[j] = o
    <3>1. PICK j \in Kinds : held'[j] = o
      BY <2>3
    <3>2. o # None
      BY NoneAssumption
    <3>3. j # k /\ held[j] = o
      BY <1>1, <3>1, <3>2
    <3>4. QED BY <3>3 DEF Issued
  <2>4. QED BY <2>1, <2>2, <2>3
<1>3. \A j \in Kinds : held'[j] # None => held'[j].op = j
  BY <1>1 DEF Bufs
<1>4. held[k] \in Sqe
  BY <1>1
<1>5. held[k] \in Issued /\ held[k].op = k
  BY <1>4 DEF Issued, Bufs
<1>6. QED BY <1>2, <1>3, <1>5 DEF Bufs

\* An SQE that is queued is a cancel or has what it needs.
LEMMA BufsAppend ==
    ASSUME LoopType, Bufs, NEW o \in Sqe, sq' = Append(sq, o), UNCHANGED held,
           o.op \in Transfers => o.buf \in Buffers
    PROVE  Bufs'
<1>1. Issued' = Issued \cup {o}
  BY IssuedAppend
<1>2. \A p \in Issued' : p.op \in Transfers => p.buf \in Buffers
  BY <1>1 DEF Bufs
<1>3. \A k \in Kinds : held'[k] # None => held'[k].op = k
  BY DEF Bufs
<1>4. QED BY <1>2, <1>3 DEF Bufs

\* The kernel takes what is queued.
LEMMA BufsTake ==
    ASSUME Types, Bufs, KernelTakes
    PROVE  Bufs' /\ Issued' \subseteq Issued
<1> DEFINE o == Head(sq)
<1>1. /\ o \in Sqe /\ \E j \in 1..Len(sq) : o = sq[j]
      /\ \A i \in 1..Len(sq') : \E j \in 1..Len(sq) : sq'[i] = sq[j]
  BY TakeFacts
<1>2. \/ o.op = "cancel" /\ TakeCancel(o.of)
      \/ o.op # "cancel" /\ held' = [held EXCEPT ![o.op] = o] /\ cq' = cq
  BY DEF KernelTakes
<1> HIDE DEF o
<1>3. o \in Issued /\ o.of \in Kinds /\ o.op \in Kinds \cup {"cancel"} /\ o # None
  BY <1>1, NoneAssumption DEF Issued, Sqe
<1>4. CASE o.op = "cancel" /\ held[o.of] # None /\ Completed(o.of, "error")
  BY <1>1, <1>3, <1>4, IssuedCompleted
<1>5. CASE UNCHANGED held
  <2>1. Issued' \subseteq Issued
    BY <1>1, <1>5 DEF Issued
  <2>2. QED BY <1>5, <2>1 DEF Bufs
<1>6. CASE o.op # "cancel" /\ held' = [held EXCEPT ![o.op] = o]
  <2>1. o.op \in Kinds /\ held \in [Kinds -> Sqe \cup {None}]
    BY <1>3, <1>6 DEF Types, LoopType
  <2>2. held'[o.op] = o /\ \A k \in Kinds \ {o.op} : held'[k] = held[k]
    BY <1>6, <2>1
  <2>3. Issued' \subseteq Issued
    <3>1. SUFFICES ASSUME NEW p \in Sqe,
                          \/ \E i \in 1..Len(sq') : sq'[i] = p
                          \/ \E j \in Kinds : held'[j] = p
                   PROVE  p \in Issued
      BY DEF Issued
    <3>2. CASE \E i \in 1..Len(sq') : sq'[i] = p
      BY <1>1, <3>2 DEF Issued
    <3>3. CASE \E j \in Kinds : held'[j] = p
      <4>1. PICK j \in Kinds : held'[j] = p
        BY <3>3
      <4>2. p = o \/ held[j] = p
        BY <2>2, <4>1
      <4>3. QED BY <1>3, <4>2 DEF Issued
    <3>4. QED BY <3>1, <3>2, <3>3
  <2>4. \A k \in Kinds : held'[k] # None => held'[k].op = k
    BY <2>2 DEF Bufs
  <2>5. QED BY <2>3, <2>4 DEF Bufs
<1>7. QED BY <1>2, <1>4, <1>5, <1>6 DEF TakeCancel

\* Nothing is in flight where the count is zero, and where it is one there is
\* either an SQE or a completion.
LEMMA NoneIssued ==
    ASSUME Types, Bufs, NEW k \in Kinds
    PROVE  /\ N(k) = 0 => /\ \A o \in Issued : o.op # k
                          /\ \A i \in 1..Len(cq) : cq[i].op # k
           /\ N(k) = 1 /\ held[k] # None => /\ \A i \in 1..Len(sq) : sq[i].op # k
                                            /\ \A i \in 1..Len(cq) : cq[i].op # k
           /\ N(k) = 1 /\ OfOp(cq, k) # 0 => /\ OfOp(cq, k) = 1
                                             /\ \A o \in Issued : o.op # k
<1>1. /\ OfOp(sq, k) \in Nat /\ OfOp(cq, k) \in Nat
      /\ OfOp(sq, k) = 0 => \A i \in 1..Len(sq) : sq[i].op # k
      /\ OfOp(cq, k) = 0 => \A i \in 1..Len(cq) : cq[i].op # k
  BY NatFacts, Laws DEF OpLaws, Types, LoopType
<1>2. OfOp(sq, k) = 0 /\ held[k] = None => \A o \in Issued : o.op # k
  <2>1. SUFFICES ASSUME OfOp(sq, k) = 0, held[k] = None, NEW o \in Issued, o.op = k
                 PROVE  FALSE
    OBVIOUS
  <2>2. PICK j \in Kinds : held[j] = o
    BY <1>1, <2>1 DEF Issued
  <2>3. o # None
    BY NoneAssumption DEF Issued
  <2>4. j = k
    BY <2>1, <2>2, <2>3 DEF Bufs
  <2>5. QED BY <2>1, <2>2, <2>3, <2>4
<1>3. N(k) = OfOp(sq, k) + OfOp(cq, k) + Bit(held[k] # None)
  BY DEF N
<1>4. N(k) = 0 => OfOp(sq, k) = 0 /\ OfOp(cq, k) = 0 /\ held[k] = None
  BY <1>1, <1>3 DEF Bit
<1>5. N(k) = 1 /\ held[k] # None => OfOp(sq, k) = 0 /\ OfOp(cq, k) = 0
  BY <1>1, <1>3 DEF Bit
<1>6. N(k) = 1 /\ OfOp(cq, k) # 0 => OfOp(sq, k) = 0 /\ OfOp(cq, k) = 1 /\ held[k] = None
  BY <1>1, <1>3 DEF Bit
<1>7. QED BY <1>1, <1>2, <1>4, <1>5, <1>6

-----------------------------------------------------------------------------
(* The steps, as far as the slots are concerned.                           *)

\* The file's slots stay as they are, and no open is started or completed.
LEMMA SlottedSame ==
    ASSUME Slotted, UNCHANGED <<of, fd, fds, others, file>>,
           \A o \in Issued' : o.op = "open" => o \in Issued,
           \A i \in 1..Len(cq') : cq'[i].op = "open" => \E j \in 1..Len(cq) : cq[j] = cq'[i]
    PROVE  Slotted'
<1>1. SlotsAccounted' /\ Parked'
  BY DEF Slotted, SlotsAccounted, Parked, Mine
<1>2. Opens'
  BY DEF Slotted, Opens
<1>3. Opened'
  BY DEF Slotted, Opened
<1>4. QED BY <1>1, <1>2, <1>3 DEF Slotted

\* Nothing at all happens to them or to the queues.
LEMMA SlottedStill ==
    ASSUME Bufs, Slotted, UNCHANGED <<of, fd, fds, others, file, sq, held, cq>>
    PROVE  Bufs' /\ Slotted'
<1>1. Issued' = Issued
  BY DEF Issued
<1>2. \A k \in Kinds : held'[k] # None => held'[k].op = k
  BY DEF Bufs
<1>3. Bufs'
  BY <1>1, <1>2 DEF Bufs
<1>4. QED BY <1>1, <1>3, SlottedSame

\* A transfer, or a cancel, is queued.
LEMMA SlottedQueue ==
    ASSUME LoopType, Bufs, Slotted, UNCHANGED <<of, fd, fds, others, file, held, cq>>,
           NEW o \in Sqe, sq' = Append(sq, o), o.op # "open",
           o.op \in Transfers => o.buf \in Buffers
    PROVE  Bufs' /\ Slotted'
<1>1. Issued' = Issued \cup {o}
  BY IssuedAppend
<1>2. \A p \in Issued' : p.op = "open" => p \in Issued
  BY <1>1
<1>3. Bufs'
  BY BufsAppend
<1>4. \A i \in 1..Len(cq') : cq'[i].op = "open" => \E j \in 1..Len(cq) : cq[j] = cq'[i]
  OBVIOUS
<1>5. QED BY <1>2, <1>3, <1>4, SlottedSame

\* An open takes a free slot.
LEMMA SlottedOpen ==
    ASSUME Types, Core, Bufs, Slotted, Uses = {}, NEW c \in Coros, AsyncOpen(c)
    PROVE  Bufs' /\ Slotted'
<1>1. PICK s \in fds :
          /\ fds' = fds \ {s}
          /\ of' = [of EXCEPT !.h = c, !.temp = s, !.initiated = TRUE]
          /\ sq' = Append(sq, Op("open", s, None, NoIndex))
  BY DEF AsyncOpen
<1>2. /\ ~of.initiated /\ fd = NoFd
      /\ UNCHANGED <<fd, held, cq, file, others>>
  BY DEF AsyncOpen
<1>3. s \in Slots /\ of \in OFrame /\ s # NoFd
  BY FileAssumption DEF Types, FrameType
<1>4. of'.temp = s /\ of'.initiated /\ of'.done = of.done
  BY <1>1, <1>3 DEF OFrame
<1>5. ~of.done
  BY <1>2 DEF Core, Frames, Dn, Ini, Kinds
<1>6. of.temp = NoFd
  BY <1>2 DEF Slotted, Parked
<1> DEFINE o == Op("open", s, None, NoIndex)
<1>7. o \in Sqe /\ o.op = "open" /\ o.slot = s /\ sq' = Append(sq, o)
  BY <1>1, <1>3, SqeFacts, KindsFacts
<1> HIDE DEF o
<1>8. Issued' = Issued \cup {o}
  BY <1>2, <1>7, IssuedAppend DEF Types
<1>9. o.op \notin Transfers
  BY <1>7 DEF Transfers
<1>10. Bufs'
  BY <1>2, <1>7, <1>9, BufsAppend DEF Types
<1>11. Parked'
  BY <1>2, <1>3, <1>4, <1>5 DEF Parked
<1>12. SlotsAccounted'
  <2>1. Mine = {} /\ Mine' = {s}
    BY <1>2, <1>3, <1>4, <1>6 DEF Mine
  <2>2. (fds \cup others) = Slots /\ fds \cap others = {} /\ \A t \in fds : file[t] = "empty"
    BY <2>1 DEF Slotted, SlotsAccounted
  <2>3. fds' \cup others' \cup Mine' = Slots
    BY <1>1, <1>2, <1>3, <2>1, <2>2
  <2>4. fds' \cap others' = {} /\ Mine' \cap (fds' \cup others') = {}
    BY <1>1, <1>2, <2>1, <2>2
  <2>5. QED BY <1>1, <1>2, <2>2, <2>3, <2>4 DEF SlotsAccounted
<1>13. file'[s] = "empty"
  BY <1>2 DEF Slotted, SlotsAccounted
<1>14. Opens'
  <2>1. \A p \in Issued : p.op # "open"
    BY <1>6 DEF Slotted, Opens
  <2>2. QED BY <1>3, <1>4, <1>7, <1>8, <1>13, <2>1 DEF Opens
<1>15. Opened'
  <2>1. \A i \in 1..Len(cq) : cq[i].op # "open"
    BY <1>6 DEF Slotted, Opened
  <2>2. QED BY <1>2, <2>1 DEF Opened
<1>16. QED BY <1>10, <1>11, <1>12, <1>14, <1>15 DEF Slotted

\* The open returned: nothing was parked any more.
LEMMA SlottedReturn ==
    ASSUME Types, Core, Bufs, Slotted, Resume
    PROVE  Bufs' /\ Slotted'
<1>1. UNCHANGED <<fd, fds, sq, held, cq, file, others>> /\ co[Head(handles)] \in Kinds
  BY ResumeFacts
<1>2. CASE co[Head(handles)] # "open"
  <2>1. of' = of
    BY <1>1, <1>2 DEF Resume
  <2>2. QED BY <1>1, <2>1, SlottedStill
<1>3. CASE co[Head(handles)] = "open"
  <2>1. of' = ResetOpen /\ of.done
    BY <1>3, ResumeOpenInv
  <2>2. of'.temp = NoFd /\ ~of'.initiated /\ of.temp = NoFd
    BY <2>1, ResetFacts DEF Slotted, Parked
  <2>3. Issued' = Issued
    BY <1>1 DEF Issued
  <2>4. Bufs'
    BY <1>1, <2>3 DEF Bufs
  <2>5. Opens' /\ Opened'
    BY <1>1, <2>2, <2>3 DEF Slotted, Opens, Opened
  <2>6. Parked'
    BY <1>1, <2>2 DEF Parked
  <2>7. SlotsAccounted'
    BY <1>1, <2>2 DEF Slotted, SlotsAccounted, Mine
  <2>8. QED BY <2>4, <2>5, <2>6, <2>7 DEF Slotted
<1>4. QED BY <1>2, <1>3

\* The slot becomes fd_, or goes back empty.
LEMMA SlottedReap ==
    ASSUME Types, Core, Bufs, Slotted, Reap
    PROVE  Bufs' /\ Slotted'
<1> DEFINE e == Head(cq)
           t == of.temp
<1>1. /\ cq # <<>> /\ cq' = Tail(cq) /\ UNCHANGED <<sq, held, file, others>>
      /\ pc = "reap" /\ cq \in Seq(Cqe)
  BY DEF Reap, Types, LoopType
<1>2. /\ e \in Cqe /\ 1 \in 1..Len(cq) /\ e = cq[1] /\ cq' \in Seq(Cqe)
      /\ \A i \in 1..Len(cq') : i + 1 \in 1..Len(cq) /\ cq'[i] = cq[i + 1]
  BY <1>1, TailEntries
<1>3. \A j : /\ OfOp(cq, j) = OfOp(cq', j) + Bit(e.op = j)
             /\ OfOp(cq', j) \in Nat
             /\ OfOp(cq', j) = 0 => \A i \in 1..Len(cq') : cq'[i].op # j
  <2>1. \A j : OfOp(cq, j) = OfOp(cq', j) + Bit(e.op = j)
    BY <1>1, Laws DEF OpLaws
  <2>2. \A j : OfOp(cq', j) \in Nat
    BY <1>2, Laws DEF OpLaws
  <2>3. \A j : OfOp(cq', j) = 0 => \A i \in 1..Len(cq') : cq'[i].op # j
    BY <1>2, Laws DEF OpLaws
  <2>4. QED BY <2>1, <2>2, <2>3
<1>4. Issued' = Issued
  BY <1>1 DEF Issued
<1>5. Bufs'
  BY <1>1, <1>4 DEF Bufs
<1>6. CASE e.op # "open"
  <2>1. e.op \in Transfers
    BY <1>2, <1>6 DEF Cqe, Kinds
  <2>2. UNCHANGED <<of, fd, fds>>
    BY <2>1, ReapTransferInv
  <2>3. \A i \in 1..Len(cq') : cq'[i].op = "open" => \E j \in 1..Len(cq) : cq[j] = cq'[i]
    BY <1>2
  <2>4. QED BY <1>1, <1>4, <1>5, <2>2, <2>3, SlottedSame
<1>7. CASE e.op = "open"
  <2>1. /\ of.initiated /\ ~of.done
        /\ of'.temp = NoFd /\ of'.initiated /\ of'.done
        /\ IF e.res = Ok THEN fd' = t /\ fds' = fds
           ELSE fd' = fd /\ fds' = fds \cup {t}
    BY <1>7, ReapOpenInv DEF Slotted
  <2>2. /\ t # NoFd /\ file[t] = IF e.res = Ok THEN "own" ELSE "empty"
        /\ fd = NoFd
    BY <1>2, <1>7 DEF Slotted, Opened, Parked
  <2>3. Parked'
    BY <2>1 DEF Parked
  <2>4. N("open") = 1 /\ "open" \in Kinds
    BY <1>1, <2>1, KindsFacts DEF Core, Flight, Act, Ini, Dn, Bit
  <2>5. OfOp(cq, "open") # 0
    BY <1>3, <1>7 DEF Bit
  <2>6. OfOp(cq, "open") = 1 /\ \A o \in Issued : o.op # "open"
    BY <2>4, <2>5, NoneIssued
  <2>7. \A i \in 1..Len(cq') : cq'[i].op # "open"
    <3>1. OfOp(cq', "open") = 0
      BY <1>3, <1>7, <2>6 DEF Bit
    <3>2. QED BY <1>3, <3>1
  <2>8. Opens' /\ Opened'
    BY <1>4, <2>6, <2>7 DEF Opens, Opened
  <2>9. Mine = {t} /\ t \in Slots
    BY <2>2 DEF Mine, Types, FrameType, OFrame
  <2>10. SlotsAccounted'
    <3>1. CASE e.res = Ok
      <4>1. Mine' = {t}
        BY <2>1, <2>2, <3>1 DEF Mine
      <4>2. QED BY <1>1, <2>1, <2>2, <2>9, <3>1, <4>1 DEF Slotted, SlotsAccounted
    <3>2. CASE e.res # Ok
      <4>1. Mine' = {}
        BY <2>1, <2>2, <3>2 DEF Mine
      <4>2. fds' = fds \cup {t} /\ fd' = NoFd
        BY <2>1, <2>2, <3>2
      <4>3. \A s \in fds' : file'[s] = "empty"
        BY <1>1, <2>2, <3>2, <4>2 DEF Slotted, SlotsAccounted
      <4>4. fds' \cup others' \cup Mine' = Slots /\ fds' \cap others' = {}
        BY <1>1, <2>9, <4>1, <4>2 DEF Slotted, SlotsAccounted
      <4>5. QED BY <4>1, <4>2, <4>3, <4>4 DEF SlotsAccounted
    <3>3. QED BY <3>1, <3>2
  <2>11. QED BY <1>5, <2>3, <2>8, <2>10 DEF Slotted
<1>8. QED BY <1>6, <1>7

\* Somebody else takes or returns a slot.
LEMMA SlottedOther ==
    ASSUME Types, Bufs, Slotted, NEW s \in Slots, Other(s)
    PROVE  Bufs' /\ Slotted'
<1>1. /\ UNCHANGED <<of, fd, sq, held, cq>>
      /\ \/ /\ s \in fds /\ fds' = fds \ {s} /\ others' = others \cup {s}
            /\ file' = [file EXCEPT ![s] = "other"]
         \/ /\ s \in others /\ fds' = fds \cup {s} /\ others' = others \ {s}
            /\ file' = [file EXCEPT ![s] = "empty"]
  BY DEF Other
<1>2. Issued' = Issued
  BY <1>1 DEF Issued
<1>3. Bufs'
  BY <1>1, <1>2 DEF Bufs
<1>4. Mine' = Mine /\ s \notin Mine
  BY <1>1 DEF Mine, Slotted, SlotsAccounted
<1>5. /\ \A t \in Slots \ {s} : file'[t] = file[t]
      /\ file'[s] = IF s \in fds' THEN "empty" ELSE "other"
  BY <1>1 DEF Types, FrameType
<1>6. of.temp \in Slots \cup {NoFd} /\ fd \in Slots \cup {NoFd}
  BY DEF Types, FrameType, OFrame
<1>7. SlotsAccounted'
  <2>1. fds' \cup others' \cup Mine' = Slots
    BY <1>1, <1>4 DEF Slotted, SlotsAccounted
  <2>2. fds' \cap others' = {} /\ Mine' \cap (fds' \cup others') = {}
    BY <1>1, <1>4 DEF Slotted, SlotsAccounted
  <2>3. \A t \in fds' : file'[t] = "empty"
    BY <1>1, <1>5 DEF Slotted, SlotsAccounted, Types, FrameType
  <2>4. fd' # NoFd => file'[fd'] = "own"
    BY <1>1, <1>4, <1>5, <1>6 DEF Slotted, SlotsAccounted, Mine
  <2>5. of'.temp # fd' \/ fd' = NoFd
    BY <1>1 DEF Slotted, SlotsAccounted
  <2>6. QED BY <2>1, <2>2, <2>3, <2>4, <2>5 DEF SlotsAccounted
<1>8. Parked'
  BY <1>1 DEF Slotted, Parked
<1>9. of.temp # NoFd => file'[of.temp] = file[of.temp]
  BY <1>4, <1>5, <1>6 DEF Mine
<1>10. Opens' /\ Opened'
  <2>1. Opens'
    BY <1>1, <1>2, <1>9 DEF Slotted, Opens
  <2>2. Opened'
    BY <1>1, <1>9 DEF Slotted, Opened
  <2>3. QED BY <2>1, <2>2
<1>11. QED BY <1>3, <1>7, <1>8, <1>10 DEF Slotted

\* ~file_impl closes the file and returns its slot.
LEMMA SlottedDestruct ==
    ASSUME Types, Bufs, Slotted, Destruct
    PROVE  Bufs' /\ Slotted'
<1>1. /\ fd # NoFd /\ file' = [file EXCEPT ![fd] = "empty"] /\ fds' = fds \cup {fd}
      /\ fd' = NoFd /\ UNCHANGED <<of, sq, held, cq, others>>
  BY DEF Destruct
<1>2. Issued' = Issued
  BY <1>1 DEF Issued
<1>3. Bufs'
  BY <1>1, <1>2 DEF Bufs
<1>4. of.temp = NoFd /\ fd \in Slots
  BY <1>1 DEF Slotted, Parked, Types, FrameType
<1>5. Mine = {fd} /\ Mine' = {}
  BY <1>1, <1>4 DEF Mine
<1>6. SlotsAccounted'
  <2>1. fds' \cup others' \cup Mine' = Slots /\ fds' \cap others' = {}
    BY <1>1, <1>5 DEF Slotted, SlotsAccounted
  <2>2. \A s \in fds' : file'[s] = "empty"
    BY <1>1, <1>4 DEF Slotted, SlotsAccounted, Types, FrameType
  <2>3. QED BY <1>1, <1>5, <2>1, <2>2 DEF SlotsAccounted
<1>7. Parked'
  BY <1>1, <1>4 DEF Slotted, Parked
<1>8. Opens' /\ Opened'
  BY <1>1, <1>2, <1>4 DEF Slotted, Opens, Opened
<1>9. QED BY <1>3, <1>6, <1>7, <1>8 DEF Slotted

\* The kernel takes an operation; a cancel that comes in time ends an open and
\* leaves its slot empty.
LEMMA SlottedTake ==
    ASSUME Types, Bufs, Slotted, KernelTakes
    PROVE  Bufs' /\ Slotted'
<1> DEFINE o == Head(sq)
<1>1. UNCHANGED <<of, fd, fds, others, file>> /\ o \in Sqe
  BY TakeFacts
<1>2. Bufs' /\ Issued' \subseteq Issued
  BY BufsTake
<1>3. \/ cq' = cq
      \/ held[o.of] # None /\ Completed(o.of, "error")
  BY DEF KernelTakes, TakeCancel
<1>4. o.of \in Kinds
  BY <1>1 DEF Sqe
<1> HIDE DEF o
<1>5. CASE cq' = cq
  <2>1. \A i \in 1..Len(cq') : cq'[i].op = "open" => \E j \in 1..Len(cq) : cq[j] = cq'[i]
    BY <1>5
  <2>2. QED BY <1>1, <1>2, <2>1, SlottedSame
<1>6. CASE held[o.of] # None /\ Completed(o.of, "error")
  <2>1. \A i \in 1..Len(cq') :
           \/ i \in 1..Len(cq) /\ cq'[i] = cq[i]
           \/ cq'[i].op = o.of /\ cq'[i].res = "error"
    BY <1>4, <1>6, CompletedFacts
  <2>2. held[o.of] \in Issued /\ held[o.of].op = o.of
    <3>1. held[o.of] \in Sqe
      BY <1>4, <1>6 DEF Types, LoopType
    <3>2. QED BY <1>4, <1>6, <3>1 DEF Issued, Bufs
  <2>3. o.of = "open" => of.temp # NoFd /\ file[of.temp] = "empty"
    BY <2>2 DEF Slotted, Opens
  <2>4. Opened'
    BY <1>1, <2>1, <2>3 DEF Slotted, Opened, Ok
  <2>5. SlotsAccounted' /\ Parked' /\ Opens'
    <3>1. SlotsAccounted' /\ Parked'
      BY <1>1 DEF Slotted, SlotsAccounted, Parked, Mine
    <3>2. Opens'
      BY <1>1, <1>2 DEF Slotted, Opens
    <3>3. QED BY <3>1, <3>2
  <2>6. QED BY <1>2, <2>4, <2>5 DEF Slotted
<1>7. QED BY <1>3, <1>5, <1>6

\* The kernel opens the file in the slot that is parked.
LEMMA SlottedComplete ==
    ASSUME Types, Core, Bufs, Slotted, NEW k \in Kinds, KernelCompletes(k)
    PROVE  Bufs' /\ Slotted'
<1>1. UNCHANGED <<of, fd, fds, sq, others>> /\ pc = "submit" /\ held[k] # None
  BY KernelCompletesFacts
<1>2. PICK res \in {Ok, "error", "EFAULT"} :
         /\ Completed(k, res)
         /\ file' = IF k = "open" /\ res = Ok
                    THEN [file EXCEPT ![held["open"].slot] = "own"] ELSE file
  BY KernelCompletesFacts
<1>3. /\ \A i \in 1..Len(cq') : \/ i \in 1..Len(cq) /\ cq'[i] = cq[i]
                                \/ cq'[i].op = k /\ cq'[i].res = res
      /\ held'[k] = None
  BY <1>1, <1>2, CompletedFacts
<1>4. Bufs' /\ Issued' \subseteq Issued /\ held[k] \in Issued /\ held[k].op = k
  BY <1>1, <1>2, IssuedCompleted
<1>5. CASE k # "open"
  <2>1. \A i \in 1..Len(cq') : cq'[i].op = "open" => \E j \in 1..Len(cq) : cq[j] = cq'[i]
    BY <1>3, <1>5
  <2>2. UNCHANGED <<of, fd, fds, others, file>>
    BY <1>1, <1>2, <1>5
  <2>3. QED BY <1>4, <2>1, <2>2, SlottedSame
<1>6. CASE k = "open"
  <2>1. of.temp # NoFd /\ held[k].slot = of.temp /\ file[of.temp] = "empty" /\ fd = NoFd
    BY <1>4, <1>6 DEF Slotted, Opens, Parked
  <2>2. of.temp \in Slots /\ of.temp \notin fds /\ of.temp \notin others
    BY <2>1 DEF Types, FrameType, OFrame, Slotted, SlotsAccounted, Mine
  <2>3. N("open") = 1
    <3>1. Act("open") /\ pc # "end"
      BY <1>1, <2>1 DEF Slotted, Parked, Act, Ini, Dn
    <3>2. QED BY <1>6, <3>1 DEF Core, Flight, Bit
  <2>4. /\ \A i \in 1..Len(sq) : sq[i].op # "open"
        /\ \A i \in 1..Len(cq) : cq[i].op # "open"
    BY <1>1, <1>6, <2>3, NoneIssued
  <2>5. file'[of.temp] = IF res = Ok THEN "own" ELSE "empty"
    BY <1>2, <1>6, <2>1, <2>2 DEF Types, FrameType
  <2>6. \A t \in Slots \ {of.temp} : file'[t] = file[t]
    BY <1>2, <1>6, <2>1 DEF Types, FrameType
  <2>7. SlotsAccounted'
    <3>1. Mine' = Mine
      BY <1>1 DEF Mine
    <3>2. \A s \in fds' : file'[s] = "empty"
      BY <1>1, <2>2, <2>6 DEF Slotted, SlotsAccounted, Types, FrameType
    <3>3. QED BY <1>1, <2>1, <3>1, <3>2 DEF Slotted, SlotsAccounted
  <2>8. Parked'
    BY <1>1 DEF Slotted, Parked
  <2>9. \A p \in Issued' : p.op # "open"
    <3>1. SUFFICES ASSUME NEW p \in Issued', p.op = "open" PROVE FALSE
      OBVIOUS
    <3>2. PICK j \in Kinds : held'[j] = p
      BY <1>1, <2>4, <3>1 DEF Issued
    <3>3. p # None
      BY <3>1, NoneAssumption DEF Issued
    <3>4. j = "open"
      BY <1>4, <3>1, <3>2, <3>3 DEF Bufs
    <3>5. QED BY <1>3, <1>6, <3>2, <3>3, <3>4
  <2>10. Opens' /\ Opened'
    <3>1. Opens'
      BY <2>9 DEF Opens
    <3>2. Opened'
      BY <1>1, <1>3, <1>6, <2>1, <2>4, <2>5 DEF Opened
    <3>3. QED BY <3>1, <3>2
  <2>11. QED BY <1>4, <2>7, <2>8, <2>10 DEF Slotted
<1>7. QED BY <1>5, <1>6

-----------------------------------------------------------------------------
(* Every step.                                                             *)

Safe == Types /\ Core /\ Bufs /\ Slotted

\* Initially nothing is queued and every slot is free.
LEMMA InitSafe == Init => Safe
<1> SUFFICES ASSUME Init PROVE Safe
  OBVIOUS
<1>1. Types /\ Core
  BY InitTypes, InitCore
<1>2. \A k \in Kinds : held[k] = None
  BY DEF Init
<1>3. Issued = {}
  <2>1. SUFFICES ASSUME NEW o \in Issued PROVE FALSE
    OBVIOUS
  <2>2. Len(sq) = 0
    BY DEF Init
  <2>3. o # None /\ \E k \in Kinds : held[k] = o
    BY <2>2, NoneAssumption DEF Issued
  <2>4. QED BY <1>2, <2>3
<1>4. Bufs
  BY <1>2, <1>3 DEF Bufs
<1>5. of.temp = NoFd /\ ~of.initiated /\ fd = NoFd
  BY DEF Init, ResetOpen
<1>6. Parked
  BY <1>5 DEF Parked
<1>7. SlotsAccounted
  BY <1>5 DEF Init, SlotsAccounted, Mine
<1>8. Opens /\ Opened
  BY <1>3 DEF Init, Opens, Opened
<1>9. QED BY <1>1, <1>4, <1>6, <1>7, <1>8 DEF Safe, Slotted

\* The steps of the coroutines.
LEMMA UserSafe ==
    ASSUME Safe, Uses = {}, UserStep
    PROVE  Safe'
<1>1. Types /\ Core /\ Bufs /\ Slotted /\ LoopType
  BY DEF Safe, Types
<1>2. ASSUME NEW c \in Coros, AsyncOpen(c) PROVE Safe'
  BY <1>1, <1>2, AsyncOpenInv, SlottedOpen DEF Safe
<1>3. ASSUME NEW c \in Coros, GetAvailBuf(c) \/ DropBuf(c) PROVE Safe'
  <2>1. UNCHANGED <<of, fd, fds, others, file, sq, held, cq>>
    BY <1>3 DEF GetAvailBuf, DropBuf, frameVars, kernVars
  <2>2. QED BY <1>1, <1>3, <2>1, ElsewhereInv, SlottedStill DEF Safe
<1>4. ASSUME NEW c \in Coros, LetGo(c) PROVE Safe'
  <2>1. UNCHANGED <<of, fd, fds, others, file, sq, held, cq>>
    BY <1>4 DEF LetGo, kernVars
  <2>2. QED BY <1>1, <1>4, <2>1, LetGoInv, SlottedStill DEF Safe
<1>5. ASSUME NEW c \in Coros, NEW k \in Transfers, NEW b \in BuffersOf(c),
             AsyncTransfer(c, k, b)
      PROVE  Safe'
  <2>1. UNCHANGED <<of, fd, fds, others, file, held, cq>> /\ b \in Buffers
    BY <1>1, <1>5, TransferFacts
  <2>2. PICK o \in Sqe : sq' = Append(sq, o) /\ o.op = k /\ o.buf = b
    BY <1>1, <1>5, TransferSqe
  <2>3. k # "open"
    BY DEF Transfers
  <2>4. Bufs' /\ Slotted'
    BY <1>1, <2>1, <2>2, <2>3, SlottedQueue
  <2>5. QED BY <1>1, <1>5, <2>4, AsyncTransferInv DEF Safe
<1>6. ASSUME NEW c \in Coros, NEW k \in Transfers, NEW b \in BuffersOf(c),
             TransferBusy(c, k, b)
      PROVE  Safe'
  <2>1. UNCHANGED <<of, fd, fds, others, file, held, cq>>
    BY <1>6 DEF TransferBusy
  <2>2. Types' /\ Core' /\ (sq' = sq \/ sq' = Append(sq, Cancel(k)))
    BY <1>1, <1>6, TransferBusyInv
  <2>3. CASE sq' = sq
    BY <1>1, <2>1, <2>2, <2>3, SlottedStill DEF Safe
  <2>4. CASE sq' = Append(sq, Cancel(k))
    <3>1. /\ Cancel(k) \in Sqe /\ Cancel(k).op = "cancel" /\ Cancel(k).op # "open"
          /\ Cancel(k).op \notin Transfers
      BY SqeFacts DEF Kinds, Transfers
    <3>2. Bufs' /\ Slotted'
      BY <1>1, <2>1, <2>4, <3>1, SlottedQueue
    <3>3. QED BY <2>2, <3>2 DEF Safe
  <2>5. QED BY <2>2, <2>3, <2>4
<1>7. ASSUME NEW s \in Slots, Other(s) PROVE Safe'
  BY <1>1, <1>7, ElsewhereInv, SlottedOther DEF Safe
<1>8. QED BY <1>2, <1>3, <1>4, <1>5, <1>6, <1>7 DEF UserStep

\* The steps of the loop and of the kernel.
LEMMA LoopSafe ==
    ASSUME Safe, LoopStep \/ Abort \/ \E k \in Kinds : KernelCompletes(k)
    PROVE  Safe'
<1>1. Types /\ Core /\ Bufs /\ Slotted /\ LoopType /\ Parked
  BY DEF Safe, Types, Slotted
<1>2. ASSUME Resume PROVE Safe'
  <2>1. Types' /\ Core'
    <3>1. co[Head(handles)] \in Kinds
      BY <1>1, <1>2, ResumeFacts
    <3>2. CASE co[Head(handles)] = "open"
      BY <1>1, <1>2, <3>2, ResumeOpenInv
    <3>3. CASE co[Head(handles)] \in Transfers
      BY <1>1, <1>2, <3>3, ResumeTransferInv
    <3>4. QED BY <3>1, <3>2, <3>3 DEF Kinds
  <2>2. QED BY <1>1, <1>2, <2>1, SlottedReturn DEF Safe
<1>3. ASSUME Reap PROVE Safe'
  <2>1. Types' /\ Core'
    <3>1. Head(cq) \in Cqe
      BY <1>1, <1>3, TailEntries DEF Reap, LoopType
    <3>2. Head(cq).op = "open" \/ Head(cq).op \in Transfers
      BY <3>1 DEF Cqe, Kinds
    <3>3. CASE Head(cq).op = "open"
      BY <1>1, <1>3, <3>3, ReapOpenInv
    <3>4. CASE Head(cq).op \in Transfers
      BY <1>1, <1>3, <3>4, ReapTransferInv
    <3>5. QED BY <3>2, <3>3, <3>4
  <2>2. QED BY <1>1, <1>3, <2>1, SlottedReap DEF Safe
<1>4. ASSUME SubmitAndWait \/ SubmitFull \/ SubmitDone \/ ReapDone \/ Abort PROVE Safe'
  <2>1. UNCHANGED <<of, fd, fds, others, file, sq, held, cq>>
    BY <1>4 DEF SubmitAndWait, SubmitFull, SubmitDone, ReapDone, Abort, frameVars,
       kernVars
  <2>2. Bufs' /\ Slotted'
    BY <1>1, <2>1, SlottedStill
  <2>3. Types' /\ Core'
    BY <1>1, <1>4, LoopMovesInv
  <2>4. QED BY <2>2, <2>3 DEF Safe
<1>5. ASSUME KernelTakes PROVE Safe'
  BY <1>1, <1>5, KernelTakesInv, SlottedTake DEF Safe
<1>6. ASSUME NEW k \in Kinds, KernelCompletes(k) PROVE Safe'
  BY <1>1, <1>6, KernelCompletesInv, SlottedComplete DEF Safe
<1>7. ASSUME Destruct PROVE Safe'
  BY <1>1, <1>7, ElsewhereInv, SlottedDestruct DEF Safe
<1>8. ASSUME Flush PROVE Safe'
  <2>1. /\ Types' /\ Core' /\ cq' = <<>>
        /\ UNCHANGED <<of, fd, fds, others, file, sq, held>>
    BY <1>1, <1>8, FlushInv
  <2>2. Issued' = Issued
    BY <2>1 DEF Issued
  <2>3. \A i \in 1..Len(cq') : cq'[i].op = "open" => \E j \in 1..Len(cq) : cq[j] = cq'[i]
    BY <2>1
  <2>4. Slotted'
    BY <1>1, <2>1, <2>2, <2>3, SlottedSame
  <2>5. Bufs'
    BY <1>1, <2>1, <2>2 DEF Bufs
  <2>6. QED BY <2>1, <2>4, <2>5 DEF Safe
<1>9. ASSUME NEW c \in Coros, DestroyCoro(c) PROVE Safe'
  <2>1. /\ Types' /\ Core'
        /\ UNCHANGED <<of, fd, fds, others, file, held, cq>>
        /\ sq' = sq \/ \E o \in Sqe : o.op = "cancel" /\ sq' = Append(sq, o)
    BY <1>1, <1>9, DestroyCoroInv
  <2>2. CASE sq' = sq
    BY <1>1, <2>1, <2>2, SlottedStill DEF Safe
  <2>3. CASE \E o \in Sqe : o.op = "cancel" /\ sq' = Append(sq, o)
    <3>1. PICK o \in Sqe : o.op = "cancel" /\ sq' = Append(sq, o)
      BY <2>3
    <3>2. o.op # "open" /\ o.op \notin Transfers
      BY <3>1 DEF Transfers
    <3>3. Bufs' /\ Slotted'
      BY <1>1, <2>1, <3>1, <3>2, SlottedQueue
    <3>4. QED BY <2>1, <3>3 DEF Safe
  <2>4. QED BY <2>1, <2>2, <2>3
<1>10. QED BY <1>2, <1>3, <1>4, <1>5, <1>6, <1>7, <1>8, <1>9 DEF LoopStep

\* Nothing changes.
LEMMA StutterSafe ==
    ASSUME Safe, UNCHANGED vars
    PROVE  Safe'
<1>1. UNCHANGED <<of, xf, refs, fd, fds, others, ids, avail, own, mem, co, arg, returned,
                  writes, handles, pc, back, sq, held, cq, file, content>>
  BY DEF vars, frameVars, poolVars, coVars, loopVars, kernVars
<1>2. Types /\ Core /\ Bufs /\ Slotted /\ LoopType
  BY DEF Safe, Types
<1>3. FrameType' /\ PoolType' /\ DataType'
  BY <1>1, <1>2 DEF Types, FrameType, PoolType, DataType
<1>4. LoopType' /\ Core'
  BY <1>1, <1>2, CoreSame
<1>5. Bufs' /\ Slotted'
  BY <1>1, <1>2, SlottedStill
<1>6. QED BY <1>3, <1>4, <1>5 DEF Safe, Types

-----------------------------------------------------------------------------
(* The theorems.                                                           *)

\* The types, the frames, the references and the slots of a file that is opened
\* once at a time are as the invariant says.
THEOREM Inductive ==
    ASSUME Uses = {}
    PROVE  Spec => []Safe
<1>1. Safe /\ [Next]_vars => Safe'
  <2>1. SUFFICES ASSUME Safe, [Next]_vars PROVE Safe'
    OBVIOUS
  <2>2. CASE UserStep
    BY <2>1, <2>2, UserSafe
  <2>3. CASE LoopStep \/ Abort \/ \E k \in Kinds : KernelCompletes(k)
    BY <2>1, <2>3, LoopSafe
  <2>4. CASE UNCHANGED vars
    BY <2>1, <2>4, StutterSafe
  <2>5. QED BY <2>1, <2>2, <2>3, <2>4 DEF Next
<1>2. QED BY <1>1, InitSafe, PTL DEF Spec

\* How many of the three kinds are in a set.
LEMMA ThreeKinds ==
    ASSUME NEW S
    PROVE  Cardinality({k \in Kinds : k \in S})
              = Bit("open" \in S) + Bit("write" \in S) + Bit("read" \in S)
<1>1. IsFiniteSet({}) /\ IsFiniteSet({"open"}) /\ IsFiniteSet({"open", "write"})
  BY FS_EmptySet, FS_Singleton, FS_AddElement, {"open", "write"} = {"open"} \cup {"write"}
<1>2. Cardinality({k \in {} : k \in S}) = 0
  BY FS_EmptySet
<1>3. Cardinality({k \in {} \cup {"open"} : k \in S}) = 0 + Bit("open" \in S)
  BY <1>1, <1>2, FilterAdd
<1>4. Cardinality({k \in {"open"} \cup {"write"} : k \in S})
         = Cardinality({k \in {"open"} : k \in S}) + Bit("write" \in S)
  BY <1>1, FilterAdd
<1>5. Cardinality({k \in {"open", "write"} \cup {"read"} : k \in S})
         = Cardinality({k \in {"open", "write"} : k \in S}) + Bit("read" \in S)
  BY <1>1, FilterAdd
<1>6. /\ {} \cup {"open"} = {"open"} /\ {"open"} \cup {"write"} = {"open", "write"}
      /\ {"open", "write"} \cup {"read"} = Kinds
  BY KindsFacts
<1>7. QED BY <1>3, <1>4, <1>5, <1>6 DEF Bit

\* A frame counts for as many references as it has operations in flight.
LEMMA FlightFacts ==
    ASSUME Types, Core, NEW k \in Kinds
    PROVE  /\ N(k) = Bit(InFlight(k))
           /\ pc # "end" => (InFlight(k) <=> Act(k))
<1>1. /\ OfOp(sq, k) \in Nat /\ OfOp(cq, k) \in Nat
      /\ InQueue(sq, k) <=> OfOp(sq, k) # 0
      /\ InQueue(cq, k) <=> OfOp(cq, k) # 0
  <2>1. OfOp(sq, k) \in Nat /\ OfOp(cq, k) \in Nat
    BY NatFacts DEF Types
  <2>2. OfOp(sq, k) = 0 <=> \A i \in 1..Len(sq) : sq[i].op # k
    BY Laws DEF OpLaws, Types, LoopType
  <2>3. OfOp(cq, k) = 0 <=> \A i \in 1..Len(cq) : cq[i].op # k
    BY Laws DEF OpLaws, Types, LoopType
  <2>4. QED BY <2>1, <2>2, <2>3 DEF InQueue
<1>2. N(k) = OfOp(sq, k) + OfOp(cq, k) + Bit(held[k] # None)
  BY DEF N
<1>3. CASE pc = "end"
  <2>1. OfOp(sq, k) = 0 /\ OfOp(cq, k) = 0
    BY <1>3, Laws DEF OpLaws, Core, Control
  <2>2. QED BY <1>1, <1>2, <1>3, <2>1 DEF InFlight, Bit
<1>4. CASE pc # "end"
  <2>1. N(k) = Bit(Act(k))
    BY <1>4 DEF Core, Flight
  <2>2. N(k) # 0 <=> InFlight(k)
    BY <1>1, <1>2 DEF InFlight, Bit
  <2>3. QED BY <2>1, <2>2 DEF Bit
<1>5. QED BY <1>3, <1>4

\* ref_count::count_ of the file_impl is the number of its handles, awaitables and
\* operations in flight, cancelled or not, whoever uses the file and in whatever
\* order the kernel answers: it is freed with the last of them.
THEOREM ReferencesHold ==
    ASSUME Uses = {}
    PROVE  Spec => []References
<1>1. Safe => References
  <2>1. SUFFICES ASSUME Safe PROVE References
    OBVIOUS
  <2>2. Types /\ Core /\ refs \in Nat
    BY <2>1, ExactNat DEF Safe, Types, Core
  <2>3. TypeOK
    BY <2>2, TypesGive
  <2>4. {c \in Coros : co[c] # "gone"} = {c \in Coros : co[c] \in Alive}
    BY <2>2, KindsFacts DEF Types, LoopType
  <2>5. Cardinality({k \in Kinds : InFlight(k)}) = N("open") + N("write") + N("read")
    <3> DEFINE S == {k \in Kinds : InFlight(k)}
    <3>1. Cardinality({k \in Kinds : k \in S})
             = Bit("open" \in S) + Bit("write" \in S) + Bit("read" \in S)
      BY ThreeKinds
    <3>2. {k \in Kinds : k \in S} = S
      OBVIOUS
    <3>3. /\ "open" \in S <=> InFlight("open")
          /\ "write" \in S <=> InFlight("write")
          /\ "read" \in S <=> InFlight("read")
      BY KindsFacts
    <3> HIDE DEF S
    <3>4. /\ N("open") = Bit(InFlight("open")) /\ N("write") = Bit(InFlight("write"))
          /\ N("read") = Bit(InFlight("read"))
      BY <2>2, KindsFacts, FlightFacts
    <3>5. Cardinality(S) = N("open") + N("write") + N("read")
      BY <3>1, <3>2, <3>3, <3>4 DEF Bit
    <3>6. QED BY <3>5 DEF S
  <2>6. /\ Pop(co, Coros, Alive) \in Nat /\ Pop(co, Coros, Kinds) \in Nat
        /\ N("open") \in Nat /\ N("write") \in Nat /\ N("read") \in Nat
    BY <2>2, NatFacts DEF Types
  <2>7. /\ refs = Pop(co, Coros, Alive) + Pop(co, Coros, Kinds)
                  + N("open") + N("write") + N("read")
        /\ Pop(co, Coros, Alive) = Cardinality({c \in Coros : co[c] # "gone"})
        /\ Pop(co, Coros, Kinds) = Cardinality({c \in Coros : co[c] \in Kinds})
    BY <2>2, <2>4 DEF Core, Exact, Pop
  <2>8. QED BY <2>3, <2>5, <2>6, <2>7 DEF References
<1>2. QED BY <1>1, Inductive, PTL

\* Every slot of the table has exactly one owner, whether an open succeeds, fails
\* or is cancelled: none leaks and none is given out twice.
THEOREM SlotsAccountedHold ==
    ASSUME Uses = {}
    PROVE  Spec => []SlotsAccounted
<1>1. Safe => SlotsAccounted
  BY DEF Safe, Slotted
<1>2. QED BY <1>1, Inductive, PTL

\* A coroutine that waits for the file is resumed once: its handle is in the
\* frame of the operation in flight, or has been collected, never both.
THEOREM ResumptionHolds ==
    ASSUME Uses = {}
    PROVE  Spec => []Resumption
<1>1. Safe => Resumption
  <2>1. SUFFICES ASSUME Safe, ~Unwinding, NEW c \in Coros
                 PROVE  LET n == Cardinality({i \in 1..Len(handles) : handles[i] = c})
                        IN  IF co[c] \in {"idle", "gone"} THEN n = 0
                            ELSE n = IF InFlight(co[c]) /\ FrameOf(c).h = c THEN 0 ELSE 1
    BY DEF Resumption
  <2>2. Types /\ Core /\ pc # "end" /\ co[c] \in Kinds \cup {"idle", "gone"}
    BY <2>1 DEF Safe, Types, LoopType, Unwinding
  <2>3. CASE co[c] \in {"idle", "gone"}
    <3>1. co[c] \notin Kinds
      BY <2>3, KindsFacts
    <3>2. Times(handles, c) = 0
      BY <2>1, <2>2, <3>1 DEF Core, Waiters
    <3>3. QED BY <2>3, <3>2 DEF Times
  <2>4. ASSUME NEW k \in Kinds, co[c] = k
        PROVE  Times(handles, c) = IF InFlight(k) /\ FrameOf(c).h = c THEN 0 ELSE 1
    <3>1. Ini(k) /\ Times(handles, c) = Bit(Dn(k))
      BY <2>1, <2>2, <2>4 DEF Core, Waiters
    <3>2. InFlight(k) <=> Act(k)
      BY <2>2, FlightFacts
    <3>3. Act(k) => H(k) = c
      BY <2>1, <2>2, <2>4 DEF Core, Frames, Waiters
    <3>4. FrameOf(c).h = H(k)
      BY <2>4 DEF FrameOf, H
    <3>5. Act(k) <=> ~Dn(k)
      BY <3>1 DEF Act
    <3>6. QED BY <3>1, <3>2, <3>3, <3>4, <3>5 DEF Bit
  <2>5. CASE co[c] \notin {"idle", "gone"}
    <3>1. co[c] \in Kinds
      BY <2>2, <2>5
    <3>2. Times(handles, c) = IF InFlight(co[c]) /\ FrameOf(c).h = c THEN 0 ELSE 1
      BY <2>4, <3>1
    <3>3. QED BY <2>5, <3>2 DEF Times
  <2>6. QED BY <2>3, <2>5
<1>2. QED BY <1>1, Inductive, PTL

-----------------------------------------------------------------------------
(* The steps, as far as the data are concerned.                            *)

\* Once run() is left by an exception, it is.
LEMMA StillUnwinding ==
    ASSUME Safe, Next \/ UNCHANGED vars, Unwinding
    PROVE  Unwinding'
<1>1. Control /\ pc \in {"user", "submit", "reap", "abort", "end"}
  BY DEF Safe, Core, Types, LoopType
<1>2. \/ pc' = "submit" /\ back' = "abort"
      \/ pc \in {"abort", "end"} /\ UNCHANGED <<pc, back>>
      \/ pc = "submit" /\ UNCHANGED <<pc, back>>
      \/ pc = "submit" /\ pc' = back
      \/ pc' = "end"
      \/ pc \in {"user", "reap"}
  <2>1. CASE UserStep
    BY <2>1 DEF UserStep, AsyncOpen, GetAvailBuf, DropBuf, LetGo, AsyncTransfer,
                TransferBusy, Other, Free
  <2>2. CASE \/ Resume \/ SubmitAndWait \/ SubmitFull \/ Reap
             \/ ReapDone \/ Flush \/ Abort \/ SubmitDone
    BY <2>2 DEF Resume, SubmitAndWait, SubmitFull, Reap, ReapDone, Flush, Abort,
       SubmitDone
  <2>3. CASE KernelTakes \/ \E k \in Kinds : KernelCompletes(k)
    BY <2>3 DEF KernelTakes, KernelCompletes, loopVars
  <2>4. CASE Destruct \/ UNCHANGED vars
    BY <1>1, <2>4 DEF Destruct, vars, loopVars
  <2>5. CASE \E c \in Coros : DestroyCoro(c)
    BY <2>5 DEF DestroyCoro
  <2>6. QED BY <2>1, <2>2, <2>3, <2>4, <2>5 DEF Next, LoopStep
<1>3. QED BY <1>1, <1>2 DEF Unwinding, Control

\* No two coroutines have memory in common.
LEMMA Apart ==
    ASSUME Types, Pool, NEW c \in Coros, NEW d \in Coros, c # d
    PROVE  BuffersOf(c) \cap BuffersOf(d) = {}
<1>1. Coros \cap Ids = {}
  BY FileAssumption DEF Ids
<1>2. /\ own[c] # None => own[c].id \in Ids
      /\ own[d] # None => own[d].id \in Ids
  BY DEF Types, PoolType, Fixed
<1>3. QED BY <1>1, <1>2 DEF BuffersOf, Pool

\* What a step must leave alone for a coroutine that waits.
Left(d) ==
    /\ arg'[d] = arg[d] /\ own'[d] = own[d]
    /\ mem'[arg[d].buf] = mem[arg[d].buf]
    /\ co[d] = "write" => writes' = writes
    /\ content <= content'
    /\ xf'[co[d]].done = xf[co[d]].done /\ xf'[co[d]].res = xf[co[d]].res

\* A coroutine that waits for a transfer and is left alone.
LEMMA CallerLeft ==
    ASSUME Types, Types', NEW d \in Coros, Caller(d), Carries(d),
           co'[d] \in Transfers, co'[d] = co[d], Left(d),
           \A o \in Issued' : o.op = co[d] => o \in Issued,
           \A i \in 1..Len(cq') : cq'[i].op = co[d] => \E j \in 1..Len(cq) : cq[j] = cq'[i]
    PROVE  Caller(d)' /\ Carries(d)'
<1>1. /\ content \in Nat /\ content' \in Nat /\ arg[d].data \in Nat
  BY DEF Types, DataType, Arg
<1>2. /\ arg'[d] = arg[d] /\ own'[d] = own[d]
      /\ mem'[arg[d].buf] = mem[arg[d].buf]
      /\ co[d] = "write" => writes' = writes
      /\ content <= content'
      /\ xf'[co[d]].done = xf[co[d]].done /\ xf'[co[d]].res = xf[co[d]].res
  BY DEF Left
<1>3. BuffersOf(d)' = BuffersOf(d)
  BY <1>2 DEF BuffersOf
<1>4. Good(d) => Good(d)'
  BY <1>1, <1>2 DEF Good
<1>5. Caller(d)'
  <2>1. arg[d].buf \in BuffersOf(d)'
    BY <1>3 DEF Caller
  <2>2. co[d] = "write" => arg[d].data = writes' /\ mem'[arg[d].buf] = writes'
    BY <1>2 DEF Caller
  <2>3. co[d] = "read" => arg[d].data <= content'
    BY <1>1, <1>2 DEF Caller
  <2>4. xf'[co[d]].done /\ xf'[co[d]].res = Ok => Good(d)'
    BY <1>2, <1>4 DEF Caller
  <2>5. QED BY <1>2, <2>1, <2>2, <2>3, <2>4 DEF Caller
<1>6. Carries(d)'
  <2>1. ASSUME NEW o \in Issued', o.op \in Transfers, o.op = co[d]
        PROVE  o.buf = arg'[d].buf /\ (o.index = NoIndex \/ o.index = o.buf)
    BY <1>2, <2>1 DEF Carries
  <2>2. ASSUME NEW i \in 1..Len(cq'), cq'[i].op \in Transfers, cq'[i].op = co[d]
        PROVE  cq'[i].res # "EFAULT" /\ (cq'[i].res = Ok => Good(d)')
    BY <1>4, <2>2 DEF Carries
  <2>3. QED BY <2>1, <2>2 DEF Carries
<1>7. QED BY <1>5, <1>6

\* A coroutine that does not wait for one.
LEMMA CallerFree ==
    ASSUME NEW d \in Coros, co'[d] \notin Transfers
    PROVE  Caller(d)' /\ Carries(d)'
BY DEF Caller, Carries

\* A step that leaves everybody who waits for a transfer alone.
LEMMA DataQuiet ==
    ASSUME Types, Types', Pool, Clean, Callers, Pool',
           UNCHANGED <<mem, returned, writes, content>>,
           \A k \in Transfers : /\ xf'[k].res = xf[k].res /\ xf'[k].done = xf[k].done
                                /\ xf'[k].initiated = xf[k].initiated
                                /\ xf[k].initiated \/ xf'[k].index = xf[k].index,
           \A d \in Coros : co'[d] \in Transfers =>
              co'[d] = co[d] /\ arg'[d] = arg[d] /\ own'[d] = own[d],
           \A o \in Issued' : o.op \in Transfers => o \in Issued,
           \A i \in 1..Len(cq') : cq'[i].op \in Transfers => \E j \in 1..Len(cq) : cq[j] = cq'[i]
    PROVE  Pool' /\ Clean' /\ Callers'
<1>1. Clean'
  BY DEF Clean
<1>2. ASSUME NEW d \in Coros PROVE Caller(d)' /\ Carries(d)'
  <2>1. CASE co'[d] \in Transfers
    <3>1. co'[d] = co[d] /\ arg'[d] = arg[d] /\ own'[d] = own[d] /\ co[d] \in Transfers
      BY <2>1
    <3>2. content \in Nat /\ content' = content
      BY DEF Types, DataType
    <3>3. Left(d)
      BY <3>1, <3>2 DEF Left
    <3>4. Caller(d) /\ Carries(d)
      BY DEF Callers
    <3>5. /\ \A o \in Issued' : o.op = co[d] => o \in Issued
          /\ \A i \in 1..Len(cq') : cq'[i].op = co[d] => \E j \in 1..Len(cq) : cq[j] = cq'[i]
      BY <3>1
    <3>6. QED BY <2>1, <3>1, <3>3, <3>4, <3>5, CallerLeft
  <2>2. CASE co'[d] \notin Transfers
    BY <2>2, CallerFree
  <2>3. QED BY <2>1, <2>2
<1>3. QED BY <1>1, <1>2 DEF Callers

\* The queues and the frames are left alone too.
LEMMA DataStill ==
    ASSUME Types, Types', Pool, Clean, Callers, Pool',
           UNCHANGED <<mem, returned, writes, content, xf, sq, held, cq>>,
           \A d \in Coros : co'[d] \in Transfers =>
              co'[d] = co[d] /\ arg'[d] = arg[d] /\ own'[d] = own[d]
    PROVE  Pool' /\ Clean' /\ Callers'
<1>1. Issued' = Issued
  BY DEF Issued
<1>2. \A i \in 1..Len(cq') : cq'[i].op \in Transfers => \E j \in 1..Len(cq) : cq[j] = cq'[i]
  OBVIOUS
<1>3. \A k \in Transfers : /\ xf'[k].res = xf[k].res /\ xf'[k].done = xf[k].done
                           /\ xf'[k].initiated = xf[k].initiated
                           /\ xf[k].initiated \/ xf'[k].index = xf[k].index
  OBVIOUS
<1>4. QED BY <1>1, <1>2, <1>3, DataQuiet

\* async_open, get_avail_buf, ~fixed_buffer, what others do with their slots, the
\* thread going on.
LEMMA DataElsewhere ==
    ASSUME Safe, Safe', Pool, Clean, Callers,
           \/ \E c \in Coros : AsyncOpen(c) \/ GetAvailBuf(c) \/ DropBuf(c) \/ LetGo(c)
           \/ \E s \in Slots : Other(s)
           \/ SubmitAndWait \/ SubmitFull \/ SubmitDone \/ ReapDone \/ Destruct
    PROVE  Pool' /\ Clean' /\ Callers'
<1>1. Types /\ Types' /\ LoopType
  BY DEF Safe, Types
<1>2. ASSUME NEW c \in Coros, AsyncOpen(c) PROVE Pool' /\ Clean' /\ Callers'
  <2>1. /\ UNCHANGED <<xf, ids, avail, own, mem, arg, returned, writes, held, cq, content>>
        /\ co' = [co EXCEPT ![c] = "open"]
    BY <1>2 DEF AsyncOpen, poolVars
  <2>2. PICK s \in fds : sq' = Append(sq, Op("open", s, None, NoIndex))
    BY <1>2 DEF AsyncOpen
  <2>3. s \in Slots
    BY <1>1 DEF Types, FrameType
  <2>4. PICK o \in Sqe : sq' = Append(sq, o) /\ o.op = "open"
    <3> DEFINE q == Op("open", s, None, NoIndex)
    <3>1. "open" \in Kinds /\ s \in Slots \cup {NoFd}
      BY <2>3, KindsFacts
    <3>2. q \in Sqe /\ q.op = "open"
      BY <3>1, SqeFacts
    <3>3. sq' = Append(sq, q)
      BY <2>2
    <3> HIDE DEF q
    <3>4. QED BY <3>2, <3>3
  <2>5. Issued' = Issued \cup {o}
    BY <1>1, <2>1, <2>4, IssuedAppend
  <2>6. \A p \in Issued' : p.op \in Transfers => p \in Issued
    BY <2>4, <2>5 DEF Transfers
  <2>7. Pool'
    BY <2>1 DEF Pool
  <2>8. \A d \in Coros : co'[d] \in Transfers =>
              co'[d] = co[d] /\ arg'[d] = arg[d] /\ own'[d] = own[d]
    BY <1>1, <2>1 DEF LoopType, Transfers
  <2>9. \A i \in 1..Len(cq') : cq'[i].op \in Transfers => \E j \in 1..Len(cq) : cq[j] = cq'[i]
    BY <2>1
  <2>10. /\ UNCHANGED <<mem, returned, writes, content>>
         /\ \A k \in Transfers : /\ xf'[k].res = xf[k].res /\ xf'[k].done = xf[k].done
                                 /\ xf'[k].initiated = xf[k].initiated
                                 /\ xf[k].initiated \/ xf'[k].index = xf[k].index
    BY <2>1
  <2>11. QED BY <1>1, <2>6, <2>7, <2>8, <2>9, <2>10, DataQuiet
<1>3. ASSUME NEW c \in Coros, GetAvailBuf(c) PROVE Pool' /\ Clean' /\ Callers'
  <2>1. /\ UNCHANGED <<mem, returned, writes, content, xf, sq, held, cq, co, arg, ids>>
        /\ co[c] = "idle" /\ avail # 0 /\ avail' = avail - 1
        /\ own' = [own EXCEPT ![c] = [id |-> ids[avail - 1], pos |-> avail - 1]]
    BY <1>3 DEF GetAvailBuf, Free, frameVars, coVars, kernVars
  <2>2. avail \in Nat /\ avail - 1 \in Ids /\ ids[avail - 1] = avail - 1
    <3>1. avail \in 0..NumBufs /\ NumBufs \in Nat
      BY <1>1, FileAssumption DEF Types, PoolType
    <3>2. avail \in Nat /\ avail - 1 \in Ids
      BY <2>1, <3>1 DEF Ids
    <3>3. QED BY <3>2 DEF Pool
  <2> DEFINE r == [id |-> ids[avail - 1], pos |-> avail - 1]
  <2>3. r.id = avail - 1 /\ r.pos = avail - 1
    BY <2>2
  <2>4. own' = [own EXCEPT ![c] = r] /\ own \in [Coros -> Fixed \cup {None}]
    BY <1>1, <2>1 DEF Types, PoolType
  <2> HIDE DEF r
  <2>5. own'[c] = r /\ \A d \in Coros \ {c} : own'[d] = own[d]
    BY <2>4
  <2>6. \A d \in Coros : own[d] # None => own[d].id \in Nat /\ own[d].id >= avail
    BY <1>1 DEF Types, PoolType, Fixed, Ids, Pool
  <2>7. Pool'
    <3>1. \A d \in Coros : own'[d] # None => own'[d].id = own'[d].pos /\ own'[d].id >= avail'
      BY <2>1, <2>2, <2>3, <2>5, <2>6 DEF Pool
    <3>2. \A d \in Coros \ {c} : own'[d] # None => own'[d].id # avail - 1
      BY <2>2, <2>5, <2>6
    <3>3. \A d, e \in Coros :
             own'[d] # None /\ own'[e] # None /\ own'[d].id = own'[e].id => d = e
      BY <2>3, <2>5, <3>2 DEF Pool
    <3>4. \A i \in Ids : ids'[i] = i
      BY <2>1 DEF Pool
    <3>5. QED BY <3>1, <3>3, <3>4 DEF Pool
  <2>8. \A d \in Coros : co'[d] \in Transfers =>
              co'[d] = co[d] /\ arg'[d] = arg[d] /\ own'[d] = own[d]
    BY <2>1, <2>5 DEF Transfers
  <2>9. UNCHANGED <<mem, returned, writes, content, xf, sq, held, cq>>
    BY <2>1
  <2>10. QED BY <1>1, <2>7, <2>8, <2>9, DataStill
<1>4. ASSUME NEW c \in Coros, DropBuf(c) \/ LetGo(c) PROVE Pool' /\ Clean' /\ Callers'
  <2>1. /\ UNCHANGED <<mem, returned, writes, content, xf, sq, held, cq, arg>>
        /\ co[c] = "idle" /\ ReturnBuf(c)
        /\ co' = co \/ co' = [co EXCEPT ![c] = "gone"]
    BY <1>4 DEF DropBuf, LetGo, Free, frameVars, coVars, kernVars
  <2>2. /\ own' = [own EXCEPT ![c] = None] /\ avail' = avail
        /\ ids' = IF own[c] = None THEN ids ELSE [ids EXCEPT ![own[c].pos] = own[c].id]
    BY <2>1 DEF ReturnBuf
  <2>3. own'[c] = None /\ \A d \in Coros \ {c} : own'[d] = own[d]
    BY <1>1, <2>2 DEF Types, PoolType
  <2>4. \A i \in Ids : ids'[i] = i
    BY <1>1, <2>2 DEF Pool, Types, PoolType
  <2>5. Pool'
    BY <2>2, <2>3, <2>4 DEF Pool
  <2>6. \A d \in Coros : co'[d] \in Transfers =>
              co'[d] = co[d] /\ arg'[d] = arg[d] /\ own'[d] = own[d]
    BY <1>1, <2>1, <2>3 DEF LoopType, Transfers
  <2>7. UNCHANGED <<mem, returned, writes, content, xf, sq, held, cq>>
    BY <2>1
  <2>8. QED BY <1>1, <2>5, <2>6, <2>7, DataStill
<1>5. ASSUME \/ \E s \in Slots : Other(s)
             \/ SubmitAndWait \/ SubmitFull \/ SubmitDone \/ ReapDone \/ Destruct
      PROVE  Pool' /\ Clean' /\ Callers'
  <2>1. UNCHANGED <<mem, returned, writes, content, xf, sq, held, cq, co, arg, own, ids, avail>>
    BY <1>5 DEF Other, SubmitAndWait, SubmitFull, SubmitDone, ReapDone, Destruct,
       frameVars, poolVars,
                coVars, kernVars
  <2>2. Pool'
    BY <2>1 DEF Pool
  <2>3. /\ UNCHANGED <<mem, returned, writes, content, xf, sq, held, cq>>
        /\ \A d \in Coros : co'[d] \in Transfers =>
              co'[d] = co[d] /\ arg'[d] = arg[d] /\ own'[d] = own[d]
    BY <2>1
  <2>4. QED BY <1>1, <2>2, <2>3, DataStill
<1>6. QED BY <1>2, <1>3, <1>4, <1>5

\* A transfer that is turned away changes the buffer of a frame in use only.
LEMMA DataBusy ==
    ASSUME Safe, Safe', Pool, Clean, Callers, NEW c \in Coros, NEW k \in Transfers,
           NEW b \in BuffersOf(c), TransferBusy(c, k, b)
    PROVE  Pool' /\ Clean' /\ Callers'
<1>1. Types /\ Types' /\ LoopType /\ Core
  BY DEF Safe, Types
<1>2. /\ xf[k].initiated /\ xf' = [xf EXCEPT ![k] = SetBuf(@, b)]
      /\ UNCHANGED <<ids, avail, own, mem, co, arg, returned, writes, held, cq, content>>
  BY DEF TransferBusy, poolVars, coVars
<1>3. xf \in [Transfers -> XFrame] /\ xf[k] \in XFrame /\ b \in Buffers
  BY <1>1, BuffersOfFacts DEF Types, FrameType
<1> DEFINE f == SetBuf(xf[k], b)
<1>4. /\ f.res = xf[k].res /\ f.done = xf[k].done /\ f.initiated = xf[k].initiated
  BY <1>3, SetBufFacts
<1>5. xf' = [xf EXCEPT ![k] = f]
  BY <1>2
<1> HIDE DEF f
<1>6. xf'[k] = f /\ \A j \in Transfers \ {k} : xf'[j] = xf[j]
  BY <1>3, <1>5
<1>7. \A j \in Transfers : /\ xf'[j].res = xf[j].res /\ xf'[j].done = xf[j].done
                           /\ xf'[j].initiated = xf[j].initiated
                           /\ xf[j].initiated \/ xf'[j].index = xf[j].index
  BY <1>2, <1>4, <1>6
<1>8. \A o \in Issued' : o.op \in Transfers => o \in Issued
  <2>1. sq' = sq \/ sq' = Append(sq, Cancel(k))
    BY <1>1, TransferBusyInv
  <2>2. CASE sq' = sq
    BY <1>2, <2>2 DEF Issued
  <2>3. CASE sq' = Append(sq, Cancel(k))
    <3>1. Cancel(k) \in Sqe /\ Cancel(k).op \notin Transfers
      BY SqeFacts DEF Kinds, Transfers
    <3>2. Issued' = Issued \cup {Cancel(k)}
      BY <1>1, <1>2, <2>3, <3>1, IssuedAppend
    <3>3. QED BY <3>1, <3>2
  <2>4. QED BY <2>1, <2>2, <2>3
<1>9. Pool'
  BY <1>2 DEF Pool
<1>10. /\ UNCHANGED <<mem, returned, writes, content>>
       /\ \A d \in Coros : co'[d] \in Transfers =>
             co'[d] = co[d] /\ arg'[d] = arg[d] /\ own'[d] = own[d]
       /\ \A i \in 1..Len(cq') : cq'[i].op \in Transfers => \E j \in 1..Len(cq) : cq[j] = cq'[i]
  BY <1>2
<1>11. QED BY <1>1, <1>7, <1>8, <1>9, <1>10, DataQuiet

\* A transfer starts, with the caller's memory and the caller's number.
LEMMA DataTransfer ==
    ASSUME Safe, Safe', ~Unwinding, Pool, Clean, Callers, NEW c \in Coros, NEW k \in Transfers,
           NEW b \in BuffersOf(c), AsyncTransfer(c, k, b)
    PROVE  Pool' /\ Clean' /\ Callers'
<1>1. Types /\ Types' /\ LoopType /\ Core /\ Bufs
  BY DEF Safe, Types
<1>2. /\ pc = "user" /\ co[c] = "idle" /\ ~xf[k].initiated
      /\ co' = [co EXCEPT ![c] = k]
      /\ UNCHANGED <<ids, avail, own, held, cq>>
      /\ xf'[k].initiated /\ xf'[k].done = xf[k].done /\ xf'[k].res = xf[k].res
      /\ \A j \in Transfers \ {k} : xf'[j] = xf[j]
      /\ b \in Buffers /\ k \in Kinds /\ k # "open"
  BY <1>1, TransferFacts DEF Transfers
<1>3. /\ arg'[c].buf = b /\ arg'[c].data = Expected(k)
      /\ \A d \in Coros \ {c} : arg'[d] = arg[d]
      /\ UNCHANGED <<returned, content>>
      /\ k = "read" => UNCHANGED <<mem, writes>>
      /\ k # "read" => /\ writes' = writes + 1 /\ mem'[b] = writes + 1
                       /\ \A x \in Buffers \ {b} : mem'[x] = mem[x]
  BY <1>1, TransferData
<1>4. PICK o \in Sqe : /\ sq' = Append(sq, o) /\ o.op = k
                       /\ o.buf = b /\ o.index = IndexOf(k, b)
  BY <1>1, TransferSqe
<1>5. Issued' = Issued \cup {o}
  BY <1>1, <1>2, <1>4, IssuedAppend
<1>6. co'[c] = k /\ \A d \in Coros \ {c} : co'[d] = co[d]
  BY <1>1, <1>2 DEF LoopType
<1>7. /\ ~Ini(k) /\ ~Dn(k) /\ ~xf[k].done /\ N(k) = 0
  BY <1>1, <1>2 DEF Core, Frames, Flight, Ini, Dn, Act, Bit
<1>8. /\ \A p \in Issued : p.op # k
      /\ \A i \in 1..Len(cq) : cq[i].op # k
  BY <1>1, <1>2, <1>7, NoneIssued
<1>9. /\ writes \in Nat /\ content \in Nat /\ returned \in Nat
  BY <1>1 DEF Types, DataType
<1>10. Pool'
  BY <1>2 DEF Pool
<1>11. Clean'
  <2>1. \A j \in Transfers :
           xf'[j].res # "EFAULT" /\ (~xf'[j].initiated => xf'[j].index = NoIndex)
    BY <1>2 DEF Clean
  <2>2. content' <= writes' /\ returned' <= content'
    BY <1>3, <1>9 DEF Clean
  <2>3. QED BY <2>1, <2>2 DEF Clean
<1>12. Caller(c)'
  <2>1. b \in BuffersOf(c)'
    BY <1>2 DEF BuffersOf
  <2>2. k = "write" => arg'[c].data = writes' /\ mem'[b] = writes'
    BY <1>3 DEF Expected
  <2>3. k = "read" => arg'[c].data <= content'
    BY <1>3 DEF Expected, Clean
  <2>4. ~xf'[k].done
    BY <1>2, <1>7
  <2>5. QED BY <1>3, <1>6, <2>1, <2>2, <2>3, <2>4 DEF Caller
<1>13. Carries(c)'
  <2>1. o.index = NoIndex \/ o.index = b
    BY <1>2, <1>4 DEF IndexOf, Clean
  <2>2. ASSUME NEW p \in Issued', p.op \in Transfers, p.op = k
        PROVE  p.buf = arg'[c].buf /\ (p.index = NoIndex \/ p.index = p.buf)
    BY <1>3, <1>4, <1>5, <1>8, <2>1, <2>2
  <2>3. \A i \in 1..Len(cq') : cq'[i].op # k
    BY <1>2, <1>8
  <2>4. QED BY <1>6, <2>2, <2>3 DEF Carries
<1>14. ASSUME NEW d \in Coros \ {c} PROVE Caller(d)' /\ Carries(d)'
  <2>1. CASE co'[d] \notin Transfers
    BY <2>1, CallerFree
  <2>2. CASE co'[d] \in Transfers
    <3>1. co'[d] = co[d] /\ co[d] \in Transfers /\ d \in Coros /\ d # c
      BY <1>6, <2>2
    <3>2. co[d] # k
      BY <1>1, <1>7, <3>1 DEF Core, Waiters, Kinds
    <3>3. Caller(d) /\ Carries(d)
      BY <3>1 DEF Callers
    <3>4. arg[d].buf # b /\ arg[d].buf \in Buffers
      <4>1. arg[d].buf \in BuffersOf(d)
        BY <3>1, <3>3 DEF Caller
      <4>2. BuffersOf(c) \cap BuffersOf(d) = {}
        BY <1>1, <3>1, Apart
      <4>3. QED BY <1>1, <3>1, <4>1, <4>2, BuffersOfFacts
    <3>5. mem'[arg[d].buf] = mem[arg[d].buf] /\ content <= content'
      BY <1>3, <1>9, <3>4
    <3>6. co[d] = "write" => writes' = writes
      BY <1>3, <3>2 DEF Transfers
    <3>7. xf'[co[d]] = xf[co[d]]
      BY <1>2, <3>1, <3>2
    <3>8. Left(d)
      BY <1>2, <1>3, <3>1, <3>5, <3>6, <3>7 DEF Left
    <3>9. /\ \A p \in Issued' : p.op = co[d] => p \in Issued
          /\ \A i \in 1..Len(cq') : cq'[i].op = co[d] => \E j \in 1..Len(cq) : cq[j] = cq'[i]
      BY <1>2, <1>4, <1>5, <3>2
    <3>10. QED BY <1>1, <2>2, <3>1, <3>3, <3>8, <3>9, CallerLeft
  <2>3. QED BY <2>1, <2>2
<1>15. QED BY <1>10, <1>11, <1>12, <1>13, <1>14 DEF Callers

\* A transfer returns: the number of a write that succeeded is in the file.
LEMMA DataReturn ==
    ASSUME Safe, Safe', Pool, Clean, Callers, Resume
    PROVE  Pool' /\ Clean' /\ Callers'
<1> DEFINE c == Head(handles)
<1>1. Types /\ Types' /\ LoopType /\ Core
  BY DEF Safe, Types
<1>2. /\ c \in Coros /\ co[c] \in Kinds /\ co'[c] = "idle"
      /\ \A d \in Coros \ {c} : co'[d] = co[d] /\ arg'[d] = arg[d]
      /\ UNCHANGED <<ids, avail, own, mem, writes, sq, held, cq, content>>
  BY <1>1, ResumeFacts
<1>3. Pool'
  BY <1>2 DEF Pool
<1>4. CASE co[c] = "open"
  <2>1. UNCHANGED <<xf, returned>>
    BY <1>4 DEF Resume, Transfers
  <2>2. UNCHANGED <<mem, returned, writes, content, xf, sq, held, cq>>
    BY <1>2, <2>1
  <2>3. \A d \in Coros : co'[d] \in Transfers =>
           co'[d] = co[d] /\ arg'[d] = arg[d] /\ own'[d] = own[d]
    BY <1>2 DEF Transfers
  <2>4. QED BY <1>1, <1>3, <2>2, <2>3, DataStill
<1>5. ASSUME NEW k \in Transfers, co[c] = k PROVE Pool' /\ Clean' /\ Callers'
  <2>1. /\ xf[k].done /\ xf[k].initiated
        /\ xf'[k] = ResetTransfer(xf[k]) /\ \A j \in Transfers \ {k} : xf'[j] = xf[j]
        /\ returned' = IF k = "write" /\ xf[k].res = Ok THEN arg[c].data ELSE returned
    BY <1>1, <1>5, ResumeTransferInv
  <2>2. \A d \in Coros \ {c} : co[d] # k
    BY <1>1, <1>2, <1>5 DEF Core, Frames
  <2> HIDE DEF c
  <2>3. content \in Nat /\ returned \in Nat /\ writes \in Nat /\ arg[c].data \in Nat
    BY <1>1, <1>2 DEF Types, DataType, Arg
  <2>4. returned' <= content'
    <3>1. k = "write" /\ xf[k].res = Ok => content >= arg[c].data
      BY <1>2, <1>5, <2>1 DEF Callers, Caller, Good
    <3>2. QED BY <1>2, <2>1, <2>3, <3>1 DEF Clean
  <2>5. Clean'
    <3>1. xf'[k].res # "EFAULT" /\ xf'[k].index = NoIndex
      BY <2>1, ResetFacts DEF Ok
    <3>2. \A j \in Transfers :
             xf'[j].res # "EFAULT" /\ (~xf'[j].initiated => xf'[j].index = NoIndex)
      BY <2>1, <3>1 DEF Clean
    <3>3. content' <= writes'
      BY <1>2 DEF Clean
    <3>4. QED BY <2>4, <3>2, <3>3 DEF Clean
  <2>6. Issued' = Issued
    BY <1>2 DEF Issued
  <2>7. ASSUME NEW d \in Coros PROVE Caller(d)' /\ Carries(d)'
    <3>1. CASE co'[d] \notin Transfers
      BY <3>1, CallerFree
    <3>2. CASE co'[d] \in Transfers
      <4>1. d # c /\ co'[d] = co[d] /\ arg'[d] = arg[d] /\ co[d] # k /\ co[d] \in Transfers
        BY <1>2, <2>2, <3>2 DEF Transfers
      <4>2. Left(d)
        BY <1>2, <2>1, <2>3, <4>1 DEF Left
      <4>3. Caller(d) /\ Carries(d)
        BY DEF Callers
      <4>4. /\ \A p \in Issued' : p.op = co[d] => p \in Issued
            /\ \A i \in 1..Len(cq') : cq'[i].op = co[d] => \E j \in 1..Len(cq) : cq[j] = cq'[i]
        BY <1>2, <2>6
      <4>5. QED BY <1>1, <3>2, <4>1, <4>2, <4>3, <4>4, CallerLeft
    <3>3. QED BY <3>1, <3>2
  <2>8. QED BY <1>3, <2>5, <2>7 DEF Callers
<1>6. QED BY <1>2, <1>4, <1>5 DEF Kinds

\* Who waits for an operation in flight.
LEMMA Waiter ==
    ASSUME Safe, ~Unwinding, NEW k \in Kinds, N(k) # 0
    PROVE  \E c \in Coros : co[c] = k
<1>1. Core /\ pc # "end"
  BY DEF Safe, Unwinding
<1>2. Act(k)
  BY <1>1 DEF Core, Flight, Bit
<1>3. H(k) # None /\ H(k) \in Coros /\ co[H(k)] = k
  BY <1>1, <1>2 DEF Core, Frames, Waiters
<1>4. QED BY <1>3

\* The completion of a transfer is processed: the frame says what the CQE said.
LEMMA DataReap ==
    ASSUME Safe, Safe', ~Unwinding, Pool, Clean, Callers, Reap
    PROVE  Pool' /\ Clean' /\ Callers'
<1> DEFINE e == Head(cq)
<1>1. Types /\ Types' /\ LoopType /\ Core /\ Parked
  BY DEF Safe, Types, Slotted
<1>2. /\ cq # <<>> /\ cq' = Tail(cq) /\ cq \in Seq(Cqe)
      /\ UNCHANGED <<ids, avail, own, mem, co, arg, returned, writes, sq, held, content>>
  BY <1>1 DEF Reap, LoopType, poolVars, coVars
<1>3. /\ e \in Cqe /\ 1 \in 1..Len(cq) /\ e = cq[1]
      /\ \A i \in 1..Len(cq') : \E j \in 1..Len(cq) : cq[j] = cq'[i]
  BY <1>2, TailEntries
<1>4. Pool' /\ Issued' = Issued
  BY <1>2 DEF Pool, Issued
<1>5. CASE e.op = "open"
  <2>1. UNCHANGED xf
    BY <1>1, <1>5, ReapOpenInv
  <2>2. \A k \in Transfers : /\ xf'[k].res = xf[k].res /\ xf'[k].done = xf[k].done
                             /\ xf'[k].initiated = xf[k].initiated
                             /\ xf[k].initiated \/ xf'[k].index = xf[k].index
    BY <2>1
  <2>3. /\ UNCHANGED <<mem, returned, writes, content>>
        /\ \A d \in Coros : co'[d] \in Transfers =>
              co'[d] = co[d] /\ arg'[d] = arg[d] /\ own'[d] = own[d]
        /\ \A i \in 1..Len(cq') : cq'[i].op \in Transfers => \E j \in 1..Len(cq) : cq[j] = cq'[i]
    BY <1>2, <1>3
  <2>4. QED BY <1>1, <1>4, <2>2, <2>3, DataQuiet
<1>6. ASSUME NEW k \in Transfers, e.op = k PROVE Pool' /\ Clean' /\ Callers'
  <2>1. /\ xf[k].initiated /\ ~xf[k].done
        /\ xf'[k].initiated /\ xf'[k].done /\ xf'[k].res = e.res
        /\ \A j \in Transfers \ {k} : xf'[j] = xf[j]
    BY <1>1, <1>6, ReapTransferInv
  <2>2. k \in Kinds /\ N(k) # 0
    <3>1. k \in Kinds /\ k # "open" /\ pc # "end"
      BY DEF Kinds, Transfers, Reap
    <3>2. QED BY <1>1, <2>1, <3>1 DEF Core, Flight, Act, Ini, Dn, Bit
  <2>3. PICK c \in Coros : co[c] = k
    BY <2>2, Waiter
  <2>4. e.res # "EFAULT" /\ (e.res = Ok => Good(c))
    BY <1>3, <1>6, <2>3 DEF Callers, Carries
  <2> HIDE DEF e
  <2>5. Clean'
    <3>1. \A j \in Transfers :
             xf'[j].res # "EFAULT" /\ (~xf'[j].initiated => xf'[j].index = NoIndex)
      BY <2>1, <2>4 DEF Clean
    <3>2. QED BY <1>2, <3>1 DEF Clean
  <2>6. ASSUME NEW d \in Coros PROVE Caller(d)' /\ Carries(d)'
    <3>1. Caller(d) /\ Carries(d)
      BY DEF Callers
    <3>2. Good(d)' = Good(d) /\ BuffersOf(d)' = BuffersOf(d)
      BY <1>2 DEF Good, BuffersOf
    <3>3. Carries(d)'
      <4>1. ASSUME NEW o \in Issued', o.op \in Transfers, o.op = co'[d]
            PROVE  o.buf = arg'[d].buf /\ (o.index = NoIndex \/ o.index = o.buf)
        BY <1>2, <1>4, <3>1, <4>1 DEF Carries
      <4>2. ASSUME NEW i \in 1..Len(cq'), cq'[i].op \in Transfers, cq'[i].op = co'[d]
            PROVE  cq'[i].res # "EFAULT" /\ (cq'[i].res = Ok => Good(d)')
        BY <1>2, <1>3, <3>1, <3>2, <4>2 DEF Carries
      <4>3. QED BY <4>1, <4>2 DEF Carries
    <3>4. xf'[co[d]].done /\ xf'[co[d]].res = Ok /\ co[d] \in Transfers => Good(d)
      <4>1. CASE co[d] = k
        <5>1. d = c
          BY <1>1, <2>2, <2>3, <4>1 DEF Core, Frames
        <5>2. QED BY <2>1, <2>4, <4>1, <5>1
      <4>2. CASE co[d] # k
        BY <2>1, <3>1, <4>2 DEF Caller
      <4>3. QED BY <4>1, <4>2
    <3>5. Caller(d)'
      BY <1>2, <3>1, <3>2, <3>4 DEF Caller
    <3>6. QED BY <3>3, <3>5
  <2>7. QED BY <1>4, <2>5, <2>6 DEF Callers
<1>7. QED BY <1>3, <1>5, <1>6 DEF Cqe, Kinds

\* The kernel takes an operation, or a cancel ends one with an error.
LEMMA DataTake ==
    ASSUME Safe, Safe', Pool, Clean, Callers, KernelTakes
    PROVE  Pool' /\ Clean' /\ Callers'
<1> DEFINE o == Head(sq)
<1>1. Types /\ Types' /\ Bufs
  BY DEF Safe
<1>2. /\ UNCHANGED <<xf, ids, avail, own, mem, co, arg, returned, writes, content>>
      /\ o \in Sqe
  BY <1>1, TakeFacts
<1>3. Issued' \subseteq Issued
  BY <1>1, BufsTake
<1>4. \/ cq' = cq
      \/ held[o.of] # None /\ Completed(o.of, "error")
  BY DEF KernelTakes, TakeCancel
<1>5. o.of \in Kinds
  BY <1>2 DEF Sqe
<1> HIDE DEF o
<1>6. \A i \in 1..Len(cq') : (\E j \in 1..Len(cq) : cq[j] = cq'[i]) \/ cq'[i].res = "error"
  <2>1. CASE cq' = cq
    BY <2>1
  <2>2. CASE held[o.of] # None /\ Completed(o.of, "error")
    <3>1. \A i \in 1..Len(cq') :
             \/ i \in 1..Len(cq) /\ cq'[i] = cq[i]
             \/ cq'[i].op = o.of /\ cq'[i].res = "error"
      BY <1>1, <1>5, <2>2, CompletedFacts
    <3>2. QED BY <3>1
  <2>3. QED BY <1>4, <2>1, <2>2
<1>7. Pool' /\ Clean'
  BY <1>2 DEF Pool, Clean
<1>8. ASSUME NEW d \in Coros PROVE Caller(d)' /\ Carries(d)'
  <2>1. Caller(d) /\ Carries(d)
    BY DEF Callers
  <2>2. Good(d)' = Good(d) /\ BuffersOf(d)' = BuffersOf(d)
    BY <1>2 DEF Good, BuffersOf
  <2>3. Caller(d)'
    BY <1>2, <2>1, <2>2 DEF Caller
  <2>4. ASSUME NEW p \in Issued', p.op \in Transfers, p.op = co'[d]
        PROVE  p.buf = arg'[d].buf /\ (p.index = NoIndex \/ p.index = p.buf)
    BY <1>2, <1>3, <2>1, <2>4 DEF Carries
  <2>5. ASSUME NEW i \in 1..Len(cq'), cq'[i].op \in Transfers, cq'[i].op = co'[d]
        PROVE  cq'[i].res # "EFAULT" /\ (cq'[i].res = Ok => Good(d)')
    <3>1. CASE cq'[i].res = "error"
      BY <3>1 DEF Ok
    <3>2. CASE \E j \in 1..Len(cq) : cq[j] = cq'[i]
      BY <1>2, <2>1, <2>2, <2>5, <3>2 DEF Carries
    <3>3. QED BY <1>6, <3>1, <3>2
  <2>6. QED BY <2>3, <2>4, <2>5 DEF Carries
<1>9. QED BY <1>7, <1>8 DEF Callers

\* What the kernel does with the caller's memory.
LEMMA KernelMoves ==
    ASSUME Safe, ~Unwinding, Pool, Clean, Callers, NEW k \in Transfers, KernelCompletes(k),
           NEW c \in Coros, co[c] = k
    PROVE  \E res \in {Ok, "error"} :
              /\ Completed(k, res)
              /\ res = Ok /\ k = "write" => content' = writes /\ UNCHANGED mem
              /\ res = Ok /\ k = "read" =>
                    mem' = [mem EXCEPT ![arg[c].buf] = content] /\ UNCHANGED content
              /\ res # Ok => UNCHANGED <<mem, content>>
<1> DEFINE o == held[k]
<1>1. Types /\ Bufs /\ held[k] # None /\ k \in Kinds /\ k # "open"
  BY DEF Safe, KernelCompletes, Kinds, Transfers
<1>2. o \in Issued /\ o.op = k
  <2>1. o \in Sqe
    BY <1>1 DEF Types, LoopType
  <2>2. QED BY <1>1, <2>1 DEF Issued, Bufs
<1>3. o.buf = arg[c].buf /\ Addressable(o)
  BY <1>2 DEF Callers, Carries, Addressable
<1>4. k = "write" => mem[arg[c].buf] = writes
  BY DEF Callers, Caller
<1>5. KernelTransfers(k)
  BY <1>1 DEF KernelCompletes
<1>6. \/ /\ Completed(k, Ok)
         /\ IF k = "write" THEN content' = mem[o.buf] /\ mem' = mem
            ELSE mem' = [mem EXCEPT ![o.buf] = content] /\ content' = content
      \/ Completed(k, "error") /\ UNCHANGED <<mem, content>>
  BY <1>3, <1>5 DEF KernelTransfers
<1> HIDE DEF o
<1>7. QED BY <1>3, <1>4, <1>6 DEF Ok, Transfers

\* A transfer completes: the file or the caller's memory is as new as it must be,
\* and nobody else's memory is touched.
LEMMA DataComplete ==
    ASSUME Safe, Safe', ~Unwinding, Pool, Clean, Callers, NEW k \in Transfers, KernelCompletes(k)
    PROVE  Pool' /\ Clean' /\ Callers'
<1>1. Types /\ Types' /\ Bufs /\ Core /\ k \in Kinds
  BY DEF Safe, Kinds
<1>2. /\ UNCHANGED <<xf, ids, avail, own, co, arg, returned, writes, sq>>
      /\ held[k] # None /\ pc = "submit"
  BY <1>1, KernelCompletesFacts
<1>3. N(k) = 1
  <2>1. N(k) = Bit(Act(k)) /\ OfOp(sq, k) \in Nat /\ OfOp(cq, k) \in Nat
    BY <1>1, <1>2, NatFacts DEF Core, Flight, Types
  <2>2. N(k) # 0
    BY <1>2, <2>1 DEF N, Bit
  <2>3. QED BY <2>1, <2>2 DEF Bit
<1>4. PICK c \in Coros : co[c] = k
  BY <1>1, <1>3, Waiter
<1>5. PICK res \in {Ok, "error"} :
         /\ Completed(k, res)
         /\ res = Ok /\ k = "write" => content' = writes /\ UNCHANGED mem
         /\ res = Ok /\ k = "read" =>
               mem' = [mem EXCEPT ![arg[c].buf] = content] /\ UNCHANGED content
         /\ res # Ok => UNCHANGED <<mem, content>>
  BY <1>4, KernelMoves
<1>6. \A i \in 1..Len(cq') : \/ i \in 1..Len(cq) /\ cq'[i] = cq[i]
                             \/ cq'[i].op = k /\ cq'[i].res = res
  BY <1>1, <1>2, <1>5, CompletedFacts
<1>7. Issued' \subseteq Issued
  BY <1>1, <1>2, <1>5, IssuedCompleted
<1>8. \A i \in 1..Len(cq) : cq[i].op # k
  BY <1>1, <1>2, <1>3, NoneIssued
<1>9. /\ content \in Nat /\ writes \in Nat /\ returned \in Nat /\ arg[c].data \in Nat
      /\ mem \in [Buffers -> 0..MaxWrites]
  BY <1>1 DEF Types, DataType, Arg
<1>10. arg[c].buf \in BuffersOf(c) /\ arg[c].buf \in Buffers
  BY <1>1, <1>4, BuffersOfFacts DEF Callers, Caller
<1>11. content <= content' /\ content' <= writes
  BY <1>5, <1>9 DEF Clean, Transfers
<1>12. Pool' /\ Clean'
  <2>1. Pool'
    BY <1>2 DEF Pool
  <2>2. content' \in Nat
    BY <1>1 DEF Types, DataType
  <2>3. returned' <= content'
    BY <1>2, <1>9, <1>11, <2>2 DEF Clean
  <2>4. QED BY <1>2, <1>11, <2>1, <2>3 DEF Clean
<1>13. res = Ok => Good(c)'
  <2>1. CASE k = "write"
    BY <1>2, <1>4, <1>5, <1>9, <2>1 DEF Good, Callers, Caller
  <2>2. CASE k = "read"
    <3>1. arg[c].data <= content
      BY <1>4, <2>2 DEF Callers, Caller
    <3>2. res = Ok => mem'[arg[c].buf] = content
      BY <1>5, <1>9, <1>10, <2>2
    <3>3. QED BY <1>2, <1>4, <1>9, <2>2, <3>1, <3>2 DEF Good
  <2>3. QED BY <2>1, <2>2 DEF Transfers
<1>14. Caller(c)' /\ Carries(c)'
  <2>1. BuffersOf(c)' = BuffersOf(c)
    BY <1>2 DEF BuffersOf
  <2>2. ~xf[k].done
    BY <1>1, <1>2, <1>3 DEF Core, Flight, Act, Ini, Dn, Bit, Transfers
  <2>3. k = "write" => arg[c].data = writes /\ mem'[arg[c].buf] = writes
    BY <1>4, <1>5 DEF Callers, Caller
  <2>4. k = "read" => arg[c].data <= content'
    BY <1>4, <1>5 DEF Callers, Caller
  <2>5. Caller(c)'
    BY <1>2, <1>4, <1>10, <2>1, <2>2, <2>3, <2>4 DEF Caller
  <2>6. ASSUME NEW p \in Issued', p.op \in Transfers, p.op = co'[c]
        PROVE  p.buf = arg'[c].buf /\ (p.index = NoIndex \/ p.index = p.buf)
    BY <1>2, <1>7, <2>6 DEF Callers, Carries
  <2>7. ASSUME NEW i \in 1..Len(cq'), cq'[i].op \in Transfers, cq'[i].op = co'[c]
        PROVE  cq'[i].res # "EFAULT" /\ (cq'[i].res = Ok => Good(c)')
    <3>1. cq'[i].res = res
      BY <1>2, <1>4, <1>6, <1>8, <2>7
    <3>2. res # "EFAULT"
      BY <1>5 DEF Ok
    <3>3. QED BY <1>13, <3>1, <3>2
  <2>8. QED BY <2>5, <2>6, <2>7 DEF Carries
<1>15. ASSUME NEW d \in Coros \ {c} PROVE Caller(d)' /\ Carries(d)'
  <2>1. CASE co'[d] \notin Transfers
    BY <2>1, CallerFree
  <2>2. CASE co'[d] \in Transfers
    <3>1. co'[d] = co[d] /\ d \in Coros /\ d # c /\ co[d] \in Transfers
      BY <1>2, <2>2
    <3>2. co[d] # k
      BY <1>1, <1>4, <3>1 DEF Core, Frames
    <3>3. Caller(d) /\ Carries(d)
      BY <3>1 DEF Callers
    <3>4. arg[d].buf # arg[c].buf /\ arg[d].buf \in Buffers
      <4>1. arg[d].buf \in BuffersOf(d)
        BY <3>1, <3>3 DEF Caller
      <4>2. arg[d].buf \in Buffers
        BY <1>1, <3>1, <4>1, BuffersOfFacts
      <4>3. QED BY <1>1, <1>10, <3>1, <4>1, <4>2, Apart
    <3>5. mem'[arg[d].buf] = mem[arg[d].buf]
      BY <1>5, <1>9, <3>4 DEF Transfers
    <3>6. Left(d)
      BY <1>2, <1>11, <3>1, <3>5 DEF Left
    <3>7. /\ \A p \in Issued' : p.op = co[d] => p \in Issued
          /\ \A i \in 1..Len(cq') : cq'[i].op = co[d] => \E j \in 1..Len(cq) : cq[j] = cq'[i]
      BY <1>6, <1>7, <3>2
    <3>8. QED BY <1>1, <2>2, <3>1, <3>3, <3>6, <3>7, CallerLeft
  <2>3. QED BY <2>1, <2>2
<1>16. QED BY <1>12, <1>14, <1>15 DEF Callers

\* The open completes.
LEMMA DataOpened ==
    ASSUME Safe, Safe', Pool, Clean, Callers, KernelCompletes("open")
    PROVE  Pool' /\ Clean' /\ Callers'
<1>1. Types /\ Types' /\ Bufs /\ "open" \in Kinds
  BY KindsFacts DEF Safe
<1>2. /\ UNCHANGED <<xf, ids, avail, own, co, arg, returned, writes, sq>>
      /\ held["open"] # None
  BY <1>1, KernelCompletesFacts
<1>3. UNCHANGED <<mem, content>>
  BY DEF KernelCompletes, KernelOpens
<1>4. PICK res \in {Ok, "error", "EFAULT"} : Completed("open", res)
  BY <1>1, KernelCompletesFacts
<1>5. \A i \in 1..Len(cq') : cq'[i].op \in Transfers => \E j \in 1..Len(cq) : cq[j] = cq'[i]
  <2>1. \A i \in 1..Len(cq') : \/ i \in 1..Len(cq) /\ cq'[i] = cq[i]
                               \/ cq'[i].op = "open"
    BY <1>1, <1>2, <1>4, CompletedFacts
  <2>2. QED BY <2>1 DEF Transfers
<1>6. Issued' \subseteq Issued
  BY <1>1, <1>2, <1>4, IssuedCompleted
<1>7. Pool'
  BY <1>2 DEF Pool
<1>8. /\ UNCHANGED <<mem, returned, writes, content>>
      /\ \A d \in Coros : co'[d] \in Transfers =>
            co'[d] = co[d] /\ arg'[d] = arg[d] /\ own'[d] = own[d]
      /\ \A j \in Transfers : /\ xf'[j].res = xf[j].res /\ xf'[j].done = xf[j].done
                              /\ xf'[j].initiated = xf[j].initiated
                              /\ xf[j].initiated \/ xf'[j].index = xf[j].index
  BY <1>2, <1>3
<1>9. \A o \in Issued' : o.op \in Transfers => o \in Issued
  BY <1>6
<1>10. QED BY <1>1, <1>5, <1>7, <1>8, <1>9, DataQuiet

\* Initially the pool is full and the file is empty.
LEMMA InitData == Init => Data
<1> SUFFICES ASSUME Init PROVE Pool /\ Clean /\ Callers
  BY DEF Data
<1>1. Pool
  BY DEF Init, InitPool, Pool
<1>2. Clean
  BY DEF Init, Clean, NewTransfer, Ok, Transfers
<1>3. \A c \in Coros : co[c] \notin Transfers
  BY DEF Init, Transfers
<1>4. Callers
  BY <1>3 DEF Callers, Caller, Carries
<1>5. QED BY <1>1, <1>2, <1>4

\* Every step keeps the data.
LEMMA NextData ==
    ASSUME Safe, Safe', Data, Next \/ UNCHANGED vars
    PROVE  Data'
<1>1. SUFFICES ASSUME ~Unwinding' PROVE Pool' /\ Clean' /\ Callers'
  BY DEF Data
<1>2. ~Unwinding
  BY <1>1, StillUnwinding
<1>3. Pool /\ Clean /\ Callers
  BY <1>2 DEF Data
<1>4. CASE UserStep
  <2>1. CASE \E c \in Coros : AsyncOpen(c) \/ GetAvailBuf(c) \/ DropBuf(c) \/ LetGo(c)
    BY <1>3, <2>1, DataElsewhere
  <2>2. ASSUME NEW c \in Coros, NEW k \in Transfers, NEW b \in BuffersOf(c),
               AsyncTransfer(c, k, b) \/ TransferBusy(c, k, b)
        PROVE  Pool' /\ Clean' /\ Callers'
    BY <1>2, <1>3, <2>2, DataTransfer, DataBusy
  <2>3. CASE \E s \in Slots : Other(s)
    BY <1>3, <2>3, DataElsewhere
  <2>4. QED BY <1>4, <2>1, <2>2, <2>3 DEF UserStep
<1>5. CASE SubmitAndWait \/ SubmitFull \/ SubmitDone \/ ReapDone \/ Destruct
  BY <1>3, <1>5, DataElsewhere
<1>6. CASE Resume
  BY <1>3, <1>6, DataReturn
<1>7. CASE Reap
  BY <1>2, <1>3, <1>7, DataReap
<1>8. CASE KernelTakes
  BY <1>3, <1>8, DataTake
<1>9. CASE \E k \in Kinds : KernelCompletes(k)
  <2>1. PICK k \in Kinds : KernelCompletes(k)
    BY <1>9
  <2>2. CASE k = "open"
    BY <1>3, <2>1, <2>2, DataOpened
  <2>3. CASE k \in Transfers
    BY <1>2, <1>3, <2>1, <2>3, DataComplete
  <2>4. QED BY <2>2, <2>3 DEF Kinds
<1>10. CASE Flush \/ Abort \/ \E c \in Coros : DestroyCoro(c)
  <2>1. Unwinding'
    <3>1. CASE Flush \/ Abort
      BY <3>1 DEF Flush, Abort, Unwinding
    <3>2. CASE \E c \in Coros : DestroyCoro(c)
      BY <3>2, DestroyCoroInv DEF Safe
    <3>3. QED BY <1>10, <3>1, <3>2
  <2>2. QED BY <1>1, <2>1
<1>11. CASE UNCHANGED vars
  <2>1. /\ UNCHANGED <<mem, returned, writes, content, xf, sq, held, cq>>
        /\ UNCHANGED <<co, arg, own, ids, avail>>
    BY <1>11 DEF vars, frameVars, poolVars, coVars, kernVars
  <2>2. Pool' /\ \A d \in Coros : co'[d] \in Transfers =>
           co'[d] = co[d] /\ arg'[d] = arg[d] /\ own'[d] = own[d]
    BY <1>3, <2>1 DEF Pool
  <2>3. QED BY <1>3, <2>1, <2>2, DataStill DEF Safe
<1>12. QED BY <1>4, <1>5, <1>6, <1>7, <1>8, <1>9, <1>10, <1>11 DEF Next, LoopStep

\* What a transfer that succeeded tells its caller is true, although callers that
\* are turned away change its frame: the file is as new as the write, the buffer
\* of the read as new as what had been written before it began, and no registered
\* buffer is addressed through the index of another.
THEOREM TransfersAreTheCallersHold ==
    ASSUME Uses = {}
    PROVE  Spec => []TransfersAreTheCallers
<1>1. Safe /\ Data => TransfersAreTheCallers
  <2>1. SUFFICES ASSUME Safe, Data, NEW c \in Coros, ~Unwinding, co[c] \in Transfers
                 PROVE  /\ xf[co[c]].res # "EFAULT"
                        /\ xf[co[c]].done /\ xf[co[c]].res = Ok => Good(c)
    BY DEF TransfersAreTheCallers, Good
  <2>2. QED BY <2>1 DEF Data, Clean, Callers, Caller
<1>2. Init => Data
  BY InitData
<1>3. Safe /\ Safe' /\ Data /\ [Next]_vars => Data'
  BY NextData
<1>4. QED BY <1>1, <1>2, <1>3, Inductive, PTL DEF Spec
=============================================================================

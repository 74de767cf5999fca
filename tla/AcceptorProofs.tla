--------------------------- MODULE AcceptorProofs ---------------------------
(***************************************************************************)
(* Proofs about fiona::tcp::acceptor, for any finite set of coroutines     *)
(* that share it, any file table and any number of accepts.                *)
(***************************************************************************)
EXTENDS Acceptor, Counting

-----------------------------------------------------------------------------
(* The inductive invariant.                                                *)

\* run() is being left.
Leaving == back \in {"clear", "abort"}

\* Completions are dropped, no longer processed.
Dropping == pc \in {"flush", "end"}

Ops == {"accept", "cancel", "close"}

\* The frame of the operation waits for its completion.
Active(op) ==
    \/ op = "accept" /\ MustCancel
    \/ op = "cancel" /\ cnf.initiated /\ ~cnf.done
    \/ op = "close" /\ clf.initiated /\ ~clf.done

\* InFlight in terms of the counts the lemmas are about.
Fl(op) == ((OfOp(sq, op) + OfOp(work, op)) + OfOp(cq, op))
          + Bit(op = "accept" /\ acc # NoAccept)

Control ==
    /\ pc \in {"abort", "flush", "end"} => Leaving
    /\ Leaving => pc \in {"submit", "abort", "flush", "end"}
    /\ pc \in {"reap", "abort", "flush", "end"} => sq = <<>>
    /\ pc \in {"flush", "end"} => \A c \in Coros : co[c] = "gone"
    /\ pc = "end" => cq = <<>>

Alive == {"idle", "accepting", "cancelling", "closing"}
Busy  == {"accepting", "cancelling", "closing"}

\* RefCountExact in terms of these counts.
Exact ==
    refs = (Pop(co, Coros, Alive) + Pop(co, Coros, Busy))
           + ((Fl("accept") + Fl("cancel")) + Fl("close"))

\* What the three frames say, and that no two coroutines share one.
Frames ==
    /\ (af.done => af.initiated) /\ (af.h # None <=> Active("accept"))
    /\ (cnf.done => cnf.initiated) /\ (cnf.h # None <=> Active("cancel"))
    /\ (clf.done => clf.initiated) /\ (clf.h # None <=> Active("close"))
    /\ MustCancel => af.peer \in Slots
    /\ af.peer # NoFd => af.initiated
    /\ \A c, d \in Coros : co[c] = co[d] /\ co[c] \in Busy => c = d

\* A frame has one operation in flight or none, as it says.
Flight == ~Dropping => \A op \in Ops : Fl(op) = Bit(Active(op))

\* The accept in flight, wherever it is, is that of the frame.
Ids ==
    /\ \A i \in 1..Len(sq) : sq[i].op = "accept" =>
          sq[i].n = af.n /\ sq[i].slot = af.peer
    /\ acc # NoAccept => acc.n = af.n /\ acc.slot = af.peer /\ af.peer \in Slots
    /\ \A i \in 1..Len(cq) : cq[i].op = "accept" => cq[i].n = af.n

Ready(c) == \/ co[c] = "accepting" /\ af.done
            \/ co[c] = "cancelling" /\ cnf.done
            \/ co[c] = "closing" /\ clf.done

\* Who waits is in the frame, or its handle has been collected once.
Waiters ==
    ~Leaving =>
      /\ af.h # None => co[af.h] = "accepting"
      /\ cnf.h # None => co[cnf.h] = "cancelling"
      /\ clf.h # None => co[clf.h] = "closing"
      /\ \A c \in Coros :
            /\ co[c] = "accepting" => af.initiated
            /\ co[c] = "cancelling" => cnf.initiated
            /\ co[c] = "closing" => clf.initiated
            /\ Times(handles, c) = Bit(Ready(c))

\* While run() is being left the accept goes with the coroutine that waits for
\* it: as soon as none waits, a cancel is queued for what the kernel holds.
Leave ==
    Leaving => \/ \E c \in Coros : co[c] = "accepting"
               \/ /\ OfOp(sq, "accept") = 0
                  /\ acc # NoAccept => OfOp(sq, "cancelAccept") > 0

Core == /\ TypeOK /\ Control /\ Exact /\ Frames /\ Flight /\ Ids /\ Waiters
        /\ Leave

\* A close in flight, before and after the kernel got to it, is of the slot the
\* acceptor owns.
Closing ==
    /\ \A i \in 1..Len(sq) : sq[i].op = "close" => sq[i].on = fd /\ fd \in Slots
    /\ \A i \in 1..Len(work) :
          work[i].op = "close" /\ work[i].on = fd /\ fd \in Slots
    /\ \A i \in 1..Len(cq) : cq[i].op = "close" =>
          fd \in Slots /\ file[fd] = "empty"

\* The reserved slot is empty until the kernel has put a connection in it.
Reserved ==
    af.peer # NoFd =>
      /\ \A i \in 1..Len(sq) : sq[i].op = "accept" => file[af.peer] = "empty"
      /\ acc # NoAccept => file[af.peer] = "empty"
      /\ \A i \in 1..Len(cq) : cq[i].op = "accept" =>
            file[af.peer] = IF cq[i].res = Ok THEN "peer" ELSE "empty"
      /\ af.done => file[af.peer] = "peer"

Owners == SlotsPartition /\ Closing /\ Reserved

IInv == Core /\ Owners

-----------------------------------------------------------------------------
(* Facts used by several actions.                                          *)

\* The queues of the acceptor obey the laws of counting.
LEMMA Laws ==
    /\ OpLaws(Sqe) /\ OpLaws(Cqe) /\ TimesLaws(Coros)
    /\ \A f, S : Pop(f, Coros, S) \in Nat
BY OfOpFacts, TimesFacts, PopNat, AcceptorAssumption

\* The counts are numbers.
LEMMA Numbers ==
    ASSUME TypeOK
    PROVE  /\ \A op : /\ OfOp(sq, op) \in Nat /\ OfOp(work, op) \in Nat
                      /\ OfOp(cq, op) \in Nat
           /\ \A op : Fl(op) \in Nat
           /\ \A c : Times(handles, c) \in Nat
           /\ \A f, S : Pop(f, Coros, S) \in Nat
<1>1. \A op : /\ OfOp(sq, op) \in Nat /\ OfOp(work, op) \in Nat
              /\ OfOp(cq, op) \in Nat
  BY Laws DEF TypeOK, OpLaws
<1>2. \A op : Fl(op) \in Nat
  BY <1>1 DEF Fl, Bit
<1>3. QED BY <1>1, <1>2, Laws DEF TypeOK, TimesLaws

\* The types of the records that are queued and of the frames.
LEMMA SqeFacts ==
    ASSUME TypeOK,
           NEW op \in {"accept", "cancelAccept", "cancel", "sever", "close"},
           NEW s \in Slots \cup {NoFd}, NEW n \in 0..MaxAccepts
    PROVE  /\ Op(op, s, n) \in Sqe /\ Op(op, s, n).op = op
           /\ Op(op, s, n).on = fd /\ Op(op, s, n).slot = s
           /\ Op(op, s, n).n = n
BY DEF TypeOK, Op, Sqe

\* The two operations of a close.
LEMMA CloseFacts ==
    ASSUME TypeOK
    PROVE  /\ Op("close", NoFd, 0) \in Sqe /\ Op("close", NoFd, 0).op = "close"
           /\ Op("close", NoFd, 0).on = fd
           /\ Op("sever", NoFd, 0) \in Sqe /\ Op("sever", NoFd, 0).op = "sever"
<1>1. 0 \in 0..MaxAccepts
  BY AcceptorAssumption
<1>2. QED BY <1>1, SqeFacts

\* The types of completions.
LEMMA CqeFacts ==
    ASSUME NEW op \in Ops, NEW r \in Errors \cup {Ok}, NEW n \in 0..MaxAccepts
    PROVE  /\ Done(op, r, n) \in Cqe /\ Done(op, r, n).op = op
           /\ Done(op, r, n).res = r /\ Done(op, r, n).n = n
BY DEF Ops, Done, Cqe

\* Zero is a number of an accept, -1 a descriptor.
LEMMA Zero ==
    /\ 0 \in 0..MaxAccepts /\ NoFd \in Slots \cup {NoFd}
    /\ \A n \in 0..MaxAccepts : n < MaxAccepts => n + 1 \in 0..MaxAccepts
BY AcceptorAssumption

\* A coroutine that changes its state.
LEMMA OneMoves ==
    ASSUME NEW c \in Coros, \A d \in Coros \ {c} : co'[d] = co[d]
    PROVE  /\ Pop(co', Coros, Alive) + Bit(co[c] \in Alive)
                 = Pop(co, Coros, Alive) + Bit(co'[c] \in Alive)
           /\ Pop(co', Coros, Busy) + Bit(co[c] \in Busy)
                 = Pop(co, Coros, Busy) + Bit(co'[c] \in Busy)
<1>1. IsFiniteSet(Coros)
  BY AcceptorAssumption
<1>2. ASSUME NEW S
      PROVE  Pop(co', Coros, S) + Bit(co[c] \in S)
                = Pop(co, Coros, S) + Bit(co'[c] \in S)
  BY <1>1, PopChange DEF Bit
<1>3. QED BY <1>2

\* A sum of numbers is zero when all of them are.
LEMMA SumZero ==
    ASSUME NEW a \in Nat, NEW b \in Nat, NEW c \in Nat, NEW d \in Nat,
           ((a + b) + c) + d = 0
    PROVE  a = 0 /\ b = 0 /\ c = 0 /\ d = 0
OBVIOUS

\* Nothing of an operation is queued anywhere when nothing of it is in flight.
LEMMA NoneInFlight ==
    ASSUME TypeOK, NEW op \in Ops, Fl(op) = 0
    PROVE  /\ \A i \in 1..Len(sq) : sq[i].op # op
           /\ \A i \in 1..Len(work) : work[i].op # op
           /\ \A i \in 1..Len(cq) : cq[i].op # op
           /\ op = "accept" => acc = NoAccept
           /\ OfOp(sq, op) = 0
<1>1. /\ OfOp(sq, op) \in Nat /\ OfOp(work, op) \in Nat /\ OfOp(cq, op) \in Nat
  BY Numbers
<1>2. /\ OfOp(sq, op) = 0 /\ OfOp(work, op) = 0 /\ OfOp(cq, op) = 0
      /\ op = "accept" => acc = NoAccept
  <2> DEFINE b == Bit(op = "accept" /\ acc # NoAccept)
  <2>1. b \in {0, 1} /\ (b = 0 <=> ~(op = "accept" /\ acc # NoAccept))
    BY DEF Bit
  <2>2. ((OfOp(sq, op) + OfOp(work, op)) + OfOp(cq, op)) + b = 0
    BY DEF Fl
  <2> HIDE DEF b
  <2>3. /\ OfOp(sq, op) = 0 /\ OfOp(work, op) = 0 /\ OfOp(cq, op) = 0 /\ b = 0
    <3> DEFINE x == OfOp(sq, op)
               y == OfOp(work, op)
               z == OfOp(cq, op)
    <3>1. x \in Nat /\ y \in Nat /\ z \in Nat /\ b \in Nat /\ ((x + y) + z) + b = 0
      BY <1>1, <2>1, <2>2
    <3> HIDE DEF x, y, z
    <3>2. x = 0 /\ y = 0 /\ z = 0 /\ b = 0
      BY <3>1, SumZero
    <3>3. QED BY <3>2 DEF x, y, z
  <2>4. QED BY <2>1, <2>3
<1>3. \A i \in 1..Len(sq) : sq[i].op # op
  BY <1>2, Laws DEF TypeOK, OpLaws
<1>4. \A i \in 1..Len(work) : work[i].op # op
  BY <1>2, Laws DEF TypeOK, OpLaws
<1>5. \A i \in 1..Len(cq) : cq[i].op # op
  BY <1>2, Laws DEF TypeOK, OpLaws
<1>6. QED BY <1>2, <1>3, <1>4, <1>5

\* A queued operation is in flight.
LEMMA SomeInFlight ==
    ASSUME TypeOK, NEW op \in Ops,
           \/ \E i \in 1..Len(sq) : sq[i].op = op
           \/ \E i \in 1..Len(work) : work[i].op = op
           \/ \E i \in 1..Len(cq) : cq[i].op = op
           \/ op = "accept" /\ acc # NoAccept
    PROVE  Fl(op) > 0
<1>1. Fl(op) \in Nat
  BY Numbers
<1>2. Fl(op) # 0
  BY NoneInFlight
<1>3. QED BY <1>1, <1>2

\* Then its frame is active.
LEMMA InFlightActive ==
    ASSUME Core, ~Dropping, NEW op \in Ops, Fl(op) > 0
    PROVE  Active(op) /\ Fl(op) = 1
BY DEF Core, Flight, Bit

\* Exact is what RefCountExact says.
LEMMA ExactIsRefCount ==
    ASSUME TypeOK, Exact
    PROVE  RefCountExact
<1>1. {c \in Coros : co[c] # "gone"} = {c \in Coros : co[c] \in Alive}
  BY DEF TypeOK, Alive
<1>2. {c \in Coros : co[c] \notin {"idle", "gone"}} = {c \in Coros : co[c] \in Busy}
  BY DEF TypeOK, Busy
<1>3. /\ Cardinality({c \in Coros : co[c] # "gone"}) = Pop(co, Coros, Alive)
      /\ Cardinality({c \in Coros : co[c] \notin {"idle", "gone"}})
            = Pop(co, Coros, Busy)
  BY <1>1, <1>2 DEF Pop
<1>4. ASSUME NEW op PROVE InFlight(op) = Fl(op)
  <2>1. /\ Queued(sq, op) = OfOp(sq, op) /\ Queued(work, op) = OfOp(work, op)
        /\ Queued(cq, op) = OfOp(cq, op)
    BY DEF Queued, OfOp
  <2>2. QED BY <2>1 DEF InFlight, Fl, One, Bit
<1>5. /\ Fl("accept") \in Nat /\ Fl("cancel") \in Nat /\ Fl("close") \in Nat
      /\ Pop(co, Coros, Alive) \in Nat /\ Pop(co, Coros, Busy) \in Nat
  BY Numbers
<1>6. QED BY <1>3, <1>4, <1>5 DEF Exact, RefCountExact

\* The acceptor as its constructor leaves it.
LEMMA InitIInv == Init => IInv
<1> SUFFICES ASSUME Init PROVE IInv
  OBVIOUS
<1>1. TypeOK
  <2>1. Cardinality(Coros) \in Nat /\ 0 \in 0..MaxAccepts
    BY AcceptorAssumption, FS_CardinalityType
  <2>2. /\ AcceptReset \in [h : Coros \cup {None}, peer : Slots \cup {NoFd},
               initiated : BOOLEAN, done : BOOLEAN, n : 0..MaxAccepts]
        /\ NoAccept \in [n : 0..MaxAccepts, slot : Slots \cup {NoFd},
                         on : Slots \cup {NoFd}]
    BY <2>1 DEF AcceptReset, NoAccept
  <2>3. {CancelReset, CloseReset} \subseteq
            [h : Coros \cup {None}, initiated : BOOLEAN, done : BOOLEAN]
    BY DEF CancelReset, CloseReset
  <2>4. file \in [Slots -> {"empty", "listen", "peer"}]
    BY DEF Init
  <2>5. QED BY <2>1, <2>2, <2>3, <2>4 DEF Init, TypeOK
<1>2. /\ af.h = None /\ ~af.initiated /\ ~af.done /\ af.peer = NoFd
      /\ cnf.h = None /\ ~cnf.initiated /\ ~cnf.done
      /\ clf.h = None /\ ~clf.initiated /\ ~clf.done
      /\ \A c \in Coros : co[c] = "idle"
      /\ ~Leaving /\ ~MustCancel /\ \A op : ~Active(op)
  BY DEF Init, AcceptReset, CancelReset, CloseReset, Leaving, MustCancel, Active
<1>3. \A op : Fl(op) = 0
  <2>1. \A op : OfOp(<<>>, op) = 0
    BY Laws DEF OpLaws
  <2>2. QED BY <2>1 DEF Init, Fl, Bit
<1>4. Exact
  <2>1. \A c \in Coros : co[c] \in Alive /\ co[c] \notin Busy
    BY <1>2 DEF Alive, Busy
  <2>2. Pop(co, Coros, Alive) = Cardinality(Coros) /\ Pop(co, Coros, Busy) = 0
    BY <2>1, PopZero, AcceptorAssumption
  <2>3. Cardinality(Coros) \in Nat
    BY AcceptorAssumption, FS_CardinalityType
  <2>4. QED BY <1>3, <2>2, <2>3 DEF Init, Exact
<1>5. Control /\ Leave
  BY <1>2 DEF Init, Control, Leave, Leaving
<1>6. Frames
  BY <1>2 DEF Frames, Busy
<1>7. Flight
  BY <1>2, <1>3 DEF Flight, Bit
<1>8. Ids
  BY DEF Init, Ids
<1>9. Waiters
  BY <1>2, Laws DEF Init, Waiters, Ready, TimesLaws, Bit
<1>10. Owners
  <2>1. SlotsPartition
    BY <1>2, AcceptorAssumption DEF Init, SlotsPartition
  <2>2. Closing /\ Reserved
    BY <1>2 DEF Init, Closing, Reserved
  <2>3. QED BY <2>1, <2>2 DEF Owners
<1>11. QED BY <1>1, <1>4, <1>5, <1>6, <1>7, <1>8, <1>9, <1>10 DEF IInv, Core

-----------------------------------------------------------------------------
(* Operations that are started.                                            *)

\* An operation is queued.
LEMMA QueueGrows ==
    ASSUME TypeOK, NEW e \in Sqe, sq' = Append(sq, e), UNCHANGED <<work, cq, acc>>
    PROVE  /\ sq' \in Seq(Sqe)
           /\ \A op : OfOp(sq', op) = OfOp(sq, op) + Bit(e.op = op)
           /\ \A op : Fl(op)' = Fl(op) + Bit(e.op = op)
           /\ \A i \in 1..Len(sq') :
                 (i \in 1..Len(sq) /\ sq'[i] = sq[i]) \/ sq'[i] = e
<1>1. sq \in Seq(Sqe)
  BY DEF TypeOK
<1>2. /\ sq' \in Seq(Sqe)
      /\ \A i \in 1..Len(sq') :
            (i \in 1..Len(sq) /\ sq'[i] = sq[i]) \/ sq'[i] = e
  BY <1>1, Entries
<1>3. \A op : OfOp(sq', op) = OfOp(sq, op) + Bit(e.op = op)
  BY <1>1, Laws DEF OpLaws
<1>4. ASSUME NEW op PROVE Fl(op)' = Fl(op) + Bit(e.op = op)
  <2>1. /\ OfOp(sq, op) \in Nat /\ OfOp(work, op) \in Nat /\ OfOp(cq, op) \in Nat
    BY Numbers
  <2>2. Fl(op)' = ((OfOp(sq', op) + OfOp(work, op)) + OfOp(cq, op))
                  + Bit(op = "accept" /\ acc # NoAccept)
    BY DEF Fl
  <2>3. OfOp(sq', op) = OfOp(sq, op) + Bit(e.op = op)
    BY <1>3
  <2>4. QED BY <2>1, <2>2, <2>3 DEF Fl, Bit
<1>5. QED BY <1>2, <1>3, <1>4

\* A linked pair is queued.
LEMMA QueueGrowsTwo ==
    ASSUME TypeOK, NEW d \in Sqe, NEW e \in Sqe, sq' = sq \o <<d, e>>,
           UNCHANGED <<work, cq, acc>>
    PROVE  /\ sq' \in Seq(Sqe)
           /\ \A op : Fl(op)' = (Fl(op) + Bit(d.op = op)) + Bit(e.op = op)
           /\ \A i \in 1..Len(sq') :
                 \/ i \in 1..Len(sq) /\ sq'[i] = sq[i]
                 \/ sq'[i] = d \/ sq'[i] = e
<1>1. sq \in Seq(Sqe)
  BY DEF TypeOK
<1>2. /\ sq' \in Seq(Sqe)
      /\ \A i \in 1..Len(sq') : \/ i \in 1..Len(sq) /\ sq'[i] = sq[i]
                                \/ sq'[i] = d \/ sq'[i] = e
  BY <1>1, TwoEntries
<1>3. \A op : OfOp(sq', op) = OfOp(sq, op) + Bit(d.op = op) + Bit(e.op = op)
  BY <1>1, TwoEntries
<1>4. ASSUME NEW op PROVE Fl(op)' = (Fl(op) + Bit(d.op = op)) + Bit(e.op = op)
  <2>1. /\ OfOp(sq, op) \in Nat /\ OfOp(work, op) \in Nat /\ OfOp(cq, op) \in Nat
    BY Numbers
  <2>2. Fl(op)' = ((OfOp(sq', op) + OfOp(work, op)) + OfOp(cq, op))
                  + Bit(op = "accept" /\ acc # NoAccept)
    BY DEF Fl
  <2> DEFINE x == Bit(d.op = op)
             y == Bit(e.op = op)
             z == Bit(op = "accept" /\ acc # NoAccept)
  <2>3. x \in Nat /\ y \in Nat /\ z \in Nat
    BY DEF Bit
  <2>4. OfOp(sq', op) = (OfOp(sq, op) + x) + y
    BY <1>3
  <2>5. Fl(op) = ((OfOp(sq, op) + OfOp(work, op)) + OfOp(cq, op)) + z
    BY DEF Fl
  <2> HIDE DEF x, y, z
  <2>6. Fl(op)' = (Fl(op) + x) + y
    BY <2>1, <2>2, <2>3, <2>4, <2>5 DEF z
  <2>7. QED BY <2>6 DEF x, y
<1>5. QED BY <1>2, <1>4

\* The counts when a coroutine starts an operation.
LEMMA StartCounts ==
    ASSUME Core, NEW c \in Coros, NEW op \in Ops, ~Dropping,
           co[c] = "idle", co'[c] \in Busy, \A d \in Coros \ {c} : co'[d] = co[d],
           refs' = refs + 2, ~Active(op),
           \A o \in Ops : Fl(o)' = Fl(o) + Bit(o = op),
           \A o \in Ops : Active(o)' <=> Active(o) \/ o = op
    PROVE  Exact' /\ Flight'
<1>1. /\ Pop(co, Coros, Alive) \in Nat /\ Pop(co, Coros, Busy) \in Nat
      /\ Pop(co', Coros, Alive) \in Nat /\ Pop(co', Coros, Busy) \in Nat
      /\ Fl("accept") \in Nat /\ Fl("cancel") \in Nat /\ Fl("close") \in Nat
  BY Numbers, Laws DEF Core
<1>2. /\ Pop(co', Coros, Alive) = Pop(co, Coros, Alive)
      /\ Pop(co', Coros, Busy) = Pop(co, Coros, Busy) + 1
  <2>1. co[c] \in Alive /\ co[c] \notin Busy /\ co'[c] \in Alive
    BY DEF Alive, Busy
  <2>2. QED BY <1>1, <2>1, OneMoves DEF Bit
<1>3. (Fl("accept")' + Fl("cancel")') + Fl("close")'
         = ((Fl("accept") + Fl("cancel")) + Fl("close")) + 1
  <2>1. /\ Fl("accept")' = Fl("accept") + Bit("accept" = op)
        /\ Fl("cancel")' = Fl("cancel") + Bit("cancel" = op)
        /\ Fl("close")' = Fl("close") + Bit("close" = op)
    BY DEF Ops
  <2>2. QED BY <1>1, <2>1 DEF Ops, Bit
<1>4. Exact'
  <2>1. refs = (Pop(co, Coros, Alive) + Pop(co, Coros, Busy))
               + ((Fl("accept") + Fl("cancel")) + Fl("close"))
    BY DEF Core, Exact
  <2>2. QED BY <1>1, <1>2, <1>3, <2>1 DEF Exact
<1>5. ASSUME NEW o \in Ops PROVE Fl(o)' = Bit(Active(o)')
  <2>1. Fl(o) = Bit(Active(o)) /\ Fl(o)' = Fl(o) + Bit(o = op)
    BY DEF Core, Flight
  <2>2. (o = op => ~Active(o)) /\ (Active(o)' <=> Active(o) \/ o = op)
    OBVIOUS
  <2>3. QED BY <2>1, <2>2 DEF Bit
<1>6. QED BY <1>4, <1>5 DEF Flight

\* accept_awaitable::await_suspend.
LEMMA AsyncAcceptIInv ==
    ASSUME IInv, NEW c \in Coros, AsyncAccept(c)
    PROVE  IInv'
<1>1. PICK s \in fds :
        /\ fds' = fds \ {s}
        /\ sq' = Append(sq, Op("accept", s, accepts + 1))
        /\ af' = [af EXCEPT !.h = c, !.initiated = TRUE, !.peer = s,
                            !.n = accepts + 1]
  BY DEF AsyncAccept
<1> DEFINE e == Op("accept", s, accepts + 1)
           g == [af EXCEPT !.h = c, !.initiated = TRUE, !.peer = s,
                           !.n = accepts + 1]
           AF == [h : Coros \cup {None}, peer : Slots \cup {NoFd},
                  initiated : BOOLEAN, done : BOOLEAN, n : 0..MaxAccepts]
<1>2. /\ TypeOK /\ pc = "user" /\ co[c] = "idle" /\ ~af.initiated
      /\ accepts + 1 \in 0..MaxAccepts /\ accepts' = accepts + 1
      /\ refs' = refs + 2 /\ s \in Slots /\ s # NoFd /\ c # None
      /\ UNCHANGED <<cnf, clf, fd, streams, handles, pc, back, work, file, acc, cq>>
  <2>1. accepts \in 0..MaxAccepts /\ accepts < MaxAccepts /\ TypeOK /\ s \in Slots
    BY DEF IInv, Core, TypeOK, AsyncAccept
  <2>2. QED BY <2>1, Zero, AcceptorAssumption DEF AsyncAccept
<1>3. /\ e \in Sqe /\ e.op = "accept" /\ e.on = fd /\ e.slot = s
      /\ e.n = accepts + 1
  BY <1>2, SqeFacts
<1>4. af.done = FALSE /\ ~MustCancel /\ ~Active("accept") /\ ~Leaving /\ ~Dropping
      /\ af.peer = NoFd
  BY <1>2 DEF IInv, Core, TypeOK, Frames, Control, Active, MustCancel, Dropping, Leaving
<1>5. /\ g \in AF /\ g.h = c /\ g.initiated = TRUE /\ g.done = FALSE
      /\ g.peer = s /\ g.n = accepts + 1
  <2>1. af \in AF /\ c \in Coros \cup {None} /\ s \in Slots \cup {NoFd}
        /\ accepts + 1 \in 0..MaxAccepts
    BY <1>2 DEF TypeOK
  <2>2. QED BY <1>4, <2>1
<1>6. sq' = Append(sq, e) /\ af' = g
  BY <1>1
<1>7. /\ co'[c] = "accepting" /\ \A d \in Coros \ {c} : co'[d] = co[d]
      /\ co' \in [Coros -> {"idle", "accepting", "cancelling", "closing", "gone"}]
  BY <1>2 DEF AsyncAccept, TypeOK
<1> HIDE DEF e, g
<1>8. /\ sq' \in Seq(Sqe)
      /\ \A op : Fl(op)' = Fl(op) + Bit(e.op = op)
      /\ \A i \in 1..Len(sq') :
            (i \in 1..Len(sq) /\ sq'[i] = sq[i]) \/ sq'[i] = e
  BY <1>2, <1>3, <1>6, QueueGrows
<1>9. TypeOK'
  <2>1. refs' \in Nat /\ fds' \subseteq Slots /\ accepts' \in 0..MaxAccepts
    BY <1>1, <1>2 DEF TypeOK
  <2>2. af' \in AF
    BY <1>5, <1>6
  <2>3. QED BY <1>2, <1>7, <1>8, <2>1, <2>2 DEF TypeOK
<1>10. /\ MustCancel' /\ \A o : Active(o)' <=> Active(o) \/ o = "accept"
  BY <1>2, <1>4, <1>5, <1>6 DEF Active, MustCancel
<1>11. Control'
  BY <1>2 DEF IInv, Core, Control, Leaving
<1>12. Exact' /\ Flight'
  <2>1. "accept" \in Ops /\ "accepting" \in Busy /\ Core
    BY DEF Ops, Busy, IInv
  <2>2. \A o \in Ops : Fl(o)' = Fl(o) + Bit(o = "accept")
    BY <1>3, <1>8 DEF Bit
  <2>3. QED BY <1>2, <1>4, <1>7, <1>10, <2>1, <2>2, StartCounts
<1>13. \A d \in Coros : co[d] # "accepting"
  BY <1>2, <1>4 DEF IInv, Core, Waiters
<1>14. Frames'
  <2>1. \A x, y \in Coros : co'[x] = co'[y] /\ co'[x] \in Busy => x = y
    BY <1>7, <1>13 DEF IInv, Core, Frames
  <2>2. /\ ~af'.done /\ af'.h = c /\ af'.initiated /\ af'.peer = s
    BY <1>5, <1>6
  <2>3. /\ Active("accept")' /\ (Active("cancel")' <=> Active("cancel"))
        /\ (Active("close")' <=> Active("close"))
    BY <1>10
  <2>4. QED BY <1>2, <2>1, <2>2, <2>3 DEF IInv, Core, Frames
<1>15. /\ acc = NoAccept /\ \A i \in 1..Len(cq) : cq[i].op # "accept"
       /\ \A i \in 1..Len(sq) : sq[i].op # "accept"
  <2>1. "accept" \in Ops
    BY DEF Ops
  <2>2. Fl("accept") = 0
    BY <1>4, <2>1 DEF IInv, Core, Flight, Bit
  <2>3. QED BY <1>2, <2>1, <2>2, NoneInFlight
<1>16. af'.peer = s /\ af'.n = accepts + 1 /\ af'.done = FALSE
  BY <1>5, <1>6
<1>17. Ids'
  BY <1>2, <1>3, <1>8, <1>15, <1>16 DEF Ids
<1>18. Waiters'
  <2>1. /\ af'.h = c /\ af'.initiated /\ ~af'.done
    BY <1>5, <1>6
  <2>2. cnf.h # None => cnf.h \in Coros
    BY <1>2 DEF TypeOK
  <2>3. clf.h # None => clf.h \in Coros
    BY <1>2 DEF TypeOK
  <2>4. \A d \in Coros : Ready(d)' <=> Ready(d)
    BY <1>2, <1>7, <1>13, <2>1 DEF Ready
  <2>5. QED BY <1>2, <1>4, <1>7, <2>1, <2>2, <2>3, <2>4
        DEF IInv, Core, Waiters, Bit
<1>19. Leave'
  BY <1>2, <1>4 DEF Leave, Leaving
<1>20. SlotsPartition'
  BY <1>1, <1>2, <1>4, <1>16 DEF IInv, Owners, SlotsPartition
<1>21. Closing'
  BY <1>2, <1>3, <1>8 DEF IInv, Owners, Closing
<1>22. Reserved'
  <2>1. file'[s] = "empty"
    BY <1>2 DEF IInv, Owners, SlotsPartition
  <2>2. QED BY <1>2, <1>15, <1>16, <2>1 DEF Reserved
<1>23. QED BY <1>9, <1>11, <1>12, <1>14, <1>17, <1>18, <1>19, <1>20, <1>21,
          <1>22 DEF IInv, Core, Owners

\* What a frame of a cancel or a close holds once its operation is started.
LEMMA FrameStarts ==
    ASSUME NEW c \in Coros, NEW f, f.done = FALSE,
           f \in [h : Coros \cup {None}, initiated : BOOLEAN, done : BOOLEAN]
    PROVE  LET g == [f EXCEPT !.h = c, !.initiated = TRUE] IN
             /\ g \in [h : Coros \cup {None}, initiated : BOOLEAN, done : BOOLEAN]
             /\ g.h = c /\ g.initiated = TRUE /\ g.done = FALSE
OBVIOUS

\* accept_cancel_awaitable::await_suspend.
LEMMA AsyncCancelIInv ==
    ASSUME IInv, NEW c \in Coros, AsyncCancel(c)
    PROVE  IInv'
<1> DEFINE e == Op("cancel", NoFd, 0)
           CF == [h : Coros \cup {None}, initiated : BOOLEAN, done : BOOLEAN]
<1>1. /\ TypeOK /\ pc = "user" /\ co[c] = "idle" /\ ~cnf.initiated
      /\ refs' = refs + 2 /\ c # None
      /\ UNCHANGED <<af, clf, fd, fds, streams, handles, pc, back, work, file,
                     acc, cq, accepts>>
  BY AcceptorAssumption DEF IInv, Core, AsyncCancel, fdVars
<1>2. /\ e \in Sqe /\ e.op = "cancel"
  BY <1>1, Zero, SqeFacts
<1>3. ~Active("cancel") /\ ~Leaving /\ ~Dropping /\ cnf.done = FALSE
  BY <1>1 DEF IInv, Core, TypeOK, Frames, Control, Active, Dropping, Leaving
<1>4. /\ cnf' \in CF /\ cnf'.h = c /\ cnf'.initiated = TRUE /\ cnf'.done = FALSE
  <2>1. cnf \in CF /\ cnf' = [cnf EXCEPT !.h = c, !.initiated = TRUE]
    BY <1>1 DEF TypeOK, AsyncCancel
  <2>2. QED BY <1>3, <2>1, FrameStarts
<1>5. sq' = Append(sq, e)
  BY DEF AsyncCancel
<1>6. /\ co'[c] = "cancelling" /\ \A d \in Coros \ {c} : co'[d] = co[d]
      /\ co' \in [Coros -> {"idle", "accepting", "cancelling", "closing", "gone"}]
  BY <1>1 DEF AsyncCancel, TypeOK
<1> HIDE DEF e
<1>7. /\ sq' \in Seq(Sqe)
      /\ \A op : Fl(op)' = Fl(op) + Bit(e.op = op)
      /\ \A i \in 1..Len(sq') :
            (i \in 1..Len(sq) /\ sq'[i] = sq[i]) \/ sq'[i] = e
  BY <1>1, <1>2, <1>5, QueueGrows
<1>8. TypeOK'
  <2>1. refs' \in Nat
    BY <1>1 DEF TypeOK
  <2>2. QED BY <1>1, <1>4, <1>6, <1>7, <2>1 DEF TypeOK
<1>9. /\ MustCancel' <=> MustCancel
      /\ \A o : Active(o)' <=> Active(o) \/ o = "cancel"
  BY <1>1, <1>3, <1>4 DEF Active, MustCancel
<1>10. Control'
  BY <1>1 DEF IInv, Core, Control, Leaving
<1>11. Exact' /\ Flight'
  <2>1. "cancel" \in Ops /\ "cancelling" \in Busy /\ Core
    BY DEF Ops, Busy, IInv
  <2>2. \A o \in Ops : Fl(o)' = Fl(o) + Bit(o = "cancel")
    BY <1>2, <1>7 DEF Bit
  <2>3. QED BY <1>1, <1>3, <1>6, <1>9, <2>1, <2>2, StartCounts
<1>12. \A d \in Coros : co[d] # "cancelling"
  BY <1>1, <1>3 DEF IInv, Core, Waiters
<1>13. Frames'
  <2>1. \A x, y \in Coros : co'[x] = co'[y] /\ co'[x] \in Busy => x = y
    BY <1>6, <1>12 DEF IInv, Core, Frames
  <2>2. /\ Active("cancel")' /\ (Active("accept")' <=> Active("accept"))
        /\ (Active("close")' <=> Active("close"))
    BY <1>9
  <2>3. QED BY <1>1, <1>4, <1>9, <2>1, <2>2 DEF IInv, Core, Frames
<1>14. Ids'
  BY <1>1, <1>2, <1>7 DEF IInv, Core, Ids
<1>15. Waiters'
  <2>1. af.h # None => af.h \in Coros
    BY <1>1 DEF TypeOK
  <2>2. clf.h # None => clf.h \in Coros
    BY <1>1 DEF TypeOK
  <2>3. \A d \in Coros : Ready(d)' <=> Ready(d)
    BY <1>1, <1>4, <1>6, <1>12 DEF Ready
  <2>4. QED BY <1>1, <1>3, <1>4, <1>6, <2>1, <2>2, <2>3
        DEF IInv, Core, Waiters, Bit
<1>16. Leave'
  BY <1>1, <1>3 DEF Leave, Leaving
<1>17. SlotsPartition'
  BY <1>1 DEF IInv, Owners, SlotsPartition
<1>18. Closing' /\ Reserved'
  BY <1>1, <1>2, <1>7 DEF IInv, Owners, Closing, Reserved
<1>19. QED BY <1>8, <1>10, <1>11, <1>13, <1>14, <1>15, <1>16, <1>17, <1>18
       DEF IInv, Core, Owners

\* accept_close_awaitable::await_suspend.
LEMMA AsyncCloseIInv ==
    ASSUME IInv, NEW c \in Coros, AsyncClose(c)
    PROVE  IInv'
<1> DEFINE d == Op("sever", NoFd, 0)
           e == Op("close", NoFd, 0)
           CF == [h : Coros \cup {None}, initiated : BOOLEAN, done : BOOLEAN]
<1>1. /\ TypeOK /\ pc = "user" /\ co[c] = "idle" /\ ~clf.initiated
      /\ refs' = refs + 2 /\ c # None /\ fd \in Slots
      /\ UNCHANGED <<af, cnf, fd, fds, streams, handles, pc, back, work, file,
                     acc, cq, accepts>>
  BY AcceptorAssumption DEF IInv, Core, TypeOK, AsyncClose, fdVars
<1>2. /\ e \in Sqe /\ e.op = "close" /\ e.on = fd
      /\ d \in Sqe /\ d.op = "sever"
  <2>1. TypeOK
    BY <1>1
  <2>2. QED BY <2>1, CloseFacts
<1>3. ~Active("close") /\ ~Leaving /\ ~Dropping /\ clf.done = FALSE
  BY <1>1 DEF IInv, Core, TypeOK, Frames, Control, Active, Dropping, Leaving
<1>4. /\ clf' \in CF /\ clf'.h = c /\ clf'.initiated = TRUE /\ clf'.done = FALSE
  <2>1. clf \in CF /\ clf' = [clf EXCEPT !.h = c, !.initiated = TRUE]
    BY <1>1 DEF TypeOK, AsyncClose
  <2>2. QED BY <1>3, <2>1, FrameStarts
<1>5. sq' = sq \o <<d, e>>
  BY DEF AsyncClose
<1>6. /\ co'[c] = "closing" /\ \A x \in Coros \ {c} : co'[x] = co[x]
      /\ co' \in [Coros -> {"idle", "accepting", "cancelling", "closing", "gone"}]
  BY <1>1 DEF AsyncClose, TypeOK
<1> HIDE DEF d, e
<1>7. /\ sq' \in Seq(Sqe)
      /\ \A op : Fl(op)' = (Fl(op) + Bit(d.op = op)) + Bit(e.op = op)
      /\ \A i \in 1..Len(sq') : \/ i \in 1..Len(sq) /\ sq'[i] = sq[i]
                                \/ sq'[i] = d \/ sq'[i] = e
  <2>1. UNCHANGED <<work, cq, acc>> /\ TypeOK /\ d \in Sqe /\ e \in Sqe
    BY <1>1, <1>2
  <2>2. \A op : Fl(op)' = (Fl(op) + Bit(d.op = op)) + Bit(e.op = op)
    BY <1>5, <2>1, QueueGrowsTwo
  <2>3. sq' \in Seq(Sqe)
    BY <1>5, <2>1, QueueGrowsTwo
  <2>4. \A i \in 1..Len(sq') :
           \/ i \in 1..Len(sq) /\ sq'[i] = sq[i]
           \/ sq'[i] = d
           \/ sq'[i] = e
    BY <1>5, <2>1, QueueGrowsTwo
  <2>5. QED BY <2>2, <2>3, <2>4
<1>8. TypeOK'
  <2>1. refs' \in Nat
    BY <1>1 DEF TypeOK
  <2>2. QED BY <1>1, <1>4, <1>6, <1>7, <2>1 DEF TypeOK
<1>9. /\ MustCancel' <=> MustCancel
      /\ \A o : Active(o)' <=> Active(o) \/ o = "close"
  BY <1>1, <1>3, <1>4 DEF Active, MustCancel
<1>10. Control'
  BY <1>1 DEF IInv, Core, Control, Leaving
<1>11. Exact' /\ Flight'
  <2>1. "close" \in Ops /\ "closing" \in Busy /\ Core
    BY DEF Ops, Busy, IInv
  <2>2. ASSUME NEW o \in Ops PROVE Fl(o)' = Fl(o) + Bit(o = "close")
    <3>1. Fl(o) \in Nat /\ Bit(d.op = o) = 0 /\ Bit(e.op = o) = Bit(o = "close")
      BY <1>1, <1>2, Numbers DEF Ops, Bit
    <3>2. Fl(o)' = (Fl(o) + Bit(d.op = o)) + Bit(e.op = o)
      BY <1>7
    <3>3. Bit(o = "close") \in Nat
      BY DEF Bit
    <3>4. QED BY <3>1, <3>2, <3>3
  <2>3. QED BY <1>1, <1>3, <1>6, <1>9, <2>1, <2>2, StartCounts
<1>12. \A x \in Coros : co[x] # "closing"
  BY <1>1, <1>3 DEF IInv, Core, Waiters
<1>13. Frames'
  <2>1. \A x, y \in Coros : co'[x] = co'[y] /\ co'[x] \in Busy => x = y
    BY <1>6, <1>12 DEF IInv, Core, Frames
  <2>2. /\ Active("close")' /\ (Active("accept")' <=> Active("accept"))
        /\ (Active("cancel")' <=> Active("cancel"))
    BY <1>9
  <2>3. QED BY <1>1, <1>4, <1>9, <2>1, <2>2 DEF IInv, Core, Frames
<1>14. Ids'
  BY <1>1, <1>2, <1>7 DEF IInv, Core, Ids
<1>15. Waiters'
  <2>1. af.h # None => af.h \in Coros
    BY <1>1 DEF TypeOK
  <2>2. cnf.h # None => cnf.h \in Coros
    BY <1>1 DEF TypeOK
  <2>3. \A x \in Coros : Ready(x)' <=> Ready(x)
    BY <1>1, <1>4, <1>6, <1>12 DEF Ready
  <2>4. QED BY <1>1, <1>3, <1>4, <1>6, <2>1, <2>2, <2>3
        DEF IInv, Core, Waiters, Bit
<1>16. Leave'
  BY <1>1, <1>3 DEF Leave, Leaving
<1>17. SlotsPartition'
  BY <1>1 DEF IInv, Owners, SlotsPartition
<1>18. Closing' /\ Reserved'
  BY <1>1, <1>2, <1>7 DEF IInv, Owners, Closing, Reserved
<1>19. QED BY <1>8, <1>10, <1>11, <1>13, <1>14, <1>15, <1>16, <1>17, <1>18
       DEF IInv, Core, Owners

\* A cancel of the accept is queued or not, and the thread goes elsewhere.
LEMMA SubmitCancel ==
    ASSUME Core, NEW e, e = Op("cancelAccept", NoFd, 0),
           sq' = Append(sq, e), UNCHANGED <<work, cq, acc, af, cnf, clf>>
    PROVE  /\ sq' \in Seq(Sqe) /\ OfOp(sq', "accept") = OfOp(sq, "accept")
           /\ OfOp(sq', "cancelAccept") > 0
           /\ \A op \in Ops : Fl(op)' = Fl(op) /\ (Active(op)' <=> Active(op))
           /\ Ids'
           /\ \A i \in 1..Len(sq') : sq'[i].op \in Ops =>
                 i \in 1..Len(sq) /\ sq'[i] = sq[i]
<1>1. TypeOK /\ e \in Sqe /\ e.op = "cancelAccept"
  BY Zero, SqeFacts DEF Core
<1>2. /\ sq' \in Seq(Sqe)
      /\ \A op : OfOp(sq', op) = OfOp(sq, op) + Bit(e.op = op)
      /\ \A op : Fl(op)' = Fl(op) + Bit(e.op = op)
      /\ \A i \in 1..Len(sq') :
            (i \in 1..Len(sq) /\ sq'[i] = sq[i]) \/ sq'[i] = e
  BY <1>1, QueueGrows
<1>3. \A op : OfOp(sq, op) \in Nat /\ Fl(op) \in Nat
  BY <1>1, Numbers
<1>4. /\ OfOp(sq', "accept") = OfOp(sq, "accept") /\ OfOp(sq', "cancelAccept") > 0
      /\ \A op \in Ops : Fl(op)' = Fl(op)
  BY <1>1, <1>2, <1>3 DEF Ops, Bit
<1>5. \A op \in Ops : Active(op)' <=> Active(op)
  BY DEF Active, MustCancel
<1>6. \A i \in 1..Len(sq') : sq'[i].op \in Ops =>
         i \in 1..Len(sq) /\ sq'[i] = sq[i]
  BY <1>1, <1>2 DEF Ops
<1>7. Ids'
  BY <1>6 DEF Core, Ids, Ops
<1>8. QED BY <1>2, <1>4, <1>5, <1>6, <1>7

-----------------------------------------------------------------------------
(* Steps that start and complete nothing.                                  *)

\* Frames, counts and coroutines stay as they are.
LEMMA StillCounts ==
    ASSUME Core, UNCHANGED <<af, cnf, clf, refs, co>>,
           \A op \in Ops : Fl(op)' = Fl(op), Dropping => Dropping'
    PROVE  Exact' /\ Frames' /\ Flight'
<1>1. \A op : Active(op)' <=> Active(op)
  BY DEF Active, MustCancel
<1>2. Exact'
  BY DEF Core, Exact, Ops
<1>3. Frames'
  BY <1>1 DEF Core, Frames, MustCancel
<1>4. Flight'
  BY <1>1 DEF Core, Flight, Bit
<1>5. QED BY <1>2, <1>3, <1>4

\* Neither slots nor operations change hands; what is queued is harmless.
LEMMA OwnersStill ==
    ASSUME Owners, UNCHANGED <<fd, fds, streams, file, af, acc, work, cq>>,
           \A i \in 1..Len(sq') : sq'[i].op \in Ops =>
              i \in 1..Len(sq) /\ sq'[i] = sq[i]
    PROVE  Owners'
<1>1. SlotsPartition'
  BY DEF Owners, SlotsPartition
<1>2. Closing'
  BY DEF Owners, Closing, Ops
<1>3. Reserved'
  BY DEF Owners, Reserved, Ops
<1>4. QED BY <1>1, <1>2, <1>3 DEF Owners

\* Only the place of the thread changes.
LEMMA ThreadMoves ==
    ASSUME IInv, UNCHANGED <<frameVars, fdVars, co, handles, kernVars, accepts>>,
           pc' \in {"user", "submit", "reap", "abort", "flush", "end"},
           back' \in {"user", "reap", "clear", "abort"},
           Control', Leave', Leaving => Leaving', Dropping => Dropping'
    PROVE  IInv'
<1>1. UNCHANGED <<af, cnf, clf, refs, fd, fds, streams, co, handles, sq, work,
                  file, acc, cq, accepts>>
  BY DEF frameVars, fdVars, kernVars
<1>2. TypeOK'
  BY <1>1 DEF IInv, Core, TypeOK
<1>3. Exact' /\ Frames' /\ Flight'
  <2>1. \A op \in Ops : Fl(op)' = Fl(op)
    BY <1>1 DEF Fl
  <2>2. QED BY <1>1, <2>1, StillCounts DEF IInv
<1>4. Ids'
  BY <1>1 DEF IInv, Core, Ids
<1>5. Waiters'
  BY <1>1 DEF IInv, Core, Waiters, Ready
<1>6. Owners'
  BY <1>1, OwnersStill DEF IInv
<1>7. QED BY <1>2, <1>3, <1>4, <1>5, <1>6 DEF IInv, Core

\* The loop goes to submit and comes back.
LEMMA LoopMovesIInv ==
    ASSUME IInv, SubmitAndWait \/ SubmitFull \/ SubmitDone \/ ReapDone
    PROVE  IInv'
<1>1. /\ UNCHANGED <<frameVars, fdVars, co, handles, kernVars, accepts>>
      /\ pc \in {"user", "submit", "reap"}
      /\ pc' \in {"user", "submit", "reap", "abort"}
      /\ back' \in {"user", "reap", "clear", "abort"}
      /\ Leaving => back' = back
      /\ ~Leaving => back' \in {"user", "reap"}
      /\ pc' \in {"reap", "abort"} => sq = <<>>
      /\ pc' = "abort" <=> back' \in {"clear", "abort"}
  BY DEF IInv, Core, TypeOK, Control, Leaving, SubmitAndWait, SubmitFull, SubmitDone, ReapDone
<1>2. sq' = sq /\ acc' = acc
  BY <1>1 DEF kernVars
<1>3. Control'
  BY <1>1, <1>2 DEF IInv, Core, Control, Leaving
<1>4. Leave'
  BY <1>1, <1>2 DEF IInv, Core, Leave, Leaving
<1>5. QED BY <1>1, <1>3, <1>4, ThreadMoves DEF Leaving, Dropping

\* run() begins to be left: who has an accept in flight waits for it.
LEMMA AbortIInv ==
    ASSUME IInv, Abort
    PROVE  IInv'
<1>1. /\ UNCHANGED <<frameVars, fdVars, co, handles, kernVars, accepts>>
      /\ pc = "user" /\ pc' = "submit" /\ back' = "clear" /\ ~Leaving
  BY DEF IInv, Core, Control, Leaving, Abort
<1>2. Control'
  BY <1>1 DEF Control, Leaving
<1>3. UNCHANGED <<co, sq, acc>>
  BY <1>1 DEF kernVars
<1>4. Leave'
  <2>1. CASE af.h = None
    <3>1. "accept" \in Ops /\ ~Active("accept") /\ ~Dropping
      BY <1>1, <2>1 DEF IInv, Core, Frames, Ops, Dropping
    <3>2. Fl("accept") = 0
      BY <3>1 DEF IInv, Core, Flight, Bit
    <3>3. acc = NoAccept /\ OfOp(sq, "accept") = 0
      BY <3>1, <3>2, NoneInFlight DEF IInv, Core
    <3>4. QED BY <1>3, <3>3 DEF Leave
  <2>2. CASE af.h # None
    <3>1. af.h \in Coros /\ co[af.h] = "accepting"
      BY <1>1, <2>2 DEF IInv, Core, TypeOK, Waiters
    <3>2. QED BY <1>3, <3>1 DEF Leave
  <2>3. QED BY <2>1, <2>2
<1>5. QED BY <1>1, <1>2, <1>4, ThreadMoves DEF Leaving, Dropping

\* ~guard comes to the completions, and to its end.
LEMMA FlushEndsIInv ==
    ASSUME IInv, FlushDone
    PROVE  IInv'
<1>1. /\ UNCHANGED <<frameVars, fdVars, co, handles, kernVars, accepts>>
      /\ pc = "flush" /\ pc' = "end" /\ back' = back /\ cq = <<>>
      /\ back \in {"user", "reap", "clear", "abort"}
  BY DEF IInv, Core, TypeOK, FlushDone
<1>2. UNCHANGED <<co, sq, acc, cq>>
  BY <1>1 DEF kernVars
<1>3. Control' /\ Leave'
  BY <1>1, <1>2 DEF IInv, Core, Control, Leave, Leaving
<1>4. QED BY <1>1, <1>3, ThreadMoves DEF Leaving, Dropping

\* The coroutines are gone: nobody is resumed any more.
LEMMA FlushStartIInv ==
    ASSUME IInv, FlushStart
    PROVE  IInv'
<1>1. /\ UNCHANGED <<af, cnf, clf, refs, fd, fds, streams, co, back, sq, work,
                     file, acc, cq, accepts>>
      /\ pc = "abort" /\ pc' = "flush" /\ handles' = <<>> /\ Leaving
      /\ \A c \in Coros : co[c] = "gone"
  BY DEF IInv, Core, Control, FlushStart, frameVars, fdVars, kernVars
<1>2. TypeOK'
  BY <1>1 DEF IInv, Core, TypeOK
<1>3. Control' /\ Leave'
  BY <1>1 DEF IInv, Core, Control, Leave, Leaving
<1>4. Exact' /\ Frames' /\ Flight'
  <2>1. \A op \in Ops : Fl(op)' = Fl(op)
    BY <1>1 DEF Fl
  <2>2. QED BY <1>1, <2>1, StillCounts DEF IInv, Dropping
<1>5. Ids'
  BY <1>1 DEF IInv, Core, Ids
<1>6. Waiters'
  BY <1>1 DEF Waiters, Leaving
<1>7. Owners'
  BY <1>1, OwnersStill DEF IInv
<1>8. QED BY <1>2, <1>3, <1>4, <1>5, <1>6, <1>7 DEF IInv, Core

\* An accept refused because another one is in flight cancels that one.
LEMMA AcceptBusyIInv ==
    ASSUME IInv, NEW c \in Coros, AcceptBusy(c)
    PROVE  IInv'
<1>0. Core
  BY DEF IInv
<1>1. /\ UNCHANGED <<af, cnf, clf, refs, fd, fds, streams, co, handles, work,
                     file, acc, cq, accepts>>
      /\ pc = "user" /\ pc' \in {"user", "submit"} /\ back' = "user" /\ ~Leaving
      /\ TypeOK
  BY DEF IInv, Core, Control, Leaving, AcceptBusy, frameVars, fdVars
<1>2. /\ sq' \in Seq(Sqe) /\ Ids'
      /\ \A op \in Ops : Fl(op)' = Fl(op)
      /\ \A i \in 1..Len(sq') : sq'[i].op \in Ops =>
            i \in 1..Len(sq) /\ sq'[i] = sq[i]
  <2>1. sq \in Seq(Sqe)
    BY <1>1 DEF TypeOK
  <2>2. CASE MustCancel
    <3> DEFINE e == Op("cancelAccept", NoFd, 0)
    <3>1. sq' = sq \o <<e>>
      BY <2>2 DEF AcceptBusy, CancelAccept
    <3>2. e \in Sqe
      BY <1>1, Zero, SqeFacts
    <3> HIDE DEF e
    <3>3. sq' = Append(sq, e)
      BY <2>1, <3>1, <3>2
    <3>4. QED BY <1>0, <1>1, <3>3, SubmitCancel DEF e
  <2>3. CASE ~MustCancel
    <3>1. sq' = sq \o <<>>
      BY <2>3 DEF AcceptBusy, CancelAccept
    <3>2. sq' = sq
      BY <2>1, <3>1
    <3>3. \A op \in Ops : Fl(op)' = Fl(op)
      BY <1>1, <3>2 DEF Fl
    <3>4. Ids'
      BY <1>1, <3>2 DEF IInv, Core, Ids
    <3>5. QED BY <2>1, <3>2, <3>3, <3>4
  <2>4. QED BY <2>2, <2>3
<1>3. TypeOK'
  BY <1>1, <1>2 DEF TypeOK
<1>4. Control' /\ Leave'
  BY <1>1 DEF Control, Leave, Leaving
<1>5. Exact' /\ Frames' /\ Flight'
  BY <1>0, <1>1, <1>2, StillCounts DEF Dropping
<1>6. Waiters'
  BY <1>1 DEF IInv, Core, Waiters, Ready, Leaving
<1>7. Owners'
  BY <1>1, <1>2, OwnersStill DEF IInv
<1>8. QED BY <1>2, <1>3, <1>4, <1>5, <1>6, <1>7 DEF IInv, Core

-----------------------------------------------------------------------------
(* Coroutines that let go, return or are destroyed.                        *)

\* The weight of a state: the references a coroutine in it accounts for.
Weight(s) == Bit(s \in Alive) + Bit(s \in Busy)

\* What the states weigh.
LEMMA Weights ==
    /\ Weight("idle") = 1 /\ Weight("gone") = 0
    /\ \A s \in Busy : Weight(s) = 2
    /\ \A s \in {"idle", "accepting", "cancelling", "closing", "gone"} :
          s = "gone" \/ s = "idle" \/ s \in Busy
BY DEF Weight, Alive, Busy, Bit

\* A coroutine gives up as many references as its state loses weight.
LEMMA MoveCounts ==
    ASSUME Core, NEW c \in Coros, \A d \in Coros \ {c} : co'[d] = co[d],
           NEW k \in Nat, Weight(co[c]) = Weight(co'[c]) + k, refs' = refs - k,
           \A op \in Ops : Fl(op)' = Fl(op)
    PROVE  Exact' /\ refs' \in Nat
<1> DEFINE A == Pop(co, Coros, Alive)
           B == Pop(co, Coros, Busy)
           A1 == Pop(co', Coros, Alive)
           B1 == Pop(co', Coros, Busy)
           F == (Fl("accept") + Fl("cancel")) + Fl("close")
           x == Bit(co[c] \in Alive)
           y == Bit(co[c] \in Busy)
           x1 == Bit(co'[c] \in Alive)
           y1 == Bit(co'[c] \in Busy)
<1>1. A \in Nat /\ B \in Nat /\ A1 \in Nat /\ B1 \in Nat
  BY Laws
<1>2. F \in Nat /\ (Fl("accept")' + Fl("cancel")') + Fl("close")' = F
  <2>1. Fl("accept") \in Nat /\ Fl("cancel") \in Nat /\ Fl("close") \in Nat
    BY Numbers DEF Core
  <2>2. QED BY <2>1 DEF Ops
<1>3. A1 + x = A + x1 /\ B1 + y = B + y1
  BY OneMoves
<1>4. x + y = (x1 + y1) + k
  BY DEF Weight
<1>5. x \in Nat /\ y \in Nat /\ x1 \in Nat /\ y1 \in Nat
  BY DEF Bit
<1>6. refs = (A + B) + F
  BY DEF Core, Exact
<1>7. ((A1 + B1) + F)
         = ((Pop(co, Coros, Alive)' + Pop(co, Coros, Busy)')
           + ((Fl("accept")' + Fl("cancel")') + Fl("close")'))
  BY <1>2
<1> HIDE DEF A, B, A1, B1, F, x, y, x1, y1
<1>8. refs' = (A1 + B1) + F
  BY <1>1, <1>2, <1>3, <1>4, <1>5, <1>6
<1>9. refs' \in Nat
  BY <1>1, <1>2, <1>8
<1>10. QED BY <1>7, <1>8, <1>9 DEF Exact

\* A copy of the acceptor is destroyed.
LEMMA LetGoIInv ==
    ASSUME IInv, NEW c \in Coros, LetGo(c)
    PROVE  IInv'
<1>1. /\ UNCHANGED <<af, cnf, clf, fd, fds, streams, handles, pc, back, sq, work,
                     file, acc, cq, accepts>>
      /\ pc = "user" /\ co[c] = "idle" /\ refs' = refs - 1 /\ ~Leaving /\ TypeOK
      /\ Core
  BY DEF IInv, Core, Control, Leaving, LetGo, fdVars, kernVars
<1>2. /\ co'[c] = "gone" /\ \A d \in Coros \ {c} : co'[d] = co[d]
      /\ co' \in [Coros -> {"idle", "accepting", "cancelling", "closing", "gone"}]
  BY <1>1 DEF LetGo, TypeOK
<1>3. \A op : Fl(op)' = Fl(op)
  BY <1>1 DEF Fl
<1>4. Exact' /\ refs' \in Nat
  <2>1. Weight(co[c]) = Weight(co'[c]) + 1
    BY <1>1, <1>2, Weights
  <2>2. QED BY <1>1, <1>2, <1>3, <2>1, MoveCounts
<1>5. TypeOK'
  BY <1>1, <1>2, <1>4 DEF TypeOK
<1>6. Control' /\ Leave'
  BY <1>1 DEF Control, Leave, Leaving
<1>7. \A op : Active(op)' <=> Active(op)
  BY <1>1 DEF Active, MustCancel
<1>8. Frames'
  <2>1. \A x, y \in Coros : co'[x] = co'[y] /\ co'[x] \in Busy => x = y
    BY <1>2 DEF IInv, Core, Frames, Busy
  <2>2. QED BY <1>1, <1>7, <2>1 DEF IInv, Core, Frames, MustCancel
<1>9. Flight'
  BY <1>1, <1>3, <1>7 DEF IInv, Core, Flight, Dropping, Bit
<1>10. Ids'
  BY <1>1 DEF IInv, Core, Ids
<1>11. Waiters'
  <2>1. af.h \in Coros \cup {None} /\ cnf.h \in Coros \cup {None}
    BY <1>1 DEF TypeOK
  <2>2. clf.h \in Coros \cup {None}
    BY <1>1 DEF TypeOK
  <2>3. \A d \in Coros : Ready(d)' <=> Ready(d)
    BY <1>1, <1>2 DEF Ready
  <2>4. QED BY <1>1, <1>2, <2>1, <2>2, <2>3 DEF IInv, Core, Waiters, Bit
<1>12. Owners'
  BY <1>1, OwnersStill DEF IInv
<1>13. QED BY <1>4, <1>5, <1>6, <1>8, <1>9, <1>10, <1>11, <1>12 DEF IInv, Core

\* task_map::clear destroys a coroutine; the destructor of its awaitable cancels
\* an accept in flight.
LEMMA DestroyCoroIInv ==
    ASSUME IInv, NEW c \in Coros, DestroyCoro(c)
    PROVE  IInv'
<1>1. /\ UNCHANGED <<af, cnf, clf, fd, fds, streams, handles, work, file, acc,
                     cq, accepts>>
      /\ pc = "abort" /\ co[c] # "gone" /\ TypeOK /\ Core /\ sq = <<>> /\ ~Dropping
      /\ Leaving
  BY DEF IInv, Core, Control, Leaving, Dropping, DestroyCoro, fdVars
<1>2. /\ co'[c] = "gone" /\ \A d \in Coros \ {c} : co'[d] = co[d]
      /\ co' \in [Coros -> {"idle", "accepting", "cancelling", "closing", "gone"}]
  BY <1>1 DEF DestroyCoro, TypeOK
<1>3. /\ sq' \in Seq(Sqe) /\ Ids' /\ \A op \in Ops : Fl(op)' = Fl(op)
      /\ \A i \in 1..Len(sq') : sq'[i].op \in Ops =>
            i \in 1..Len(sq) /\ sq'[i] = sq[i]
      /\ pc' \in {"submit", "abort"} /\ back' \in {"clear", "abort"}
      /\ pc' = "abort" => sq' = <<>>
      /\ OfOp(sq', "accept") = OfOp(sq, "accept")
      /\ co[c] = "accepting" /\ MustCancel => OfOp(sq', "cancelAccept") > 0
      /\ ~(co[c] = "accepting" /\ MustCancel) => sq' = sq
  <2>1. sq \in Seq(Sqe)
    BY <1>1 DEF TypeOK
  <2>2. CASE co[c] = "accepting" /\ MustCancel
    <3> DEFINE e == Op("cancelAccept", NoFd, 0)
    <3>1. sq' = sq \o <<e>> /\ pc' = "submit" /\ back' = "abort"
      BY <2>2 DEF DestroyCoro, CancelAccept
    <3>2. e \in Sqe
      BY <1>1, Zero, SqeFacts
    <3> HIDE DEF e
    <3>3. sq' = Append(sq, e)
      BY <2>1, <3>1, <3>2
    <3>4. QED BY <1>1, <2>2, <3>1, <3>3, SubmitCancel DEF e
  <2>3. CASE ~(co[c] = "accepting" /\ MustCancel)
    <3>1. UNCHANGED <<sq, pc, back>>
      BY <2>3 DEF DestroyCoro
    <3>2. \A op \in Ops : Fl(op)' = Fl(op)
      BY <1>1, <3>1 DEF Fl
    <3>3. Ids'
      BY <1>1, <3>1 DEF Core, Ids
    <3>4. QED BY <1>1, <2>1, <2>3, <3>1, <3>2, <3>3 DEF Leaving
  <2>4. QED BY <2>2, <2>3
<1>4. Exact' /\ refs' \in Nat
  <2> DEFINE k == IF co[c] = "idle" THEN 1 ELSE 2
  <2>1. refs' = refs - k /\ k \in Nat
    BY DEF DestroyCoro
  <2>2. Weight(co[c]) = Weight(co'[c]) + k
    BY <1>1, <1>2, Weights DEF TypeOK
  <2> HIDE DEF k
  <2>3. QED BY <1>1, <1>2, <1>3, <2>1, <2>2, MoveCounts
<1>5. TypeOK'
  BY <1>1, <1>2, <1>3, <1>4 DEF TypeOK
<1>6. Control'
  BY <1>1, <1>3 DEF Control, Leaving
<1>7. \A op : Active(op)' <=> Active(op)
  BY <1>1 DEF Active, MustCancel
<1>8. Frames'
  <2>1. \A x, y \in Coros : co'[x] = co'[y] /\ co'[x] \in Busy => x = y
    BY <1>2 DEF IInv, Core, Frames, Busy
  <2>2. QED BY <1>1, <1>7, <2>1 DEF IInv, Core, Frames, MustCancel
<1>9. Flight'
  BY <1>1, <1>3, <1>7 DEF IInv, Core, Flight, Dropping, Bit
<1>10. Waiters'
  BY <1>3 DEF Waiters, Leaving
<1>11. Leave'
  <2>1. OfOp(sq, "accept") = 0
    BY <1>1, Laws DEF OpLaws
  <2>2. CASE co[c] = "accepting" /\ MustCancel
    BY <1>3, <2>1, <2>2 DEF Leave
  <2>3. CASE ~MustCancel
    <3>1. "accept" \in Ops /\ ~Active("accept")
      BY <2>3 DEF Ops, Active
    <3>2. Fl("accept") = 0
      BY <1>1, <3>1 DEF Core, Flight, Bit
    <3>3. acc = NoAccept
      BY <1>1, <3>1, <3>2, NoneInFlight
    <3>4. QED BY <1>1, <1>3, <2>1, <3>3 DEF Leave
  <2>4. CASE co[c] # "accepting"
    <3>1. CASE \E d \in Coros : co[d] = "accepting"
      BY <1>2, <2>4, <3>1 DEF Leave
    <3>2. CASE ~\E d \in Coros : co[d] = "accepting"
      BY <1>1, <1>3, <2>4, <3>2 DEF Core, Leave
    <3>3. QED BY <3>1, <3>2
  <2>5. QED BY <2>2, <2>3, <2>4
<1>12. Owners'
  BY <1>1, <1>3, OwnersStill DEF IInv
<1>13. QED BY <1>3, <1>4, <1>5, <1>6, <1>8, <1>9, <1>10, <1>11, <1>12
       DEF IInv, Core

\* A step that is about slots only.
LEMMA CoreElsewhere ==
    ASSUME Core, UNCHANGED <<af, cnf, clf, refs, co, handles, pc, back, sq, work,
                             acc, cq, accepts>>,
           fd' \in Slots \cup {NoFd}, fds' \subseteq Slots, streams' \subseteq Slots,
           file' \in [Slots -> {"empty", "listen", "peer"}]
    PROVE  Core'
<1>1. TypeOK'
  BY DEF Core, TypeOK
<1>2. Exact' /\ Frames' /\ Flight'
  <2>1. \A op \in Ops : Fl(op)' = Fl(op)
    BY DEF Fl
  <2>2. QED BY <2>1, StillCounts DEF Dropping
<1>3. Control' /\ Leave' /\ Ids'
  BY DEF Core, Control, Leave, Leaving, Ids
<1>4. Waiters'
  BY DEF Core, Waiters, Ready, Leaving
<1>5. QED BY <1>1, <1>2, <1>3, <1>4 DEF Core

\* ~stream_impl of a stream that was accepted.
LEMMA StreamGoneIInv ==
    ASSUME IInv, NEW s \in Slots, StreamGone(s)
    PROVE  IInv'
<1>1. /\ UNCHANGED <<af, cnf, clf, refs, co, handles, pc, back, fd, sq, work,
                     acc, cq, accepts>>
      /\ s \in streams /\ streams' = streams \ {s} /\ fds' = fds \cup {s}
      /\ Core /\ TypeOK /\ SlotsPartition
  BY DEF IInv, Core, Owners, StreamGone, frameVars, loopVars
<1>2. /\ file' \in [Slots -> {"empty", "listen", "peer"}] /\ file'[s] = "empty"
      /\ \A x \in Slots \ {s} : file'[x] = file[x]
  BY <1>1 DEF StreamGone, TypeOK
<1>3. Core'
  BY <1>1, <1>2, CoreElsewhere DEF TypeOK
<1>4. SlotsPartition'
  <2>1. fds \subseteq Slots /\ streams \subseteq Slots
    BY <1>1 DEF TypeOK
  <2>2. QED BY <1>1, <1>2, <2>1 DEF SlotsPartition
<1>5. s # fd /\ s # af.peer
  BY <1>1, AcceptorAssumption DEF SlotsPartition
<1>6. Closing'
  BY <1>1, <1>2, <1>5 DEF IInv, Owners, Closing
<1>7. Reserved'
  <2>1. af.peer \in Slots \cup {NoFd}
    BY <1>1 DEF TypeOK
  <2>2. af.peer # NoFd => file'[af.peer] = file[af.peer]
    BY <1>2, <1>5, <2>1
  <2>3. QED BY <1>1, <2>2 DEF IInv, Owners, Reserved
<1>8. QED BY <1>3, <1>4, <1>6, <1>7 DEF IInv, Owners

\* Without references nothing is in flight.
LEMMA UnreferencedFacts ==
    ASSUME Core, refs = 0
    PROVE  \A op \in Ops : Fl(op) = 0
<1> DEFINE a == Fl("accept")
           b == Fl("cancel")
           d == Fl("close")
           P == Pop(co, Coros, Alive) + Pop(co, Coros, Busy)
<1>1. a \in Nat /\ b \in Nat /\ d \in Nat
  BY Numbers DEF Core
<1>2. P \in Nat
  <2>1. Pop(co, Coros, Alive) \in Nat /\ Pop(co, Coros, Busy) \in Nat
    BY Laws
  <2>2. QED BY <2>1
<1>3. P + ((a + b) + d) = 0
  BY DEF Core, Exact
<1> HIDE DEF a, b, d, P
<1>4. a = 0 /\ b = 0 /\ d = 0
  BY <1>1, <1>2, <1>3
<1>5. QED BY <1>4 DEF a, b, d, Ops

\* ~acceptor_impl.
LEMMA DestructIInv ==
    ASSUME IInv, Destruct
    PROVE  IInv'
<1>1. /\ UNCHANGED <<af, cnf, clf, refs, co, handles, pc, back, streams, sq, work,
                     acc, cq, accepts>>
      /\ refs = 0 /\ fd \in Slots /\ fd' = NoFd /\ fds' = fds \cup {fd}
      /\ Core /\ TypeOK /\ SlotsPartition
  BY DEF IInv, Core, TypeOK, Owners, Destruct, Unreferenced, frameVars, loopVars
<1>2. /\ file' \in [Slots -> {"empty", "listen", "peer"}] /\ file'[fd] = "empty"
      /\ \A x \in Slots \ {fd} : file'[x] = file[x]
  BY <1>1 DEF Destruct, TypeOK
<1>3. Core'
  BY <1>1, <1>2, CoreElsewhere DEF TypeOK
<1>4. SlotsPartition'
  <2>1. fds \subseteq Slots /\ streams \subseteq Slots /\ NoFd \notin Slots
    BY <1>1, AcceptorAssumption DEF TypeOK
  <2>2. fd \notin streams /\ fd # af.peer
    BY <1>1, AcceptorAssumption DEF SlotsPartition
  <2>3. /\ fds' \cap streams' = {}
        /\ \A s \in {fd', af'.peer} \ {NoFd} : s \notin fds' \cup streams'
        /\ fd' = af'.peer => fd' = NoFd
    BY <1>1, <2>1, <2>2 DEF SlotsPartition
  <2>4. Slots = fds' \cup streams' \cup ({fd', af'.peer} \ {NoFd})
    BY <1>1, <2>1, <2>2 DEF SlotsPartition
  <2>5. /\ \A s \in fds' : file'[s] = "empty"
        /\ \A s \in streams' : file'[s] = "peer"
    BY <1>1, <1>2, <2>1, <2>2 DEF SlotsPartition
  <2>6. QED BY <2>3, <2>4, <2>5 DEF SlotsPartition
<1>5. Closing'
  <2>1. "close" \in Ops
    BY DEF Ops
  <2>2. Fl("close") = 0
    BY <1>1, <2>1, UnreferencedFacts
  <2>3. /\ \A i \in 1..Len(sq) : sq[i].op # "close"
        /\ \A i \in 1..Len(work) : work[i].op # "close"
        /\ \A i \in 1..Len(cq) : cq[i].op # "close"
    BY <1>1, <2>1, <2>2, NoneInFlight
  <2>4. QED BY <1>1, <2>3 DEF IInv, Owners, Closing
<1>6. Reserved'
  <2>1. af.peer \in Slots \cup {NoFd}
    BY <1>1 DEF TypeOK
  <2>2. af.peer # NoFd => file'[af.peer] = file[af.peer]
    BY <1>1, <1>2, <2>1 DEF SlotsPartition
  <2>3. QED BY <1>1, <2>2 DEF IInv, Owners, Reserved
<1>7. QED BY <1>3, <1>4, <1>5, <1>6 DEF IInv, Owners

\* What is common to the three ways to return: the coroutine is idle again, and
\* a frame without an operation in flight is reset.
LEMMA ReturnCore ==
    ASSUME Core, pc = "user", handles # <<>>, NEW c \in Coros, c = Head(handles),
           co[c] \in Busy, co'[c] = "idle", \A d \in Coros \ {c} : co'[d] = co[d],
           co' \in [Coros -> {"idle", "accepting", "cancelling", "closing", "gone"}],
           handles' = Tail(handles), refs' = refs - 1,
           UNCHANGED <<fd, fds, pc, back, sq, work, file, acc, cq, accepts>>,
           \A op : Active(op)' <=> Active(op)
    PROVE  /\ Exact' /\ refs' \in Nat /\ handles' \in Seq(Coros)
           /\ Control' /\ Leave' /\ Flight'
           /\ \A x, y \in Coros : co'[x] = co'[y] /\ co'[x] \in Busy => x = y
           /\ \A d \in Coros : Times(handles, d) = Times(handles', d) + Bit(c = d)
<1>1. TypeOK /\ ~Leaving
  BY DEF Core, Control, Leaving
<1>2. \A op : Fl(op)' = Fl(op)
  BY DEF Fl
<1>3. Exact' /\ refs' \in Nat
  <2>1. Weight(co[c]) = Weight(co'[c]) + 1
    BY Weights
  <2>2. QED BY <1>2, <2>1, MoveCounts
<1>4. handles \in Seq(Coros)
  BY <1>1 DEF TypeOK
<1>5. handles' \in Seq(Coros)
  BY <1>4
<1>6. \A d : Times(handles, d) = Times(handles', d) + Bit(c = d)
  BY <1>4, Laws DEF TimesLaws
<1>7. Control' /\ Leave'
  BY <1>1 DEF Control, Leave, Leaving
<1>8. Flight'
  BY <1>2 DEF Core, Flight, Dropping, Bit
<1>9. \A x, y \in Coros : co'[x] = co'[y] /\ co'[x] \in Busy => x = y
  BY DEF Core, Frames, Busy
<1>10. QED BY <1>3, <1>5, <1>6, <1>7, <1>8, <1>9

\* A collected handle is that of a coroutine whose operation has completed.
LEMMA ResumeFacts ==
    ASSUME IInv, Resume, NEW c, c = Head(handles)
    PROVE  /\ Core /\ TypeOK /\ ~Leaving /\ ~Dropping
           /\ pc = "user" /\ handles # <<>> /\ c \in Coros
           /\ Ready(c) /\ co[c] \in Busy /\ co'[c] = "idle"
           /\ \A d \in Coros \ {c} : co'[d] = co[d]
           /\ co' \in [Coros -> {"idle", "accepting", "cancelling", "closing", "gone"}]
           /\ handles' = Tail(handles) /\ refs' = refs - 1
           /\ UNCHANGED <<fd, fds, pc, back, sq, work, file, acc, cq, accepts>>
<1>1. /\ Core /\ TypeOK /\ ~Leaving /\ ~Dropping /\ pc = "user" /\ handles # <<>>
      /\ handles' = Tail(handles) /\ refs' = refs - 1
      /\ UNCHANGED <<fd, fds, pc, back, sq, work, file, acc, cq, accepts>>
      /\ co' = [co EXCEPT ![c] = "idle"]
  BY DEF IInv, Core, Control, Leaving, Dropping, Resume, kernVars
<1>2. handles \in Seq(Coros)
  BY <1>1 DEF TypeOK
<1>3. c \in Coros /\ 1 \in 1..Len(handles) /\ handles[1] = c
  BY <1>1, <1>2
<1>4. Times(handles, c) # 0
  BY <1>2, <1>3, Laws DEF TimesLaws
<1>5. Ready(c)
  BY <1>1, <1>3, <1>4 DEF Core, Waiters, Bit
<1>6. co[c] \in Busy
  BY <1>5 DEF Ready, Busy
<1>7. /\ co'[c] = "idle" /\ \A d \in Coros \ {c} : co'[d] = co[d]
      /\ co' \in [Coros -> {"idle", "accepting", "cancelling", "closing", "gone"}]
  BY <1>1, <1>3 DEF TypeOK
<1>8. QED BY <1>1, <1>3, <1>5, <1>6, <1>7

\* accept_awaitable::await_resume.
LEMMA AcceptReturnsIInv ==
    ASSUME IInv, Resume, NEW c, c = Head(handles), AcceptReturns(c)
    PROVE  IInv'
<1>1. /\ Core /\ TypeOK /\ ~Leaving /\ ~Dropping
      /\ pc = "user" /\ handles # <<>> /\ c \in Coros
      /\ Ready(c) /\ co[c] \in Busy /\ co'[c] = "idle"
      /\ \A d \in Coros \ {c} : co'[d] = co[d]
      /\ co' \in [Coros -> {"idle", "accepting", "cancelling", "closing", "gone"}]
      /\ handles' = Tail(handles) /\ refs' = refs - 1
      /\ UNCHANGED <<fd, fds, pc, back, sq, work, file, acc, cq, accepts>>
  BY ResumeFacts
<1>2. /\ co[c] = "accepting" /\ af' = AcceptReset /\ UNCHANGED <<cnf, clf>>
      /\ streams' = streams \cup ({af.peer} \ {NoFd})
  BY DEF AcceptReturns
<1>3. af.done /\ af.initiated /\ ~MustCancel /\ ~Active("accept")
  BY <1>1, <1>2 DEF Ready, Core, Frames, MustCancel, Active
<1>4. /\ af'.h = None /\ af'.peer = NoFd /\ af'.initiated = FALSE
      /\ af'.done = FALSE /\ ~(MustCancel')
  BY <1>2 DEF AcceptReset, MustCancel
<1>5. \A op : Active(op)' <=> Active(op)
  BY <1>2, <1>3, <1>4 DEF Active
<1>6. /\ Exact' /\ refs' \in Nat /\ handles' \in Seq(Coros)
      /\ Control' /\ Leave' /\ Flight'
      /\ \A x, y \in Coros : co'[x] = co'[y] /\ co'[x] \in Busy => x = y
      /\ \A d \in Coros : Times(handles, d) = Times(handles', d) + Bit(c = d)
  BY <1>1, <1>5, ReturnCore
<1>7. TypeOK'
  <2>1. af' \in [h : Coros \cup {None}, peer : Slots \cup {NoFd},
                 initiated : BOOLEAN, done : BOOLEAN, n : 0..MaxAccepts]
    BY <1>2, Zero DEF AcceptReset
  <2>2. streams' \subseteq Slots
    BY <1>1, <1>2 DEF TypeOK
  <2>3. QED BY <1>1, <1>2, <1>6, <2>1, <2>2 DEF TypeOK
<1>8. Frames'
  <2>1. /\ ~(Active("accept")') /\ (Active("cancel")' <=> Active("cancel"))
        /\ (Active("close")' <=> Active("close"))
    BY <1>3, <1>5
  <2>2. /\ (cnf'.done => cnf'.initiated) /\ (cnf'.h # None <=> Active("cancel")')
        /\ (clf'.done => clf'.initiated) /\ (clf'.h # None <=> Active("close")')
    BY <1>1, <1>2, <2>1 DEF Core, Frames
  <2>3. QED BY <1>4, <1>6, <2>1, <2>2 DEF Frames
<1>9. /\ acc = NoAccept /\ \A i \in 1..Len(cq) : cq[i].op # "accept"
      /\ \A i \in 1..Len(sq) : sq[i].op # "accept"
  <2>1. "accept" \in Ops
    BY DEF Ops
  <2>2. Fl("accept") = 0
    BY <1>1, <1>3, <2>1 DEF Core, Flight, Bit
  <2>3. QED BY <1>1, <2>1, <2>2, NoneInFlight
<1>10. Ids'
  BY <1>1, <1>9 DEF Ids
<1>11. Waiters'
  <2>1. /\ cnf.h # None => cnf.h \in Coros /\ co[cnf.h] = "cancelling"
    BY <1>1 DEF Core, Waiters, TypeOK
  <2>2. /\ clf.h # None => clf.h \in Coros /\ co[clf.h] = "closing"
    BY <1>1 DEF Core, Waiters, TypeOK
  <2>3. \A d \in Coros : d # c => co[d] # "accepting"
    BY <1>1, <1>2 DEF Core, Frames
  <2>4. ASSUME NEW d \in Coros PROVE Times(handles', d) = Bit(Ready(d)')
    <3>1. Times(handles, d) = Bit(Ready(d)) /\ Times(handles', d) \in Nat
      BY <1>1, <1>6, Laws DEF Core, Waiters, TimesLaws
    <3>2. Times(handles, d) = Times(handles', d) + Bit(c = d)
      BY <1>6
    <3>3. (d # c => (Ready(d)' <=> Ready(d))) /\ ~(Ready(c)')
      BY <1>1, <1>2, <2>3 DEF Ready
    <3>4. QED BY <1>1, <3>1, <3>2, <3>3 DEF Bit
  <2>5. QED BY <1>1, <1>2, <1>4, <2>1, <2>2, <2>3, <2>4 DEF Core, Waiters
<1>12. SlotsPartition'
  <2>1. SlotsPartition /\ Reserved /\ fds \subseteq Slots /\ streams \subseteq Slots
        /\ af.peer \in Slots \cup {NoFd}
    BY <1>1 DEF IInv, Owners, TypeOK
  <2>2. af.peer # NoFd => file[af.peer] = "peer" /\ af.peer \notin fds
                          /\ af.peer # fd
    BY <1>3, <2>1, AcceptorAssumption DEF SlotsPartition, Reserved
  <2>3. /\ \A s \in fds' : file'[s] = "empty"
        /\ \A s \in streams' : file'[s] = "peer"
        /\ fds' \cap streams' = {}
    BY <1>1, <1>2, <2>1, <2>2 DEF SlotsPartition
  <2>4. Slots = fds' \cup streams' \cup ({fd', af'.peer} \ {NoFd})
    BY <1>1, <1>2, <1>4, <2>1 DEF SlotsPartition
  <2>5. /\ \A s \in {fd', af'.peer} \ {NoFd} : s \notin fds' \cup streams'
        /\ fd' = af'.peer => fd' = NoFd
    BY <1>1, <1>2, <1>4, <2>1, <2>2 DEF SlotsPartition
  <2>6. QED BY <2>3, <2>4, <2>5 DEF SlotsPartition
<1>13. Closing' /\ Reserved'
  BY <1>1, <1>4 DEF IInv, Owners, Closing, Reserved
<1>14. QED BY <1>6, <1>7, <1>8, <1>10, <1>11, <1>12, <1>13 DEF IInv, Core, Owners

\* await_resume of a cancel or a close.
LEMMA OtherReturnsIInv ==
    ASSUME IInv, Resume, NEW c, c = Head(handles),
           CancelReturns(c) \/ CloseReturns(c)
    PROVE  IInv'
<1> DEFINE CF == [h : Coros \cup {None}, initiated : BOOLEAN, done : BOOLEAN]
<1>1. /\ Core /\ TypeOK /\ ~Leaving /\ ~Dropping
      /\ pc = "user" /\ handles # <<>> /\ c \in Coros
      /\ Ready(c) /\ co[c] \in Busy /\ co'[c] = "idle"
      /\ \A d \in Coros \ {c} : co'[d] = co[d]
      /\ co' \in [Coros -> {"idle", "accepting", "cancelling", "closing", "gone"}]
      /\ handles' = Tail(handles) /\ refs' = refs - 1
      /\ UNCHANGED <<fd, fds, pc, back, sq, work, file, acc, cq, accepts>>
  BY ResumeFacts
<1>2. UNCHANGED <<af, streams>>
  BY DEF CancelReturns, CloseReturns
<1>3. \/ /\ co[c] = "cancelling" /\ cnf.done /\ clf' = clf
         /\ cnf'.h = None /\ cnf'.initiated = FALSE /\ cnf'.done = FALSE
      \/ /\ co[c] = "closing" /\ clf.done /\ cnf' = cnf
         /\ clf'.h = None /\ clf'.initiated = FALSE /\ clf'.done = FALSE
  BY <1>1 DEF CancelReturns, CloseReturns, Ready, CancelReset, CloseReset
<1>4. cnf' \in CF /\ clf' \in CF
  <2>1. cnf \in CF /\ clf \in CF
    BY <1>1 DEF TypeOK
  <2>2. CancelReset \in CF /\ CloseReset \in CF
    BY DEF CancelReset, CloseReset
  <2>3. QED BY <2>1, <2>2 DEF CancelReturns, CloseReturns
<1>5. (MustCancel' <=> MustCancel) /\ \A op : Active(op)' <=> Active(op)
  BY <1>2, <1>3 DEF Active, MustCancel
<1>6. /\ Exact' /\ refs' \in Nat /\ handles' \in Seq(Coros)
      /\ Control' /\ Leave' /\ Flight'
      /\ \A x, y \in Coros : co'[x] = co'[y] /\ co'[x] \in Busy => x = y
      /\ \A d \in Coros : Times(handles, d) = Times(handles', d) + Bit(c = d)
  BY <1>1, <1>5, ReturnCore
<1>7. TypeOK'
  BY <1>1, <1>2, <1>4, <1>6 DEF TypeOK
<1>8. Frames'
  <2>1. cnf.done /\ cnf' # cnf => ~Active("cancel")
    BY DEF Active
  <2>2. clf.done /\ clf' # clf => ~Active("close")
    BY DEF Active
  <2>3. QED BY <1>1, <1>2, <1>3, <1>5, <1>6, <2>1, <2>2 DEF Core, Frames, Active
<1>9. Ids'
  BY <1>1, <1>2 DEF Core, Ids
<1>10. Waiters'
  <2>1. /\ af.h # None => af.h \in Coros /\ co[af.h] = "accepting"
    BY <1>1 DEF Core, Waiters, TypeOK
  <2>2. /\ cnf.h # None => cnf.h \in Coros /\ co[cnf.h] = "cancelling"
    BY <1>1 DEF Core, Waiters, TypeOK
  <2>3. /\ clf.h # None => clf.h \in Coros /\ co[clf.h] = "closing"
    BY <1>1 DEF Core, Waiters, TypeOK
  <2>4. \A d \in Coros : d # c => co[d] # co[c]
    BY <1>1 DEF Core, Frames
  <2>5. ASSUME NEW d \in Coros PROVE Times(handles', d) = Bit(Ready(d)')
    <3>1. Times(handles, d) = Bit(Ready(d)) /\ Times(handles', d) \in Nat
      BY <1>1, <1>6, Laws DEF Core, Waiters, TimesLaws
    <3>2. Times(handles, d) = Times(handles', d) + Bit(c = d)
      BY <1>6
    <3>3. ~(Ready(c)')
      BY <1>1 DEF Ready
    <3>4. d # c => (Ready(d)' <=> Ready(d))
      BY <1>1, <1>2, <1>3, <2>4 DEF Ready
    <3>5. QED BY <1>1, <3>1, <3>2, <3>3, <3>4 DEF Bit
  <2>6. cnf.done => cnf.h = None
    BY <1>1 DEF Core, Frames, Active
  <2>7. clf.done => clf.h = None
    BY <1>1 DEF Core, Frames, Active
  <2>8. /\ af'.h # None => co'[af'.h] = "accepting"
        /\ cnf'.h # None => co'[cnf'.h] = "cancelling"
        /\ clf'.h # None => co'[clf'.h] = "closing"
    BY <1>1, <1>2, <1>3, <2>1, <2>2, <2>3
  <2>9. \A d \in Coros :
            /\ co'[d] = "accepting" => af'.initiated
            /\ co'[d] = "cancelling" => cnf'.initiated
            /\ co'[d] = "closing" => clf'.initiated
    BY <1>1, <1>2, <1>3, <2>4 DEF Core, Waiters
  <2>10. QED BY <2>5, <2>8, <2>9 DEF Waiters
<1>11. Owners'
  BY <1>1, <1>2, OwnersStill DEF IInv
<1>12. QED BY <1>6, <1>7, <1>8, <1>9, <1>10, <1>11 DEF IInv, Core

\* A coroutine is resumed.
LEMMA ResumeIInv ==
    ASSUME IInv, Resume
    PROVE  IInv'
<1> DEFINE c == Head(handles)
<1>1. AcceptReturns(c) \/ CancelReturns(c) \/ CloseReturns(c)
  BY DEF Resume
<1> HIDE DEF c
<1>2. c = Head(handles)
  BY DEF c
<1>3. QED BY <1>1, <1>2, AcceptReturnsIInv, OtherReturnsIInv

-----------------------------------------------------------------------------
(* Completions.                                                            *)

\* A completion leaves the queue.
LEMMA CqShrinks ==
    ASSUME TypeOK, cq # <<>>, cq' = Tail(cq), UNCHANGED <<sq, work, acc>>,
           NEW k, k = Head(cq)
    PROVE  /\ k \in Cqe /\ k.op \in Ops /\ cq' \in Seq(Cqe)
           /\ \A op : Fl(op)' \in Nat /\ Fl(op) = Fl(op)' + Bit(k.op = op)
           /\ \A i \in 1..Len(cq') : i + 1 \in 1..Len(cq) /\ cq'[i] = cq[i + 1]
           /\ 1 \in 1..Len(cq) /\ cq[1] = k
           /\ \A op : Fl(op) = 1 /\ k.op = op =>
                 /\ \A i \in 1..Len(cq') : cq'[i].op # op
                 /\ \A i \in 1..Len(sq) : sq[i].op # op
                 /\ \A i \in 1..Len(work) : work[i].op # op
                 /\ op = "accept" => acc = NoAccept
<1>1. cq \in Seq(Cqe)
  BY DEF TypeOK
<1>2. /\ k \in Cqe /\ cq' \in Seq(Cqe) /\ 1 \in 1..Len(cq) /\ cq[1] = k
      /\ \A i \in 1..Len(cq') : i + 1 \in 1..Len(cq) /\ cq'[i] = cq[i + 1]
  BY <1>1, TailEntries
<1>3. k.op \in Ops
  BY <1>2 DEF Cqe, Ops
<1>4. \A op : OfOp(cq, op) = OfOp(cq', op) + Bit(k.op = op)
  BY <1>1, Laws DEF OpLaws
<1>5. ASSUME NEW op
      PROVE  /\ Fl(op)' \in Nat /\ Fl(op) = Fl(op)' + Bit(k.op = op)
             /\ Fl(op) = 1 /\ k.op = op =>
                 /\ \A i \in 1..Len(cq') : cq'[i].op # op
                 /\ \A i \in 1..Len(sq) : sq[i].op # op
                 /\ \A i \in 1..Len(work) : work[i].op # op
                 /\ op = "accept" => acc = NoAccept
  <2> DEFINE a == OfOp(sq, op)
             b == OfOp(work, op)
             d == OfOp(cq', op)
             z == Bit(op = "accept" /\ acc # NoAccept)
             y == Bit(k.op = op)
  <2>1. a \in Nat /\ b \in Nat /\ d \in Nat
    BY <1>2, Laws DEF TypeOK, OpLaws
  <2>2. z \in Nat /\ y \in Nat /\ (k.op = op => y = 1)
        /\ (z = 0 <=> ~(op = "accept" /\ acc # NoAccept))
    BY DEF Bit
  <2>3. Fl(op)' = ((a + b) + d) + z
    BY DEF Fl
  <2>4. OfOp(cq, op) = d + y /\ Fl(op) = ((a + b) + OfOp(cq, op)) + z
    BY <1>4 DEF Fl
  <2>5. /\ a = 0 => \A i \in 1..Len(sq) : sq[i].op # op
        /\ b = 0 => \A i \in 1..Len(work) : work[i].op # op
        /\ d = 0 => \A i \in 1..Len(cq') : cq'[i].op # op
    <3>1. sq \in Seq(Sqe) /\ work \in Seq(Sqe) /\ cq' \in Seq(Cqe)
      BY <1>2 DEF TypeOK
    <3>2. a = 0 => \A i \in 1..Len(sq) : sq[i].op # op
      BY <3>1, Laws DEF OpLaws
    <3>3. b = 0 => \A i \in 1..Len(work) : work[i].op # op
      BY <3>1, Laws DEF OpLaws
    <3>4. d = 0 => \A i \in 1..Len(cq') : cq'[i].op # op
      <4>1. \A s \in Seq(Cqe) : \A o : OfOp(s, o) = 0 <=> \A i \in 1..Len(s) : s[i].op # o
        BY Laws DEF OpLaws
      <4>2. QED BY <3>1, <4>1
    <3>5. QED BY <3>2, <3>3, <3>4
  <2> HIDE DEF a, b, d, y, z
  <2>6. Fl(op)' \in Nat /\ Fl(op) = Fl(op)' + y
    BY <2>1, <2>2, <2>3, <2>4
  <2>7. ASSUME Fl(op) = 1, k.op = op
        PROVE  /\ \A i \in 1..Len(cq') : cq'[i].op # op
               /\ \A i \in 1..Len(sq) : sq[i].op # op
               /\ \A i \in 1..Len(work) : work[i].op # op
               /\ op = "accept" => acc = NoAccept
    <3>1. ((a + b) + d) + z = 0
      BY <2>1, <2>2, <2>3, <2>6, <2>7
    <3>2. a = 0 /\ b = 0 /\ d = 0 /\ z = 0
      BY <2>1, <2>2, <3>1, SumZero
    <3>3. QED BY <2>2, <2>5, <3>2
  <2>8. QED BY <2>6, <2>7 DEF y
<1>6. QED BY <1>2, <1>3, <1>5

\* The reference of a completion is given up.
LEMMA DropCounts ==
    ASSUME Core, NEW op \in Ops, refs' = refs - 1, co' = co,
           \A o \in Ops : Fl(o)' \in Nat /\ Fl(o) = Fl(o)' + Bit(op = o)
    PROVE  Exact' /\ refs' \in Nat
<1> DEFINE P == Pop(co, Coros, Alive) + Pop(co, Coros, Busy)
           a == Fl("accept")'
           b == Fl("cancel")'
           d == Fl("close")'
<1>1. P \in Nat
  <2>1. Pop(co, Coros, Alive) \in Nat /\ Pop(co, Coros, Busy) \in Nat
    BY Laws
  <2>2. QED BY <2>1
<1>2. a \in Nat /\ b \in Nat /\ d \in Nat
  BY DEF Ops
<1>3. refs = P + ((Fl("accept") + Fl("cancel")) + Fl("close"))
  BY DEF Core, Exact
<1>4. /\ Fl("accept") = a + Bit(op = "accept")
      /\ Fl("cancel") = b + Bit(op = "cancel")
      /\ Fl("close") = d + Bit(op = "close")
  BY DEF Ops
<1>5. Exact' <=> refs' = P + ((a + b) + d)
  BY DEF Exact
<1> HIDE DEF P, a, b, d
<1>6. (Fl("accept") + Fl("cancel")) + Fl("close") = ((a + b) + d) + 1
  BY <1>2, <1>4 DEF Ops, Bit
<1>7. refs' = P + ((a + b) + d)
  BY <1>1, <1>2, <1>3, <1>6
<1>8. QED BY <1>1, <1>2, <1>5, <1>7

\* ~guard releases the reference of a completion.
LEMMA FlushIInv ==
    ASSUME IInv, Flush
    PROVE  IInv'
<1>1. /\ UNCHANGED <<af, cnf, clf, fd, fds, streams, co, handles, pc, back, sq,
                     work, file, acc, accepts>>
      /\ pc = "flush" /\ cq # <<>> /\ cq' = Tail(cq) /\ refs' = refs - 1
      /\ Core /\ TypeOK
  BY DEF IInv, Core, Flush, fdVars, loopVars
<1> DEFINE k == Head(cq)
<1>2. k = Head(cq)
  OBVIOUS
<1> HIDE DEF k
<1>3. /\ k.op \in Ops /\ cq' \in Seq(Cqe)
      /\ \A op : Fl(op)' \in Nat /\ Fl(op) = Fl(op)' + Bit(k.op = op)
      /\ \A i \in 1..Len(cq') : i + 1 \in 1..Len(cq) /\ cq'[i] = cq[i + 1]
  BY <1>1, <1>2, CqShrinks
<1>4. Exact' /\ refs' \in Nat
  BY <1>1, <1>3, DropCounts
<1>5. TypeOK'
  BY <1>1, <1>3, <1>4 DEF TypeOK
<1>6. Control' /\ Leave'
  BY <1>1 DEF Core, Control, Leave, Leaving
<1>7. Frames'
  BY <1>1 DEF Core, Frames, Active, MustCancel
<1>8. Flight'
  BY <1>1 DEF Flight, Dropping
<1>9. Ids'
  BY <1>1, <1>3 DEF Core, Ids
<1>10. Waiters'
  BY <1>1 DEF Core, Waiters, Ready, Leaving
<1>11. SlotsPartition'
  BY <1>1 DEF IInv, Owners, SlotsPartition
<1>12. Closing' /\ Reserved'
  BY <1>1, <1>3 DEF IInv, Owners, Closing, Reserved
<1>13. QED BY <1>4, <1>5, <1>6, <1>7, <1>8, <1>9, <1>10, <1>11, <1>12
       DEF IInv, Core, Owners

\* What a completion that is processed meets.
LEMMA ReapFacts ==
    ASSUME IInv, Reap, NEW k, k = Head(cq)
    PROVE  /\ Core /\ TypeOK /\ ~Leaving /\ ~Dropping /\ pc = "reap" /\ sq = <<>>
           /\ UNCHANGED <<streams, co, pc, back, sq, work, file, acc, accepts>>
           /\ k \in Cqe /\ k.op \in Ops /\ cq' \in Seq(Cqe) /\ Active(k.op)
           /\ 1 \in 1..Len(cq) /\ cq[1] = k
           /\ \A i \in 1..Len(cq') : i + 1 \in 1..Len(cq) /\ cq'[i] = cq[i + 1]
           /\ \A i \in 1..Len(cq') : cq'[i].op # k.op
           /\ \A i \in 1..Len(work) : work[i].op # k.op
           /\ k.op = "accept" => acc = NoAccept
           /\ Exact' /\ refs' \in Nat
           /\ \A op \in Ops : Fl(op) = Fl(op)' + Bit(k.op = op) /\ Fl(op)' \in Nat
<1>1. /\ Core /\ TypeOK /\ ~Leaving /\ ~Dropping /\ pc = "reap" /\ sq = <<>>
      /\ UNCHANGED <<streams, co, pc, back, sq, work, file, acc, accepts>>
      /\ cq # <<>> /\ cq' = Tail(cq) /\ refs' = refs - 1
  BY DEF IInv, Core, Control, Leaving, Dropping, Reap
<1>2. /\ k \in Cqe /\ k.op \in Ops /\ cq' \in Seq(Cqe)
      /\ \A op : Fl(op)' \in Nat /\ Fl(op) = Fl(op)' + Bit(k.op = op)
      /\ \A i \in 1..Len(cq') : i + 1 \in 1..Len(cq) /\ cq'[i] = cq[i + 1]
      /\ 1 \in 1..Len(cq) /\ cq[1] = k
      /\ \A op : Fl(op) = 1 /\ k.op = op =>
            /\ \A i \in 1..Len(cq') : cq'[i].op # op
            /\ \A i \in 1..Len(sq) : sq[i].op # op
            /\ \A i \in 1..Len(work) : work[i].op # op
            /\ op = "accept" => acc = NoAccept
  BY <1>1, CqShrinks
<1>3. Fl(k.op) > 0
  BY <1>1, <1>2, SomeInFlight
<1>4. Active(k.op) /\ Fl(k.op) = 1
  BY <1>1, <1>2, <1>3, InFlightActive
<1>5. Exact' /\ refs' \in Nat
  BY <1>1, <1>2, DropCounts
<1>6. QED BY <1>1, <1>2, <1>4, <1>5

\* The counts when the frame of the completion is done.
LEMMA ReapFlight ==
    ASSUME Core, ~Dropping, NEW op \in Ops, Active(op),
           \A o \in Ops : Fl(o) = Fl(o)' + Bit(op = o) /\ Fl(o)' \in Nat,
           \A o \in Ops : Active(o)' <=> Active(o) /\ o # op
    PROVE  Flight'
<1>1. ASSUME NEW o \in Ops PROVE Fl(o)' = Bit(Active(o)')
  <2>1. Fl(o) = Bit(Active(o)) /\ Fl(o) = Fl(o)' + Bit(op = o) /\ Fl(o)' \in Nat
    BY DEF Core, Flight
  <2>2. (Active(o)' <=> Active(o) /\ o # op) /\ (o = op => Active(o))
    OBVIOUS
  <2>3. QED BY <2>1, <2>2 DEF Bit
<1>2. QED BY <1>1 DEF Flight

\* The handle of the frame is collected once.
LEMMA CollectOnce ==
    ASSUME Core, ~Leaving, NEW h \in Coros, ~Ready(h), co' = co,
           handles' = Append(handles, h),
           \A d \in Coros : Ready(d)' <=> Ready(d) \/ d = h
    PROVE  /\ handles' \in Seq(Coros)
           /\ \A d \in Coros : Times(handles', d) = Bit(Ready(d)')
<1>1. handles \in Seq(Coros)
  BY DEF Core, TypeOK
<1>2. handles' \in Seq(Coros)
  BY <1>1
<1>3. ASSUME NEW d \in Coros PROVE Times(handles', d) = Bit(Ready(d)')
  <2>1. Times(handles', d) = Times(handles, d) + Bit(h = d)
    BY <1>1, Laws DEF TimesLaws
  <2>2. Times(handles, d) = Bit(Ready(d))
    BY DEF Core, Waiters
  <2>3. Ready(d)' <=> Ready(d) \/ d = h
    OBVIOUS
  <2>4. QED BY <2>1, <2>2, <2>3 DEF Bit
<1>4. QED BY <1>2, <1>3

\* accept_frame::await_process_cqe.
LEMMA ProcessAcceptIInv ==
    ASSUME IInv, Reap, ProcessAccept
    PROVE  IInv'
<1> DEFINE k == Head(cq)
           failed == k.res # Ok
           g == [af EXCEPT !.done = TRUE, !.h = None,
                           !.peer = IF failed THEN NoFd ELSE @]
           AF == [h : Coros \cup {None}, peer : Slots \cup {NoFd},
                  initiated : BOOLEAN, done : BOOLEAN, n : 0..MaxAccepts]
<1>0. /\ k = Head(cq) /\ k.op = "accept" /\ af' = g
      /\ fds' = (IF failed THEN fds \cup {af.peer} ELSE fds)
      /\ handles' = Collect(af.h) /\ UNCHANGED <<cnf, clf, fd>>
  BY DEF ProcessAccept
<1> HIDE DEF k
<1>1. /\ Core /\ TypeOK /\ ~Leaving /\ ~Dropping /\ pc = "reap" /\ sq = <<>>
      /\ UNCHANGED <<streams, co, pc, back, sq, work, file, acc, accepts>>
      /\ k \in Cqe /\ k.op \in Ops /\ cq' \in Seq(Cqe) /\ Active(k.op)
      /\ 1 \in 1..Len(cq) /\ cq[1] = k
      /\ \A i \in 1..Len(cq') : i + 1 \in 1..Len(cq) /\ cq'[i] = cq[i + 1]
      /\ \A i \in 1..Len(cq') : cq'[i].op # k.op
      /\ acc = NoAccept
      /\ Exact' /\ refs' \in Nat
      /\ \A op \in Ops : Fl(op) = Fl(op)' + Bit(k.op = op) /\ Fl(op)' \in Nat
  BY <1>0, ReapFacts
<1>2. /\ MustCancel /\ af.initiated /\ ~af.done /\ af.peer \in Slots /\ af.h \in Coros
      /\ af.h # None /\ co[af.h] = "accepting" /\ af.peer # NoFd
  <2>1. MustCancel /\ Active("accept")
    BY <1>0, <1>1 DEF Active
  <2>2. af.h # None /\ af.peer \in Slots
    BY <1>1, <2>1 DEF Core, Frames
  <2>3. QED BY <1>1, <2>1, <2>2, AcceptorAssumption DEF Core, Waiters, TypeOK, MustCancel
<1>3. /\ g \in AF /\ g.h = None /\ g.initiated = TRUE /\ g.done = TRUE
      /\ g.peer = (IF failed THEN NoFd ELSE af.peer) /\ g.n = af.n
  <2>1. af \in AF
    BY <1>1 DEF TypeOK
  <2>2. QED BY <1>2, <2>1
<1>4. af' = g
  BY <1>0
<1> HIDE DEF g
<1>5. handles' = Append(handles, af.h)
  BY <1>0, <1>2 DEF Collect
<1>6. ~(MustCancel') /\ \A o : Active(o)' <=> Active(o) /\ o # "accept"
  BY <1>0, <1>3, <1>4 DEF Active, MustCancel
<1>7. Flight'
  BY <1>0, <1>1, <1>6, ReapFlight
<1>8. /\ handles' \in Seq(Coros)
      /\ \A d \in Coros : Times(handles', d) = Bit(Ready(d)')
  <2>1. \A d \in Coros : co[d] = "accepting" <=> d = af.h
    BY <1>1, <1>2 DEF Core, Frames, Busy
  <2>2. \A d \in Coros : Ready(d)' <=> Ready(d) \/ d = af.h
    BY <1>0, <1>1, <1>2, <1>3, <1>4, <2>1 DEF Ready
  <2>3. ~Ready(af.h)
    BY <1>2 DEF Ready
  <2>4. QED BY <1>1, <1>2, <1>5, <2>2, <2>3, CollectOnce
<1>9. TypeOK'
  <2>1. fds' \subseteq Slots
    BY <1>0, <1>1, <1>2 DEF TypeOK
  <2>2. QED BY <1>0, <1>1, <1>3, <1>4, <1>8, <2>1 DEF TypeOK
<1>10. Control' /\ Leave'
  BY <1>1 DEF Control, Leave, Leaving
<1>11. Frames'
  <2>1. /\ ~(Active("accept")') /\ (Active("cancel")' <=> Active("cancel"))
        /\ (Active("close")' <=> Active("close"))
    BY <1>6
  <2>2. /\ (cnf'.done => cnf'.initiated) /\ (cnf'.h # None <=> Active("cancel")')
        /\ (clf'.done => clf'.initiated) /\ (clf'.h # None <=> Active("close")')
        /\ \A x, y \in Coros : co'[x] = co'[y] /\ co'[x] \in Busy => x = y
    BY <1>0, <1>1, <2>1 DEF Core, Frames
  <2>3. QED BY <1>3, <1>4, <1>6, <2>1, <2>2 DEF Frames
<1>12. Ids'
  BY <1>0, <1>1 DEF Ids
<1>13. Waiters'
  BY <1>0, <1>1, <1>3, <1>4, <1>8 DEF Core, Waiters
<1>14. file[af.peer] = (IF failed THEN "empty" ELSE "peer")
  BY <1>0, <1>1, <1>2 DEF IInv, Owners, Reserved
<1>15. af'.peer = (IF failed THEN NoFd ELSE af.peer)
  BY <1>3, <1>4
<1>16. SlotsPartition'
  <2>1. SlotsPartition /\ fds \subseteq Slots /\ streams \subseteq Slots
        /\ fd \in Slots \cup {NoFd}
    BY <1>1 DEF IInv, Owners, TypeOK
  <2>2. af.peer \notin streams /\ af.peer # fd
    BY <1>2, <2>1 DEF SlotsPartition
  <2>3. CASE failed
    <3>1. fds' = fds \cup {af.peer} /\ af'.peer = NoFd /\ file'[af.peer] = "empty"
      BY <1>0, <1>1, <1>14, <1>15, <2>3
    <3>2. Slots = fds' \cup streams' \cup ({fd', af'.peer} \ {NoFd})
      BY <1>0, <1>1, <1>2, <2>1, <2>2, <3>1 DEF SlotsPartition
    <3>3. QED BY <1>0, <1>1, <1>2, <2>1, <2>2, <3>1, <3>2 DEF SlotsPartition
  <2>4. CASE ~failed
    <3>1. fds' = fds /\ af'.peer = af.peer
      BY <1>0, <1>15, <2>4
    <3>2. QED BY <1>0, <1>1, <2>1, <3>1 DEF SlotsPartition
  <2>5. QED BY <2>3, <2>4
<1>17. Closing'
  BY <1>0, <1>1 DEF IInv, Owners, Closing
<1>18. Reserved'
  BY <1>0, <1>1, <1>14, <1>15 DEF Reserved
<1>19. QED BY <1>1, <1>7, <1>9, <1>10, <1>11, <1>12, <1>13, <1>16, <1>17, <1>18
       DEF IInv, Core, Owners

\* What a frame of a cancel or a close holds once its operation has completed.
LEMMA FrameCompletes ==
    ASSUME NEW f, f.initiated = TRUE,
           f \in [h : Coros \cup {None}, initiated : BOOLEAN, done : BOOLEAN]
    PROVE  LET g == [f EXCEPT !.done = TRUE, !.h = None] IN
             /\ g \in [h : Coros \cup {None}, initiated : BOOLEAN, done : BOOLEAN]
             /\ g.h = None /\ g.initiated = TRUE /\ g.done = TRUE
OBVIOUS

\* cancel_frame::await_process_cqe.
LEMMA ProcessCancelIInv ==
    ASSUME IInv, Reap, ProcessCancel
    PROVE  IInv'
<1> DEFINE k == Head(cq)
           CF == [h : Coros \cup {None}, initiated : BOOLEAN, done : BOOLEAN]
<1>0. /\ k = Head(cq) /\ k.op = "cancel"
      /\ cnf' = [cnf EXCEPT !.done = TRUE, !.h = None]
      /\ handles' = Collect(cnf.h) /\ UNCHANGED <<af, clf, fd, fds>>
  BY DEF ProcessCancel
<1> HIDE DEF k
<1>1. /\ Core /\ TypeOK /\ ~Leaving /\ ~Dropping /\ pc = "reap" /\ sq = <<>>
      /\ UNCHANGED <<streams, co, pc, back, sq, work, file, acc, accepts>>
      /\ k \in Cqe /\ k.op \in Ops /\ cq' \in Seq(Cqe) /\ Active(k.op)
      /\ \A i \in 1..Len(cq') : i + 1 \in 1..Len(cq) /\ cq'[i] = cq[i + 1]
      /\ Exact' /\ refs' \in Nat
      /\ \A op \in Ops : Fl(op) = Fl(op)' + Bit(k.op = op) /\ Fl(op)' \in Nat
  BY <1>0, ReapFacts
<1>2. /\ cnf.initiated = TRUE /\ cnf.done = FALSE /\ cnf.h \in Coros
      /\ cnf.h # None /\ co[cnf.h] = "cancelling"
  <2>1. Active("cancel") /\ cnf.initiated /\ ~cnf.done
    BY <1>0, <1>1 DEF Active
  <2>2. cnf.h # None
    BY <1>1, <2>1 DEF Core, Frames
  <2>3. QED BY <1>1, <2>1, <2>2 DEF Core, Waiters, TypeOK
<1>3. /\ cnf' \in CF /\ cnf'.h = None /\ cnf'.initiated = TRUE /\ cnf'.done = TRUE
  <2>1. cnf \in CF
    BY <1>1 DEF TypeOK
  <2>2. QED BY <1>0, <1>2, <2>1, FrameCompletes
<1>5. handles' = Append(handles, cnf.h)
  BY <1>0, <1>2 DEF Collect
<1>6. (MustCancel' <=> MustCancel) /\ \A o : Active(o)' <=> Active(o) /\ o # "cancel"
  BY <1>0, <1>3 DEF Active, MustCancel
<1>7. Flight'
  BY <1>0, <1>1, <1>6, ReapFlight
<1>8. /\ handles' \in Seq(Coros)
      /\ \A d \in Coros : Times(handles', d) = Bit(Ready(d)')
  <2>1. \A d \in Coros : co[d] = "cancelling" <=> d = cnf.h
    BY <1>1, <1>2 DEF Core, Frames, Busy
  <2>2. \A d \in Coros : Ready(d)' <=> Ready(d) \/ d = cnf.h
    BY <1>0, <1>1, <1>2, <1>3, <2>1 DEF Ready
  <2>3. ~Ready(cnf.h)
    BY <1>2 DEF Ready
  <2>4. QED BY <1>1, <1>2, <1>5, <2>2, <2>3, CollectOnce
<1>9. TypeOK'
  BY <1>0, <1>1, <1>3, <1>8 DEF TypeOK
<1>10. Control' /\ Leave'
  BY <1>1 DEF Control, Leave, Leaving
<1>11. Frames'
  <2>1. /\ ~(Active("cancel")') /\ (Active("accept")' <=> Active("accept"))
        /\ (Active("close")' <=> Active("close"))
    BY <1>6
  <2>2. /\ (af'.done => af'.initiated) /\ (af'.h # None <=> Active("accept")')
        /\ (clf'.done => clf'.initiated) /\ (clf'.h # None <=> Active("close")')
        /\ (MustCancel' => af'.peer \in Slots)
        /\ (af'.peer # NoFd => af'.initiated)
        /\ \A x, y \in Coros : co'[x] = co'[y] /\ co'[x] \in Busy => x = y
    BY <1>0, <1>1, <1>6, <2>1 DEF Core, Frames
  <2>3. QED BY <1>3, <2>1, <2>2 DEF Frames
<1>12. Ids'
  BY <1>0, <1>1 DEF Core, Ids
<1>13. Waiters'
  BY <1>0, <1>1, <1>3, <1>8 DEF Core, Waiters
<1>14. SlotsPartition'
  BY <1>0, <1>1 DEF IInv, Owners, SlotsPartition
<1>15. Closing' /\ Reserved'
  BY <1>0, <1>1 DEF IInv, Owners, Closing, Reserved
<1>16. QED BY <1>1, <1>7, <1>9, <1>10, <1>11, <1>12, <1>13, <1>14, <1>15
       DEF IInv, Core, Owners

\* acceptor_close_frame::await_process_cqe.
LEMMA ProcessCloseIInv ==
    ASSUME IInv, Reap, ProcessClose
    PROVE  IInv'
<1> DEFINE k == Head(cq)
           CF == [h : Coros \cup {None}, initiated : BOOLEAN, done : BOOLEAN]
<1>0. /\ k = Head(cq) /\ k.op = "close"
      /\ clf' = [clf EXCEPT !.done = TRUE, !.h = None]
      /\ fds' = fds \cup ({fd} \ {NoFd}) /\ fd' = NoFd
      /\ handles' = Collect(clf.h) /\ UNCHANGED <<af, cnf>>
  BY DEF ProcessClose
<1> HIDE DEF k
<1>1. /\ Core /\ TypeOK /\ ~Leaving /\ ~Dropping /\ pc = "reap" /\ sq = <<>>
      /\ UNCHANGED <<streams, co, pc, back, sq, work, file, acc, accepts>>
      /\ k \in Cqe /\ k.op \in Ops /\ cq' \in Seq(Cqe) /\ Active(k.op)
      /\ 1 \in 1..Len(cq) /\ cq[1] = k
      /\ \A i \in 1..Len(cq') : i + 1 \in 1..Len(cq) /\ cq'[i] = cq[i + 1]
      /\ \A i \in 1..Len(cq') : cq'[i].op # k.op
      /\ \A i \in 1..Len(work) : work[i].op # k.op
      /\ Exact' /\ refs' \in Nat
      /\ \A op \in Ops : Fl(op) = Fl(op)' + Bit(k.op = op) /\ Fl(op)' \in Nat
  BY <1>0, ReapFacts
<1>2. /\ clf.initiated = TRUE /\ clf.done = FALSE /\ clf.h \in Coros
      /\ clf.h # None /\ co[clf.h] = "closing"
  <2>1. Active("close") /\ clf.initiated /\ ~clf.done
    BY <1>0, <1>1 DEF Active
  <2>2. clf.h # None
    BY <1>1, <2>1 DEF Core, Frames
  <2>3. QED BY <1>1, <2>1, <2>2 DEF Core, Waiters, TypeOK
<1>3. /\ clf' \in CF /\ clf'.h = None /\ clf'.initiated = TRUE /\ clf'.done = TRUE
  <2>1. clf \in CF
    BY <1>1 DEF TypeOK
  <2>2. QED BY <1>0, <1>2, <2>1, FrameCompletes
<1>4. fd \in Slots /\ file[fd] = "empty" /\ fd # NoFd
  BY <1>0, <1>1, AcceptorAssumption DEF IInv, Owners, Closing
<1>5. handles' = Append(handles, clf.h)
  BY <1>0, <1>2 DEF Collect
<1>6. (MustCancel' <=> MustCancel) /\ \A o : Active(o)' <=> Active(o) /\ o # "close"
  BY <1>0, <1>3 DEF Active, MustCancel
<1>7. Flight'
  BY <1>0, <1>1, <1>6, ReapFlight
<1>8. /\ handles' \in Seq(Coros)
      /\ \A d \in Coros : Times(handles', d) = Bit(Ready(d)')
  <2>1. \A d \in Coros : co[d] = "closing" <=> d = clf.h
    BY <1>1, <1>2 DEF Core, Frames, Busy
  <2>2. \A d \in Coros : Ready(d)' <=> Ready(d) \/ d = clf.h
    BY <1>0, <1>1, <1>2, <1>3, <2>1 DEF Ready
  <2>3. ~Ready(clf.h)
    BY <1>2 DEF Ready
  <2>4. QED BY <1>1, <1>2, <1>5, <2>2, <2>3, CollectOnce
<1>9. TypeOK'
  <2>1. fds' \subseteq Slots
    BY <1>0, <1>1, <1>4 DEF TypeOK
  <2>2. QED BY <1>0, <1>1, <1>3, <1>8, <2>1 DEF TypeOK
<1>10. Control' /\ Leave'
  BY <1>1 DEF Control, Leave, Leaving
<1>11. Frames'
  <2>1. /\ ~(Active("close")') /\ (Active("accept")' <=> Active("accept"))
        /\ (Active("cancel")' <=> Active("cancel"))
    BY <1>6
  <2>2. /\ (af'.done => af'.initiated) /\ (af'.h # None <=> Active("accept")')
        /\ (cnf'.done => cnf'.initiated) /\ (cnf'.h # None <=> Active("cancel")')
        /\ (MustCancel' => af'.peer \in Slots)
        /\ (af'.peer # NoFd => af'.initiated)
        /\ \A x, y \in Coros : co'[x] = co'[y] /\ co'[x] \in Busy => x = y
    BY <1>0, <1>1, <1>6, <2>1 DEF Core, Frames
  <2>3. QED BY <1>3, <2>1, <2>2 DEF Frames
<1>12. Ids'
  BY <1>0, <1>1 DEF Core, Ids
<1>13. Waiters'
  BY <1>0, <1>1, <1>3, <1>8 DEF Core, Waiters
<1>14. SlotsPartition'
  <2>1. SlotsPartition /\ fds \subseteq Slots /\ streams \subseteq Slots
        /\ af.peer \in Slots \cup {NoFd}
    BY <1>1 DEF IInv, Owners, TypeOK
  <2>2. fd \notin streams /\ af.peer # fd
    BY <1>4, <2>1 DEF SlotsPartition
  <2>3. fds' = fds \cup {fd}
    BY <1>0, <1>4
  <2>4. Slots = fds' \cup streams' \cup ({fd', af'.peer} \ {NoFd})
    BY <1>0, <1>1, <1>4, <2>1, <2>2, <2>3 DEF SlotsPartition
  <2>5. QED BY <1>0, <1>1, <1>4, <2>1, <2>2, <2>3, <2>4 DEF SlotsPartition
<1>15. Closing'
  BY <1>0, <1>1 DEF IInv, Owners, Closing
<1>16. Reserved'
  BY <1>0, <1>1 DEF IInv, Owners, Reserved
<1>17. QED BY <1>1, <1>7, <1>9, <1>10, <1>11, <1>12, <1>13, <1>14, <1>15, <1>16
       DEF IInv, Core, Owners

\* A completion is processed.
LEMMA ReapIInv ==
    ASSUME IInv, Reap
    PROVE  IInv'
<1>1. ProcessAccept \/ ProcessCancel \/ ProcessClose
  BY DEF Reap
<1>2. QED BY <1>1, ProcessAcceptIInv, ProcessCancelIInv, ProcessCloseIInv

-----------------------------------------------------------------------------
(* The kernel.                                                             *)

AccType == [n : 0..MaxAccepts, slot : Slots \cup {NoFd}, on : Slots \cup {NoFd}]

\* The kernel moves operations and keeps their number.
LEMMA KernelCore ==
    ASSUME Core, UNCHANGED <<af, cnf, clf, refs, fd, fds, streams, co, handles,
                             pc, back, accepts>>,
           pc # "end", sq = <<>> => sq' = <<>>,
           sq' \in Seq(Sqe), work' \in Seq(Sqe), cq' \in Seq(Cqe),
           acc' \in AccType, file' \in [Slots -> {"empty", "listen", "peer"}],
           \A op \in Ops : Fl(op)' = Fl(op), Ids', Leave'
    PROVE  Core'
<1>1. TypeOK'
  BY DEF Core, TypeOK, AccType
<1>2. Exact' /\ Frames' /\ Flight'
  BY StillCounts DEF Dropping
<1>3. Control'
  BY DEF Core, Control, Leaving
<1>4. Waiters'
  BY DEF Core, Waiters, Ready, Leaving
<1>5. QED BY <1>1, <1>2, <1>3, <1>4 DEF Core

\* The kernel takes the head of the submission queue.
LEMMA HeadFacts ==
    ASSUME TypeOK, sq # <<>>, NEW o, o = Head(sq), sq' = Tail(sq)
    PROVE  /\ o \in Sqe /\ sq' \in Seq(Sqe) /\ 1 \in 1..Len(sq) /\ sq[1] = o
           /\ \A i \in 1..Len(sq') : i + 1 \in 1..Len(sq) /\ sq'[i] = sq[i + 1]
           /\ \A op : OfOp(sq', op) \in Nat /\ OfOp(sq, op) = OfOp(sq', op) + Bit(o.op = op)
<1>1. sq \in Seq(Sqe)
  BY DEF TypeOK
<1>2. /\ o \in Sqe /\ sq' \in Seq(Sqe) /\ 1 \in 1..Len(sq) /\ sq[1] = o
      /\ \A i \in 1..Len(sq') : i + 1 \in 1..Len(sq) /\ sq'[i] = sq[i + 1]
  BY <1>1, TailEntries
<1>3. \A op : OfOp(sq, op) = OfOp(sq', op) + Bit(o.op = op)
  BY <1>1, Laws DEF OpLaws
<1>4. \A op : OfOp(sq', op) \in Nat
  BY <1>2, Laws DEF OpLaws
<1>5. QED BY <1>2, <1>3, <1>4

\* The closes in flight when the submission queue loses its head.
LEMMA ClosingStill ==
    ASSUME Closing, fd' = fd, file' = file,
           \A i \in 1..Len(sq') : i + 1 \in 1..Len(sq) /\ sq'[i] = sq[i + 1],
           \A i \in 1..Len(work') :
              \/ i \in 1..Len(work) /\ work'[i] = work[i]
              \/ work'[i].op = "close" /\ work'[i].on = fd /\ fd \in Slots,
           \A i \in 1..Len(cq') :
              (i \in 1..Len(cq) /\ cq'[i] = cq[i]) \/ cq'[i].op # "close"
    PROVE  Closing'
<1>1. \A i \in 1..Len(sq') : sq'[i].op = "close" => sq'[i].on = fd' /\ fd' \in Slots
  BY DEF Closing
<1>2. \A i \in 1..Len(work') :
         work'[i].op = "close" /\ work'[i].on = fd' /\ fd' \in Slots
  BY DEF Closing
<1>3. \A i \in 1..Len(cq') : cq'[i].op = "close" =>
         fd' \in Slots /\ file'[fd'] = "empty"
  BY DEF Closing
<1>4. QED BY <1>1, <1>2, <1>3 DEF Closing

\* The completion queue grows.
LEMMA CqGrows ==
    ASSUME NEW q \in Seq(Cqe), NEW e \in Cqe
    PROVE  /\ Append(q, e) \in Seq(Cqe)
           /\ \A op : OfOp(q, op) \in Nat
                      /\ OfOp(Append(q, e), op) = OfOp(q, op) + Bit(e.op = op)
           /\ \A i \in 1..Len(Append(q, e)) :
                 (i \in 1..Len(q) /\ Append(q, e)[i] = q[i]) \/ Append(q, e)[i] = e
<1>1. /\ Append(q, e) \in Seq(Cqe)
      /\ \A i \in 1..Len(Append(q, e)) :
            (i \in 1..Len(q) /\ Append(q, e)[i] = q[i]) \/ Append(q, e)[i] = e
  BY Entries
<1>2. \A op : OfOp(q, op) \in Nat
  BY Laws DEF OpLaws
<1>3. \A op : OfOp(Append(q, e), op) = OfOp(q, op) + Bit(e.op = op)
  BY Laws DEF OpLaws
<1>4. QED BY <1>1, <1>2, <1>3

\* What a cancel of the accept in flight adds to the completions.
LEMMA CancelledFacts ==
    ASSUME TypeOK, NEW q, q = Cancelled
    PROVE  /\ q \in Seq(Cqe)
           /\ \A op : OfOp(q, op) = OfOp(cq, op)
                                    + Bit(op = "accept" /\ acc # NoAccept)
           /\ \A i \in 1..Len(q) :
                 \/ i \in 1..Len(cq) /\ q[i] = cq[i]
                 \/ /\ acc # NoAccept
                    /\ q[i].op = "accept" /\ q[i].n = acc.n /\ q[i].res # Ok
<1> DEFINE e == Done("accept", "ECANCELED", acc.n)
<1>1. /\ e \in Cqe /\ e.op = "accept" /\ e.n = acc.n /\ e.res # Ok
  <2>1. acc.n \in 0..MaxAccepts /\ "accept" \in Ops
        /\ "ECANCELED" \in Errors \cup {Ok} /\ "ECANCELED" # Ok
    BY DEF TypeOK, Ops, Errors, Ok
  <2>2. QED BY <2>1, CqeFacts
<1>2. cq \in Seq(Cqe) /\ \A op : OfOp(cq, op) \in Nat
  BY Numbers DEF TypeOK
<1>3. CASE acc = NoAccept
  BY <1>2, <1>3 DEF Cancelled, Bit
<1>4. CASE acc # NoAccept
  <2>1. q = Append(cq, e)
    BY <1>4 DEF Cancelled
  <2> HIDE DEF e
  <2>2. /\ q \in Seq(Cqe) /\ \A op : OfOp(q, op) = OfOp(cq, op) + Bit(e.op = op)
        /\ \A i \in 1..Len(q) : (i \in 1..Len(cq) /\ q[i] = cq[i]) \/ q[i] = e
    BY <1>1, <1>2, <2>1, CqGrows
  <2>3. QED BY <1>1, <1>4, <2>2 DEF Bit
<1>5. QED BY <1>3, <1>4

\* What a step of the kernel that takes an operation has to show.
LEMMA TakeIInv ==
    ASSUME IInv, KernelTakes,
           work' \in Seq(Sqe), cq' \in Seq(Cqe), acc' \in AccType,
           \A op \in Ops : Fl(op)' = Fl(op), Ids', Leave', Closing', Reserved'
    PROVE  IInv'
<1>1. /\ UNCHANGED <<af, cnf, clf, refs, fd, fds, streams, co, handles, pc, back,
                     file, accepts>>
      /\ pc = "submit" /\ sq # <<>> /\ sq' = Tail(sq) /\ TypeOK /\ Core
  BY DEF IInv, Core, KernelTakes, frameVars, fdVars, loopVars
<1>2. sq' \in Seq(Sqe)
  BY <1>1, HeadFacts
<1>3. Core'
  BY <1>1, <1>2, KernelCore DEF TypeOK
<1>4. SlotsPartition'
  BY <1>1 DEF IInv, Owners, SlotsPartition
<1>5. QED BY <1>3, <1>4 DEF IInv, Owners

\* What the kernel finds when it takes an operation.
LEMMA KernelTakesFacts ==
    ASSUME IInv, KernelTakes, NEW o, o = Head(sq)
    PROVE  /\ Core /\ TypeOK /\ ~Dropping /\ Take(o)
           /\ UNCHANGED <<af, cnf, clf, fd, co, back, file>>
           /\ o \in Sqe /\ sq' \in Seq(Sqe) /\ 1 \in 1..Len(sq) /\ sq[1] = o
           /\ \A i \in 1..Len(sq') : i + 1 \in 1..Len(sq) /\ sq'[i] = sq[i + 1]
           /\ \A op : OfOp(sq', op) \in Nat /\ OfOp(sq, op) = OfOp(sq', op) + Bit(o.op = op)
           /\ \A op : OfOp(work, op) \in Nat /\ OfOp(cq, op) \in Nat
           /\ work \in Seq(Sqe) /\ cq \in Seq(Cqe) /\ acc \in AccType
<1>1. /\ Core /\ TypeOK /\ ~Dropping /\ Take(o) /\ sq # <<>> /\ sq' = Tail(sq)
      /\ UNCHANGED <<af, cnf, clf, fd, co, back, file>>
  BY DEF IInv, Core, Dropping, KernelTakes, frameVars, fdVars, loopVars
<1>2. /\ o \in Sqe /\ sq' \in Seq(Sqe) /\ 1 \in 1..Len(sq) /\ sq[1] = o
      /\ \A i \in 1..Len(sq') : i + 1 \in 1..Len(sq) /\ sq'[i] = sq[i + 1]
      /\ \A op : OfOp(sq', op) \in Nat /\ OfOp(sq, op) = OfOp(sq', op) + Bit(o.op = op)
  BY <1>1, HeadFacts
<1>3. \A op : OfOp(work, op) \in Nat /\ OfOp(cq, op) \in Nat
  BY <1>1, Numbers
<1>4. work \in Seq(Sqe) /\ cq \in Seq(Cqe) /\ acc \in AccType
  BY <1>1 DEF TypeOK, AccType
<1>5. QED BY <1>1, <1>2, <1>3, <1>4

\* An accept that is taken is the only one.
LEMMA OnlyAccept ==
    ASSUME IInv, KernelTakes, NEW o, o = Head(sq), o.op = "accept"
    PROVE  /\ acc = NoAccept /\ OfOp(sq', "accept") = 0
           /\ OfOp(cq, "accept") = 0 /\ OfOp(sq, "accept") = 1
           /\ \A i \in 1..Len(sq') : sq'[i].op # "accept"
           /\ \A i \in 1..Len(cq) : cq[i].op # "accept"
           /\ MustCancel /\ af.peer \in Slots /\ o.slot = af.peer /\ o.n = af.n
           /\ file[af.peer] = "empty" /\ af.peer # NoFd /\ ~af.done
<1> DEFINE a == OfOp(sq', "accept")
           b == OfOp(work, "accept")
           d == OfOp(cq, "accept")
           z == Bit("accept" = "accept" /\ acc # NoAccept)
<1>1. /\ Core /\ TypeOK /\ ~Dropping /\ sq' \in Seq(Sqe) /\ cq \in Seq(Cqe)
      /\ 1 \in 1..Len(sq) /\ sq[1] = o
      /\ a \in Nat /\ OfOp(sq, "accept") = a + Bit(o.op = "accept")
      /\ b \in Nat /\ d \in Nat
  BY KernelTakesFacts
<1>2. "accept" \in Ops
  BY DEF Ops
<1>3. Fl("accept") > 0
  BY <1>1, <1>2, SomeInFlight
<1>4. Active("accept") /\ Fl("accept") = 1
  BY <1>1, <1>2, <1>3, InFlightActive
<1>5. z \in Nat /\ (z = 0 <=> acc = NoAccept) /\ Bit(o.op = "accept") = 1
  BY DEF Bit
<1>6. Fl("accept") = ((OfOp(sq, "accept") + b) + d) + z
  BY DEF Fl
<1> HIDE DEF a, b, d, z
<1>7. ((a + b) + d) + z = 0
  BY <1>1, <1>4, <1>5, <1>6
<1>8. a = 0 /\ b = 0 /\ d = 0 /\ z = 0
  BY <1>1, <1>5, <1>7, SumZero
<1>9. \A i \in 1..Len(sq') : sq'[i].op # "accept"
  <2>1. \A s \in Seq(Sqe) : \A op :
           OfOp(s, op) = 0 <=> \A i \in 1..Len(s) : s[i].op # op
    BY Laws DEF OpLaws
  <2>2. QED BY <1>1, <1>8, <2>1 DEF a
<1>10. \A i \in 1..Len(cq) : cq[i].op # "accept"
  <2>1. \A s \in Seq(Cqe) : \A op :
           OfOp(s, op) = 0 <=> \A i \in 1..Len(s) : s[i].op # op
    BY Laws DEF OpLaws
  <2>2. QED BY <1>1, <1>8, <2>1 DEF d
<1>11. MustCancel /\ af.peer \in Slots /\ o.slot = af.peer /\ o.n = af.n /\ ~af.done
  <2>1. MustCancel
    BY <1>4 DEF Active
  <2>2. o.slot = af.peer /\ o.n = af.n
    BY <1>1 DEF Core, Ids
  <2>3. QED BY <1>1, <2>1, <2>2 DEF Core, Frames, MustCancel
<1>12. file[af.peer] = "empty" /\ af.peer # NoFd
  BY <1>1, <1>11, AcceptorAssumption DEF IInv, Owners, Reserved
<1>13. OfOp(sq, "accept") = 1
  BY <1>1, <1>5, <1>8
<1>14. QED BY <1>5, <1>8, <1>9, <1>10, <1>11, <1>12, <1>13 DEF a, d

\* The accept is in the kernel, or fails at once.
LEMMA TakeAcceptIInv ==
    ASSUME IInv, KernelTakes, NEW o, o = Head(sq), o.op = "accept"
    PROVE  IInv'
<1>1. /\ Core /\ TypeOK /\ ~Dropping /\ Take(o)
      /\ UNCHANGED <<af, cnf, clf, fd, co, back, file>>
      /\ o \in Sqe /\ sq' \in Seq(Sqe)
      /\ \A i \in 1..Len(sq') : i + 1 \in 1..Len(sq) /\ sq'[i] = sq[i + 1]
      /\ \A op : OfOp(sq', op) \in Nat /\ OfOp(sq, op) = OfOp(sq', op) + Bit(o.op = op)
      /\ \A op : OfOp(work, op) \in Nat /\ OfOp(cq, op) \in Nat
      /\ work \in Seq(Sqe) /\ cq \in Seq(Cqe) /\ acc \in AccType
  BY KernelTakesFacts
<1>2. /\ acc = NoAccept /\ OfOp(sq, "accept") = 1
      /\ \A i \in 1..Len(sq') : sq'[i].op # "accept"
      /\ \A i \in 1..Len(cq) : cq[i].op # "accept"
      /\ MustCancel /\ af.peer \in Slots /\ o.slot = af.peer /\ o.n = af.n
      /\ file[af.peer] = "empty" /\ af.peer # NoFd /\ ~af.done
  BY OnlyAccept
<1>3. Leave'
  <2>1. Leaving => \E c \in Coros : co[c] = "accepting"
    BY <1>1, <1>2 DEF Core, Leave
  <2>2. QED BY <1>1, <2>1 DEF Leave, Leaving
<1>4. \/ /\ acc' = [n |-> o.n, slot |-> o.slot, on |-> o.on]
         /\ UNCHANGED <<work, cq>>
      \/ /\ cq' = Append(cq, Done("accept", "EBADF", o.n))
         /\ UNCHANGED <<work, acc>>
  BY <1>1 DEF Take
<1>5. CASE acc' = [n |-> o.n, slot |-> o.slot, on |-> o.on] /\ UNCHANGED <<work, cq>>
  <2>1. /\ acc' \in AccType /\ acc'.n = o.n /\ acc'.slot = o.slot
        /\ acc' # NoAccept
    <3>1. /\ acc' \in AccType /\ acc'.n = o.n /\ acc'.slot = o.slot
      BY <1>1, <1>5 DEF Sqe, AccType
    <3>2. NoAccept.slot = NoFd
      BY DEF NoAccept
    <3>3. QED BY <1>2, <3>1, <3>2
  <2>2. ASSUME NEW op \in Ops PROVE Fl(op)' = Fl(op)
    <3> DEFINE y == Bit(o.op = op)
    <3>1. /\ Bit(op = "accept" /\ acc' # NoAccept) = y /\ y \in Nat
          /\ Bit(op = "accept" /\ acc # NoAccept) = 0
      BY <1>2, <2>1 DEF Bit
    <3>2. OfOp(sq, op) = OfOp(sq', op) + y
      BY <1>1
    <3>3. Fl(op)' = ((OfOp(sq', op) + OfOp(work, op)) + OfOp(cq, op)) + y
      BY <1>5, <3>1 DEF Fl
    <3>4. Fl(op) = ((OfOp(sq, op) + OfOp(work, op)) + OfOp(cq, op)) + 0
      BY <3>1 DEF Fl
    <3> HIDE DEF y
    <3>5. QED BY <1>1, <3>1, <3>2, <3>3, <3>4
  <2>3. Ids'
    BY <1>1, <1>2, <1>5, <2>1 DEF Ids
  <2>4. Closing'
    <3>1. Closing
      BY DEF IInv, Owners
    <3>2. QED BY <1>1, <1>5, <3>1, ClosingStill
  <2>5. Reserved'
    BY <1>1, <1>2, <1>5 DEF Reserved
  <2>6. QED BY <1>1, <1>3, <1>5, <2>1, <2>2, <2>3, <2>4, <2>5, TakeIInv
<1>6. CASE cq' = Append(cq, Done("accept", "EBADF", o.n)) /\ UNCHANGED <<work, acc>>
  <2> DEFINE e == Done("accept", "EBADF", o.n)
  <2>1. e \in Cqe /\ e.op = "accept" /\ e.n = o.n /\ e.res # Ok
    <3>1. o.n \in 0..MaxAccepts /\ "accept" \in Ops
          /\ "EBADF" \in Errors \cup {Ok} /\ "EBADF" # Ok
      BY <1>1 DEF Sqe, Ops, Errors, Ok
    <3>2. QED BY <3>1, CqeFacts
  <2>2. cq' = Append(cq, e)
    BY <1>6
  <2> HIDE DEF e
  <2>3. /\ cq' \in Seq(Cqe) /\ \A op : OfOp(cq', op) = OfOp(cq, op) + Bit(e.op = op)
        /\ \A i \in 1..Len(cq') : (i \in 1..Len(cq) /\ cq'[i] = cq[i]) \/ cq'[i] = e
    BY <1>1, <2>1, <2>2, CqGrows
  <2>4. ASSUME NEW op \in Ops PROVE Fl(op)' = Fl(op)
    <3> DEFINE y == Bit(o.op = op)
               z == Bit(op = "accept" /\ acc # NoAccept)
    <3>1. y \in Nat /\ z \in Nat
      BY DEF Bit
    <3>2. OfOp(sq, op) = OfOp(sq', op) + y /\ OfOp(cq', op) = OfOp(cq, op) + y
      BY <1>1, <2>1, <2>3
    <3>3. Fl(op)' = ((OfOp(sq', op) + OfOp(work, op)) + OfOp(cq', op)) + z
      BY <1>6 DEF Fl
    <3>4. Fl(op) = ((OfOp(sq, op) + OfOp(work, op)) + OfOp(cq, op)) + z
      BY DEF Fl
    <3> HIDE DEF y, z
    <3>5. QED BY <1>1, <3>1, <3>2, <3>3, <3>4
  <2>5. Ids'
    BY <1>1, <1>2, <1>6, <2>1, <2>3 DEF Ids
  <2>6. Closing'
    <3>1. Closing
      BY DEF IInv, Owners
    <3>2. UNCHANGED <<fd, file, work>> /\ "accept" # "close"
      BY <1>1, <1>6
    <3>3. QED BY <1>1, <2>1, <2>3, <3>1, <3>2, ClosingStill
  <2>7. Reserved'
    BY <1>1, <1>2, <1>6, <2>1, <2>3 DEF Reserved
  <2>8. QED BY <1>1, <1>3, <1>6, <2>3, <2>4, <2>5, <2>6, <2>7, TakeIInv
<1>7. QED BY <1>4, <1>5, <1>6

\* The close waits for its turn.
LEMMA TakeCloseIInv ==
    ASSUME IInv, KernelTakes, NEW o, o = Head(sq), o.op = "close"
    PROVE  IInv'
<1>1. /\ Core /\ TypeOK /\ ~Dropping /\ Take(o)
      /\ UNCHANGED <<af, cnf, clf, fd, co, back, file>>
      /\ o \in Sqe /\ sq' \in Seq(Sqe) /\ 1 \in 1..Len(sq) /\ sq[1] = o
      /\ \A i \in 1..Len(sq') : i + 1 \in 1..Len(sq) /\ sq'[i] = sq[i + 1]
      /\ \A op : OfOp(sq', op) \in Nat /\ OfOp(sq, op) = OfOp(sq', op) + Bit(o.op = op)
      /\ \A op : OfOp(work, op) \in Nat /\ OfOp(cq, op) \in Nat
      /\ work \in Seq(Sqe) /\ cq \in Seq(Cqe) /\ acc \in AccType
  BY KernelTakesFacts
<1>2. work' = Append(work, o) /\ UNCHANGED <<acc, cq>>
  BY <1>1 DEF Take
<1>3. /\ work' \in Seq(Sqe)
      /\ \A i \in 1..Len(work') :
            (i \in 1..Len(work) /\ work'[i] = work[i]) \/ work'[i] = o
  BY <1>1, <1>2, Entries
<1>4. \A op : OfOp(work', op) = OfOp(work, op) + Bit(o.op = op)
  BY <1>1, <1>2, Laws DEF OpLaws
<1>5. ASSUME NEW op \in Ops PROVE Fl(op)' = Fl(op)
  <2> DEFINE y == Bit(o.op = op)
             z == Bit(op = "accept" /\ acc # NoAccept)
  <2>1. y \in Nat /\ z \in Nat
    BY DEF Bit
  <2>2. OfOp(sq, op) = OfOp(sq', op) + y /\ OfOp(work', op) = OfOp(work, op) + y
    BY <1>1, <1>4
  <2>3. Fl(op)' = ((OfOp(sq', op) + OfOp(work', op)) + OfOp(cq, op)) + z
    BY <1>2 DEF Fl
  <2>4. Fl(op) = ((OfOp(sq, op) + OfOp(work, op)) + OfOp(cq, op)) + z
    BY DEF Fl
  <2> HIDE DEF y, z
  <2>5. QED BY <1>1, <2>1, <2>2, <2>3, <2>4
<1>6. Ids'
  BY <1>1, <1>2 DEF Core, Ids
<1>7. Leave'
  <2>1. OfOp(sq', "accept") = OfOp(sq, "accept")
        /\ OfOp(sq', "cancelAccept") = OfOp(sq, "cancelAccept")
    <3>1. Bit(o.op = "accept") = 0 /\ Bit(o.op = "cancelAccept") = 0
      BY DEF Bit
    <3>2. \A op : OfOp(sq', op) \in Nat /\ OfOp(sq, op) = OfOp(sq', op) + Bit(o.op = op)
      BY <1>1
    <3>3. QED BY <3>1, <3>2
  <2>2. QED BY <1>1, <1>2, <2>1 DEF Core, Leave, Leaving
<1>8. Closing'
  <2>1. Closing
    BY DEF IInv, Owners
  <2>2. UNCHANGED <<fd, file, cq>> /\ o.on = fd /\ fd \in Slots
    BY <1>1, <1>2, <2>1 DEF Closing
  <2>3. QED BY <1>1, <1>3, <2>1, <2>2, ClosingStill
<1>9. Reserved'
  BY <1>1, <1>2 DEF IInv, Owners, Reserved
<1>10. QED BY <1>1, <1>2, <1>3, <1>5, <1>6, <1>7, <1>8, <1>9, TakeIInv

\* The sum does not change when its parts trade.
LEMMA Trade ==
    ASSUME NEW a, NEW b1, NEW a1 \in Nat, NEW k \in Nat, NEW b \in Nat,
           NEW q \in Nat, NEW y \in Nat, NEW z \in Nat,
           NEW w \in Nat, a = a1 + y, b1 = q + y, q + w = b + z
    PROVE  ((a1 + k) + b1) + w = ((a + k) + b) + z
OBVIOUS

\* The kernel takes a cancel: it ends the accept in flight or leaves it alone.
LEMMA TakeEndsIInv ==
    ASSUME IInv, KernelTakes, NEW o, o = Head(sq),
           o.op \in {"cancelAccept", "cancel", "sever"}, UNCHANGED work,
           NEW q, \/ q = Cancelled /\ acc' = NoAccept
                  \/ q = cq /\ acc' = acc /\ o.op # "cancelAccept",
           \/ cq' = q /\ o.op # "cancel"
           \/ \E r \in Errors \cup {Ok} :
                 cq' = Append(q, Done("cancel", r, 0)) /\ o.op = "cancel"
    PROVE  IInv'
<1>1. /\ Core /\ TypeOK /\ ~Dropping
      /\ UNCHANGED <<af, cnf, clf, fd, co, back, file>>
      /\ o \in Sqe /\ sq' \in Seq(Sqe)
      /\ \A i \in 1..Len(sq') : i + 1 \in 1..Len(sq) /\ sq'[i] = sq[i + 1]
      /\ \A op : OfOp(sq', op) \in Nat /\ OfOp(sq, op) = OfOp(sq', op) + Bit(o.op = op)
      /\ \A op : OfOp(work, op) \in Nat /\ OfOp(cq, op) \in Nat
      /\ work \in Seq(Sqe) /\ cq \in Seq(Cqe) /\ acc \in AccType
  BY KernelTakesFacts
<1>2. /\ q \in Seq(Cqe) /\ acc' \in AccType
      /\ \A op : OfOp(q, op) \in Nat
      /\ \A op : OfOp(q, op) + Bit(op = "accept" /\ acc' # NoAccept)
                   = OfOp(cq, op) + Bit(op = "accept" /\ acc # NoAccept)
      /\ \A i \in 1..Len(q) :
            \/ i \in 1..Len(cq) /\ q[i] = cq[i]
            \/ /\ acc # NoAccept
               /\ q[i].op = "accept" /\ q[i].n = acc.n /\ q[i].res # Ok
  <2>1. CASE q = cq /\ acc' = acc
    BY <1>1, <2>1
  <2>2. CASE q = Cancelled /\ acc' = NoAccept
    <3>1. /\ q \in Seq(Cqe)
          /\ \A op : OfOp(q, op) = OfOp(cq, op)
                                   + Bit(op = "accept" /\ acc # NoAccept)
          /\ \A i \in 1..Len(q) :
                \/ i \in 1..Len(cq) /\ q[i] = cq[i]
                \/ /\ acc # NoAccept
                   /\ q[i].op = "accept" /\ q[i].n = acc.n /\ q[i].res # Ok
      BY <1>1, <2>2, CancelledFacts
    <3>2. \A op : OfOp(q, op) \in Nat
      BY <3>1, Laws DEF OpLaws
    <3>3. acc' \in AccType
      BY <2>2, Zero DEF NoAccept, AccType
    <3>4. \A op : Bit(op = "accept" /\ acc' # NoAccept) = 0
      BY <2>2 DEF Bit
    <3>5. \A op : OfOp(q, op) + Bit(op = "accept" /\ acc' # NoAccept)
                    = OfOp(cq, op) + Bit(op = "accept" /\ acc # NoAccept)
      BY <3>1, <3>2, <3>4
    <3>6. QED BY <3>1, <3>2, <3>3, <3>5
  <2>3. QED BY <2>1, <2>2
<1>3. /\ cq' \in Seq(Cqe)
      /\ \A op \in Ops : OfOp(cq', op) = OfOp(q, op) + Bit(o.op = op)
      /\ \A i \in 1..Len(cq') :
            (i \in 1..Len(q) /\ cq'[i] = q[i]) \/ cq'[i].op = "cancel"
  <2>1. CASE cq' = q /\ o.op # "cancel"
    <3>1. \A op \in Ops : Bit(o.op = op) = 0
      BY <2>1 DEF Ops, Bit
    <3>2. QED BY <1>2, <2>1, <3>1
  <2>2. CASE \E r \in Errors \cup {Ok} :
                cq' = Append(q, Done("cancel", r, 0)) /\ o.op = "cancel"
    <3>1. PICK r \in Errors \cup {Ok} :
                cq' = Append(q, Done("cancel", r, 0)) /\ o.op = "cancel"
      BY <2>2
    <3> DEFINE e == Done("cancel", r, 0)
    <3>2. e \in Cqe /\ e.op = "cancel"
      <4>1. "cancel" \in Ops
        BY DEF Ops
      <4>2. QED BY <4>1, Zero, CqeFacts
    <3>3. cq' = Append(q, e)
      BY <3>1
    <3> HIDE DEF e
    <3>4. /\ cq' \in Seq(Cqe)
          /\ \A op : OfOp(cq', op) = OfOp(q, op) + Bit(e.op = op)
          /\ \A i \in 1..Len(cq') : (i \in 1..Len(q) /\ cq'[i] = q[i]) \/ cq'[i] = e
      BY <1>2, <3>2, <3>3, CqGrows
    <3>5. QED BY <3>1, <3>2, <3>4
  <2>3. QED BY <2>1, <2>2
<1>4. \A i \in 1..Len(cq') :
         \/ i \in 1..Len(cq) /\ cq'[i] = cq[i]
         \/ /\ acc # NoAccept
            /\ cq'[i].op = "accept" /\ cq'[i].n = acc.n /\ cq'[i].res # Ok
         \/ cq'[i].op = "cancel"
  BY <1>2, <1>3
<1>5. ASSUME NEW op \in Ops PROVE Fl(op)' = Fl(op)
  <2> DEFINE y == Bit(o.op = op)
             z == Bit(op = "accept" /\ acc # NoAccept)
             w == Bit(op = "accept" /\ acc' # NoAccept)
             a == OfOp(sq, op)
             a1 == OfOp(sq', op)
             k == OfOp(work, op)
             b == OfOp(cq, op)
             b1 == OfOp(cq', op)
             x == OfOp(q, op)
  <2>1. y \in Nat /\ z \in Nat /\ w \in Nat
    BY DEF Bit
  <2>2. a = a1 + y /\ b1 = x + y /\ x + w = b + z
    BY <1>1, <1>2, <1>3
  <2>3. Fl(op)' = ((a1 + k) + b1) + w
    BY DEF Fl
  <2>4. Fl(op) = ((a + k) + b) + z
    BY DEF Fl
  <2>5. a1 \in Nat /\ k \in Nat /\ b \in Nat /\ x \in Nat
    BY <1>1, <1>2
  <2> HIDE DEF y, z, w, a, a1, k, b, b1, x
  <2>6. ((a1 + k) + b1) + w = ((a + k) + b) + z
    BY <2>1, <2>2, <2>5, Trade
  <2>7. QED BY <2>3, <2>4, <2>6
<1>6. acc' # NoAccept => acc' = acc
  OBVIOUS
<1>7. Ids'
  <2>1. /\ \A i \in 1..Len(sq) : sq[i].op = "accept" =>
              sq[i].n = af.n /\ sq[i].slot = af.peer
        /\ acc # NoAccept => acc.n = af.n /\ acc.slot = af.peer /\ af.peer \in Slots
        /\ \A i \in 1..Len(cq) : cq[i].op = "accept" => cq[i].n = af.n
    BY <1>1 DEF Core, Ids
  <2>2. \A i \in 1..Len(sq') : sq'[i].op = "accept" =>
           sq'[i].n = af.n /\ sq'[i].slot = af.peer
    BY <1>1, <2>1
  <2>3. \A i \in 1..Len(cq') : cq'[i].op = "accept" => cq'[i].n = af.n
    BY <1>4, <2>1
  <2>4. QED BY <1>1, <1>6, <2>1, <2>2, <2>3 DEF Ids
<1>8. Leave'
  <2>1. \A op : OfOp(sq', op) \in Nat /\ OfOp(sq, op) = OfOp(sq', op) + Bit(o.op = op)
    BY <1>1
  <2>2. OfOp(sq', "accept") = OfOp(sq, "accept")
    <3>1. Bit(o.op = "accept") = 0
      BY DEF Bit
    <3>2. QED BY <2>1, <3>1
  <2>3. acc' # NoAccept => OfOp(sq', "cancelAccept") = OfOp(sq, "cancelAccept")
    <3>1. acc' # NoAccept => Bit(o.op = "cancelAccept") = 0
      BY DEF Bit
    <3>2. QED BY <2>1, <3>1
  <2>4. QED BY <1>1, <1>6, <2>2, <2>3 DEF Core, Leave, Leaving
<1>9. Closing'
  <2>1. Closing /\ UNCHANGED <<fd, file>>
    BY <1>1 DEF IInv, Owners
  <2>2. \A i \in 1..Len(cq') :
           (i \in 1..Len(cq) /\ cq'[i] = cq[i]) \/ cq'[i].op # "close"
    BY <1>4
  <2>3. QED BY <1>1, <2>1, <2>2, ClosingStill
<1>10. Reserved'
  <2>1. SUFFICES ASSUME af.peer # NoFd
        PROVE  /\ \A i \in 1..Len(sq') : sq'[i].op = "accept" => file[af.peer] = "empty"
               /\ acc' # NoAccept => file[af.peer] = "empty"
               /\ \A i \in 1..Len(cq') : cq'[i].op = "accept" =>
                     file[af.peer] = IF cq'[i].res = Ok THEN "peer" ELSE "empty"
               /\ af.done => file[af.peer] = "peer"
    BY <1>1 DEF Reserved
  <2>2. /\ \A i \in 1..Len(sq) : sq[i].op = "accept" => file[af.peer] = "empty"
        /\ acc # NoAccept => file[af.peer] = "empty"
        /\ \A i \in 1..Len(cq) : cq[i].op = "accept" =>
              file[af.peer] = IF cq[i].res = Ok THEN "peer" ELSE "empty"
        /\ af.done => file[af.peer] = "peer"
    BY <2>1 DEF IInv, Owners, Reserved
  <2>3. \A i \in 1..Len(sq') : sq'[i].op = "accept" => file[af.peer] = "empty"
    BY <1>1, <2>2
  <2>4. \A i \in 1..Len(cq') : cq'[i].op = "accept" =>
           file[af.peer] = IF cq'[i].res = Ok THEN "peer" ELSE "empty"
    BY <1>4, <2>2
  <2>5. QED BY <1>6, <2>2, <2>3, <2>4
<1>11. QED BY <1>1, <1>2, <1>3, <1>5, <1>7, <1>8, <1>9, <1>10, TakeIInv

\* Whatever the kernel takes from the submission queue.
LEMMA KernelTakesIInv ==
    ASSUME IInv, KernelTakes
    PROVE  IInv'
<1> DEFINE o == Head(sq)
<1>1. o \in Sqe /\ Take(o)
  BY KernelTakesFacts
<1>2. o.op \in {"accept", "cancelAccept", "cancel", "sever", "close"}
  BY <1>1 DEF Sqe
<1>3. CASE o.op = "accept"
  BY <1>3, TakeAcceptIInv
<1>4. CASE o.op = "close"
  BY <1>4, TakeCloseIInv
<1>5. CASE o.op = "cancelAccept"
  <2>1. acc' = NoAccept /\ cq' = Cancelled /\ UNCHANGED work
    BY <1>1, <1>5 DEF Take
  <2>2. QED BY <1>5, <2>1, TakeEndsIInv
<1>6. CASE o.op \in {"cancel", "sever"}
  <2> DEFINE q == IF OnFile(o) THEN Cancelled ELSE cq
             r == IF Listening(o) THEN Ok ELSE "EBADF"
  <2>1. /\ cq' = IF o.op = "sever" THEN q ELSE Append(q, Done("cancel", r, 0))
        /\ acc' = IF OnFile(o) THEN NoAccept ELSE acc
        /\ UNCHANGED work
    BY <1>1, <1>6 DEF Take
  <2>2. r \in Errors \cup {Ok}
    BY DEF Errors
  <2>3. \/ q = Cancelled /\ acc' = NoAccept
        \/ q = cq /\ acc' = acc /\ o.op # "cancelAccept"
    BY <1>6, <2>1
  <2>4. \/ cq' = q /\ o.op # "cancel"
        \/ cq' = Append(q, Done("cancel", r, 0)) /\ o.op = "cancel"
    BY <1>6, <2>1
  <2> HIDE DEF q, r
  <2>5. \/ cq' = q /\ o.op # "cancel"
        \/ \E x \in Errors \cup {Ok} :
              cq' = Append(q, Done("cancel", x, 0)) /\ o.op = "cancel"
    BY <2>2, <2>4
  <2>6. QED BY <1>6, <2>1, <2>3, <2>5, TakeEndsIInv
<1>7. QED BY <1>2, <1>3, <1>4, <1>5, <1>6

\* The close has its turn.
LEMMA KernelClosesIInv ==
    ASSUME IInv, KernelCloses
    PROVE  IInv'
<1> DEFINE o == Head(work)
           e == Done("close", Ok, 0)
<1>1. /\ Core /\ TypeOK /\ SlotsPartition /\ Closing /\ Reserved
      /\ pc = "submit" /\ work # <<>>
      /\ UNCHANGED <<af, cnf, clf, refs, fd, fds, streams, co, handles, pc, back,
                     sq, accepts>>
  BY DEF IInv, Core, Owners, KernelCloses, frameVars, fdVars, loopVars
<1>2. /\ file' = [file EXCEPT ![o.on] = "empty"]
      /\ acc' = IF acc.on = o.on THEN [acc EXCEPT !.on = NoFd] ELSE acc
      /\ cq' = Append(cq, e) /\ work' = Tail(work)
  BY DEF KernelCloses
<1>3. e \in Cqe /\ e.op = "close"
  <2>1. "close" \in Ops /\ Ok \in Errors \cup {Ok}
    BY DEF Ops
  <2>2. QED BY <2>1, Zero, CqeFacts
<1> HIDE DEF e
<1>4. /\ work \in Seq(Sqe) /\ cq \in Seq(Cqe) /\ acc \in AccType
      /\ file \in [Slots -> {"empty", "listen", "peer"}] /\ sq \in Seq(Sqe)
      /\ af.peer \in Slots \cup {NoFd}
  BY <1>1 DEF TypeOK, AccType
<1>5. /\ work' \in Seq(Sqe) /\ 1 \in 1..Len(work) /\ work[1] = o
      /\ \A i \in 1..Len(work') : i + 1 \in 1..Len(work) /\ work'[i] = work[i + 1]
  BY <1>1, <1>2, <1>4, TailEntries
<1>6. o.op = "close" /\ o.on = fd /\ fd \in Slots /\ fd # NoFd
  BY <1>1, <1>5, AcceptorAssumption DEF Closing
<1>7. \A op : OfOp(work, op) = OfOp(work', op) + Bit(o.op = op)
  BY <1>1, <1>2, <1>4, Laws DEF OpLaws
<1> HIDE DEF o
<1>8. /\ cq' \in Seq(Cqe) /\ \A op : OfOp(cq', op) = OfOp(cq, op) + Bit(e.op = op)
      /\ \A i \in 1..Len(cq') : (i \in 1..Len(cq) /\ cq'[i] = cq[i]) \/ cq'[i] = e
  BY <1>2, <1>3, <1>4, CqGrows
<1>9. /\ file' \in [Slots -> {"empty", "listen", "peer"}] /\ file'[fd] = "empty"
      /\ \A s \in Slots : s # fd => file'[s] = file[s]
  BY <1>2, <1>4, <1>6
<1>10. /\ acc' \in AccType /\ acc'.n = acc.n /\ acc'.slot = acc.slot
       /\ acc' # NoAccept <=> acc # NoAccept
  <2>1. acc' \in AccType /\ acc'.n = acc.n /\ acc'.slot = acc.slot
    BY <1>2, <1>4 DEF AccType
  <2>2. acc = NoAccept => acc' = NoAccept
    BY <1>2, <1>6 DEF NoAccept
  <2>3. acc # NoAccept => acc' # NoAccept
    <3>1. acc # NoAccept => acc.slot \in Slots
      BY <1>1 DEF Core, Ids
    <3>2. NoAccept.slot = NoFd
      BY DEF NoAccept
    <3>3. QED BY <2>1, <3>1, <3>2, AcceptorAssumption
  <2>4. QED BY <2>1, <2>2, <2>3
<1>11. ASSUME NEW op \in Ops PROVE Fl(op)' = Fl(op)
  <2> DEFINE y == Bit(o.op = op)
             z == Bit(op = "accept" /\ acc # NoAccept)
             a == OfOp(sq, op)
             k == OfOp(work, op)
             k1 == OfOp(work', op)
             b == OfOp(cq, op)
             b1 == OfOp(cq', op)
  <2>1. y \in Nat /\ z \in Nat
    BY DEF Bit
  <2>2. k = k1 + y /\ b1 = b + y
    BY <1>3, <1>6, <1>7, <1>8
  <2>3. Fl(op)' = ((a + k1) + b1) + z
    <3>1. Bit(op = "accept" /\ acc' # NoAccept) = z
      BY <1>10 DEF Bit
    <3>2. QED BY <1>1, <3>1 DEF Fl
  <2>4. Fl(op) = ((a + k) + b) + z
    BY DEF Fl
  <2>5. a \in Nat /\ k1 \in Nat /\ b \in Nat
    BY <1>4, <1>5, Laws DEF OpLaws
  <2> HIDE DEF y, z, a, k, k1, b, b1
  <2>6. QED BY <2>1, <2>2, <2>3, <2>4, <2>5
<1>12. Ids'
  <2>1. /\ \A i \in 1..Len(sq) : sq[i].op = "accept" =>
              sq[i].n = af.n /\ sq[i].slot = af.peer
        /\ acc # NoAccept => acc.n = af.n /\ acc.slot = af.peer /\ af.peer \in Slots
        /\ \A i \in 1..Len(cq) : cq[i].op = "accept" => cq[i].n = af.n
    BY <1>1 DEF Core, Ids
  <2>2. \A i \in 1..Len(cq') : cq'[i].op = "accept" => cq'[i].n = af.n
    BY <1>3, <1>8, <2>1
  <2>3. acc' # NoAccept => acc'.n = af.n /\ acc'.slot = af.peer /\ af.peer \in Slots
    BY <1>10, <2>1
  <2>4. QED BY <1>1, <2>1, <2>2, <2>3 DEF Ids
<1>13. Leave'
  BY <1>1, <1>10 DEF Core, Leave, Leaving
<1>14. Core'
  BY <1>1, <1>4, <1>5, <1>8, <1>9, <1>10, <1>11, <1>12, <1>13, KernelCore
<1>15. fd \notin fds \cup streams /\ (af.peer = fd => fd = NoFd)
  BY <1>1, <1>6 DEF SlotsPartition
<1>16. SlotsPartition'
  <2>1. \A s \in fds : file'[s] = "empty"
    BY <1>1, <1>9, <1>15 DEF SlotsPartition, TypeOK
  <2>2. \A s \in streams : file'[s] = "peer"
    BY <1>1, <1>9, <1>15 DEF SlotsPartition, TypeOK
  <2>3. QED BY <1>1, <2>1, <2>2 DEF SlotsPartition
<1>17. Closing'
  <2>1. \A i \in 1..Len(work') :
           work'[i].op = "close" /\ work'[i].on = fd' /\ fd' \in Slots
    BY <1>1, <1>5 DEF Closing
  <2>2. \A i \in 1..Len(sq') : sq'[i].op = "close" =>
           sq'[i].on = fd' /\ fd' \in Slots
    BY <1>1 DEF Closing
  <2>3. fd' \in Slots /\ file'[fd'] = "empty"
    BY <1>1, <1>6, <1>9
  <2>4. QED BY <2>1, <2>2, <2>3 DEF Closing
<1>18. Reserved'
  <2>1. SUFFICES ASSUME af.peer # NoFd
        PROVE  /\ \A i \in 1..Len(sq) : sq[i].op = "accept" => file'[af.peer] = "empty"
               /\ acc' # NoAccept => file'[af.peer] = "empty"
               /\ \A i \in 1..Len(cq') : cq'[i].op = "accept" =>
                     file'[af.peer] = IF cq'[i].res = Ok THEN "peer" ELSE "empty"
               /\ af.done => file'[af.peer] = "peer"
    BY <1>1 DEF Reserved
  <2>2. /\ \A i \in 1..Len(sq) : sq[i].op = "accept" => file[af.peer] = "empty"
        /\ acc # NoAccept => file[af.peer] = "empty"
        /\ \A i \in 1..Len(cq) : cq[i].op = "accept" =>
              file[af.peer] = IF cq[i].res = Ok THEN "peer" ELSE "empty"
        /\ af.done => file[af.peer] = "peer"
    BY <1>1, <2>1 DEF Reserved
  <2>3. file'[af.peer] = file[af.peer]
    BY <1>4, <1>6, <1>9, <1>15, <2>1
  <2>4. \A i \in 1..Len(cq') : cq'[i].op = "accept" =>
           file[af.peer] = IF cq'[i].res = Ok THEN "peer" ELSE "empty"
    BY <1>3, <1>8, <2>2
  <2>5. QED BY <1>10, <2>2, <2>3, <2>4
<1>19. QED BY <1>14, <1>16, <1>17, <1>18 DEF IInv, Owners

\* While the kernel has an accept, no other one is anywhere.
LEMMA AcceptInKernel ==
    ASSUME Core, acc # NoAccept, pc # "end"
    PROVE  /\ ~Dropping /\ MustCancel /\ ~af.done
           /\ acc.n = af.n /\ acc.slot = af.peer /\ af.peer \in Slots
           /\ \A i \in 1..Len(sq) : sq[i].op # "accept"
           /\ \A i \in 1..Len(cq) : cq[i].op # "accept"
<1>1. TypeOK /\ "accept" \in Ops
  BY DEF Core, Ops
<1>2. ~Dropping
  <2>1. SUFFICES ASSUME pc = "flush" PROVE FALSE
    BY DEF Dropping
  <2>2. Leaving /\ sq = <<>> /\ \A c \in Coros : co[c] = "gone"
    BY <2>1 DEF Core, Control
  <2>3. OfOp(sq, "cancelAccept") > 0
    BY <2>2 DEF Core, Leave
  <2>4. OfOp(sq, "cancelAccept") = 0
    <3>1. OfOp(<<>>, "cancelAccept") = 0
      BY Laws DEF OpLaws
    <3>2. QED BY <2>2, <3>1
  <2>5. QED BY <2>3, <2>4
<1>3. Active("accept") /\ Fl("accept") = 1
  <2>1. Fl("accept") > 0
    BY <1>1, SomeInFlight
  <2>2. QED BY <1>1, <1>2, <2>1, InFlightActive
<1>4. MustCancel /\ ~af.done
  BY <1>3 DEF Active, MustCancel
<1>5. OfOp(sq, "accept") = 0 /\ OfOp(cq, "accept") = 0
  <2> DEFINE a == OfOp(sq, "accept")
             k == OfOp(work, "accept")
             b == OfOp(cq, "accept")
  <2>1. a \in Nat /\ k \in Nat /\ b \in Nat
    BY <1>1, Numbers
  <2>2. ((a + k) + b) + 1 = 1
    BY <1>3 DEF Fl, Bit
  <2> HIDE DEF a, k, b
  <2>3. a = 0 /\ b = 0
    BY <2>1, <2>2
  <2>4. QED BY <2>3 DEF a, b
<1>6. \A i \in 1..Len(sq) : sq[i].op # "accept"
  <2>1. \A s \in Seq(Sqe) : \A op :
           OfOp(s, op) = 0 <=> \A i \in 1..Len(s) : s[i].op # op
    BY Laws DEF OpLaws
  <2>2. QED BY <1>1, <1>5, <2>1 DEF TypeOK
<1>7. \A i \in 1..Len(cq) : cq[i].op # "accept"
  <2>1. \A s \in Seq(Cqe) : \A op :
           OfOp(s, op) = 0 <=> \A i \in 1..Len(s) : s[i].op # op
    BY Laws DEF OpLaws
  <2>2. QED BY <1>1, <1>5, <2>1 DEF TypeOK
<1>8. acc.n = af.n /\ acc.slot = af.peer /\ af.peer \in Slots
  BY DEF Core, Ids
<1>9. QED BY <1>2, <1>4, <1>6, <1>7, <1>8

\* A peer connects to the reserved slot, or gives up.
LEMMA KernelAcceptsIInv ==
    ASSUME IInv, KernelAccepts
    PROVE  IInv'
<1>1. /\ Core /\ TypeOK /\ SlotsPartition /\ Closing /\ Reserved
      /\ pc # "end" /\ acc # NoAccept /\ acc' = NoAccept
      /\ UNCHANGED <<af, cnf, clf, refs, fd, fds, streams, co, handles, pc, back,
                     sq, work, accepts>>
  BY DEF IInv, Core, Owners, KernelAccepts, frameVars, fdVars, loopVars
<1>2. /\ ~af.done
      /\ acc.n = af.n /\ acc.slot = af.peer /\ af.peer \in Slots
      /\ \A i \in 1..Len(sq) : sq[i].op # "accept"
      /\ \A i \in 1..Len(cq) : cq[i].op # "accept"
  BY <1>1, AcceptInKernel
<1>3. PICK r \in {Ok, "ECONNABORTED"} :
         /\ cq' = Append(cq, Done("accept", r, acc.n))
         /\ file' = IF r = Ok THEN [file EXCEPT ![acc.slot] = "peer"] ELSE file
  BY DEF KernelAccepts, Ok
<1> DEFINE e == Done("accept", r, acc.n)
<1>4. e \in Cqe /\ e.op = "accept" /\ e.n = af.n /\ e.res = r
  <2>1. /\ "accept" \in Ops /\ r \in Errors \cup {Ok} /\ acc.n \in 0..MaxAccepts
    BY <1>1 DEF Ops, Errors, TypeOK
  <2>2. e \in Cqe /\ e.op = "accept" /\ e.n = acc.n /\ e.res = r
    BY <2>1, CqeFacts
  <2>3. QED BY <1>2, <2>2
<1>5. cq' = Append(cq, e)
  BY <1>3
<1> HIDE DEF e
<1>6. /\ sq \in Seq(Sqe) /\ work \in Seq(Sqe) /\ cq \in Seq(Cqe)
      /\ file \in [Slots -> {"empty", "listen", "peer"}]
      /\ af.peer # NoFd
  BY <1>1, <1>2, AcceptorAssumption DEF TypeOK
<1>7. /\ cq' \in Seq(Cqe) /\ \A op : OfOp(cq', op) = OfOp(cq, op) + Bit(e.op = op)
      /\ \A i \in 1..Len(cq') : (i \in 1..Len(cq) /\ cq'[i] = cq[i]) \/ cq'[i] = e
  BY <1>4, <1>5, <1>6, CqGrows
<1>8. /\ file' \in [Slots -> {"empty", "listen", "peer"}]
      /\ \A s \in Slots : s # af.peer => file'[s] = file[s]
      /\ file'[af.peer] = IF r = Ok THEN "peer" ELSE "empty"
  <2>1. file[af.peer] = "empty"
    BY <1>1, <1>6 DEF Reserved
  <2>2. CASE r = Ok
    BY <1>2, <1>3, <1>6, <2>2
  <2>3. CASE r # Ok
    BY <1>2, <1>3, <1>6, <2>1, <2>3
  <2>4. QED BY <2>2, <2>3
<1>9. ASSUME NEW op \in Ops PROVE Fl(op)' = Fl(op)
  <2> DEFINE z == Bit(op = "accept")
             a == OfOp(sq, op)
             k == OfOp(work, op)
             b == OfOp(cq, op)
             b1 == OfOp(cq', op)
  <2>1. z \in Nat /\ b1 = b + z
    BY <1>4, <1>7 DEF Bit
  <2>2. Fl(op)' = ((a + k) + b1) + 0
    BY <1>1 DEF Fl, Bit
  <2>3. Fl(op) = ((a + k) + b) + z
    BY <1>1 DEF Fl
  <2>4. a \in Nat /\ k \in Nat /\ b \in Nat
    BY <1>6, Laws DEF OpLaws
  <2> HIDE DEF z, a, k, b, b1
  <2>5. QED BY <2>1, <2>2, <2>3, <2>4
<1>10. Ids'
  <2>1. \A i \in 1..Len(cq') : cq'[i].op = "accept" => cq'[i].n = af.n
    BY <1>2, <1>4, <1>7
  <2>2. QED BY <1>1, <1>2, <2>1 DEF Ids
<1>11. Leave'
  BY <1>1 DEF Core, Leave, Leaving
<1>12. acc' \in AccType
  BY <1>1, Zero DEF NoAccept, AccType
<1>13. Core'
  BY <1>1, <1>6, <1>7, <1>8, <1>9, <1>10, <1>11, <1>12, KernelCore
<1>14. af.peer \notin fds \cup streams /\ fd # af.peer
  BY <1>1, <1>6 DEF SlotsPartition
<1>15. SlotsPartition'
  <2>1. \A s \in fds : file'[s] = "empty"
    BY <1>1, <1>8, <1>14 DEF SlotsPartition, TypeOK
  <2>2. \A s \in streams : file'[s] = "peer"
    BY <1>1, <1>8, <1>14 DEF SlotsPartition, TypeOK
  <2>3. QED BY <1>1, <2>1, <2>2 DEF SlotsPartition
<1>16. Closing'
  <2>1. \A i \in 1..Len(work') :
           work'[i].op = "close" /\ work'[i].on = fd' /\ fd' \in Slots
    BY <1>1 DEF Closing
  <2>2. \A i \in 1..Len(sq') : sq'[i].op = "close" =>
           sq'[i].on = fd' /\ fd' \in Slots
    BY <1>1 DEF Closing
  <2>3. \A i \in 1..Len(cq') : cq'[i].op = "close" =>
           fd \in Slots /\ file[fd] = "empty"
    BY <1>1, <1>4, <1>7 DEF Closing
  <2>4. \A i \in 1..Len(cq') : cq'[i].op = "close" =>
           fd' \in Slots /\ file'[fd'] = "empty"
    BY <1>1, <1>8, <1>14, <2>3
  <2>5. QED BY <2>1, <2>2, <2>4 DEF Closing
<1>17. Reserved'
  <2>1. \A i \in 1..Len(cq') : cq'[i].op = "accept" =>
           file'[af.peer] = IF cq'[i].res = Ok THEN "peer" ELSE "empty"
    BY <1>2, <1>4, <1>7, <1>8
  <2>2. QED BY <1>1, <1>2, <2>1 DEF Reserved
<1>18. QED BY <1>13, <1>15, <1>16, <1>17 DEF IInv, Owners

-----------------------------------------------------------------------------
(* The theorems.                                                           *)

\* Every step keeps the invariant.
LEMMA NextIInv == IInv /\ [Next]_vars => IInv'
<1> SUFFICES ASSUME IInv, Next \/ UNCHANGED vars PROVE IInv'
  OBVIOUS
<1>1. CASE UserStep
  BY <1>1, AsyncAcceptIInv, AcceptBusyIInv, AsyncCancelIInv, AsyncCloseIInv,
     LetGoIInv, StreamGoneIInv DEF UserStep
<1>2. CASE LoopStep
  <2>1. CASE Resume
    BY <2>1, ResumeIInv
  <2>2. CASE SubmitAndWait \/ SubmitFull \/ SubmitDone \/ ReapDone
    BY <2>2, LoopMovesIInv
  <2>3. CASE KernelTakes \/ KernelCloses
    BY <2>3, KernelTakesIInv, KernelClosesIInv
  <2>4. CASE Reap
    BY <2>4, ReapIInv
  <2>5. CASE Destruct
    BY <2>5, DestructIInv
  <2>6. CASE FlushStart \/ Flush \/ FlushDone
    BY <2>6, FlushStartIInv, FlushIInv, FlushEndsIInv
  <2>7. CASE \E c \in Coros : DestroyCoro(c)
    BY <2>7, DestroyCoroIInv
  <2>8. QED BY <1>2, <2>1, <2>2, <2>3, <2>4, <2>5, <2>6, <2>7 DEF LoopStep
<1>3. CASE KernelAccepts
  BY <1>3, KernelAcceptsIInv
<1>4. CASE Abort
  BY <1>4, AbortIInv
<1>5. CASE UNCHANGED vars
  <2>1. /\ UNCHANGED <<frameVars, fdVars, co, handles, kernVars, accepts>>
        /\ UNCHANGED <<pc, back, sq, work, cq, acc, co>>
    BY <1>5 DEF vars, frameVars, fdVars, loopVars, kernVars
  <2>2. Leaving' = Leaving /\ Dropping' = Dropping
    BY <2>1 DEF Leaving, Dropping
  <2>3. Control'
    BY <2>1, <2>2 DEF IInv, Core, Control
  <2>4. Leave'
    BY <2>1, <2>2 DEF IInv, Core, Leave
  <2>5. /\ pc' \in {"user", "submit", "reap", "abort", "flush", "end"}
        /\ back' \in {"user", "reap", "clear", "abort"}
    BY <2>1 DEF IInv, Core, TypeOK
  <2>6. QED BY <2>1, <2>2, <2>3, <2>4, <2>5, ThreadMoves
<1>6. QED BY <1>1, <1>2, <1>3, <1>4, <1>5 DEF Next

\* The invariant holds of every behaviour of the acceptor.
THEOREM Inductive == Spec => []IInv
<1>1. Init => IInv
  BY InitIInv
<1>2. IInv /\ [Next]_vars => IInv'
  BY NextIInv
<1>3. QED BY <1>1, <1>2, PTL DEF Spec

\* Once run() has been left nothing refers to the acceptor_impl, but a close
\* whose turn had not come.
LEMMA FreedInTheEnd ==
    ASSUME Core, pc = "end", work = <<>>
    PROVE  Unreferenced
<1>1. TypeOK /\ Leaving /\ sq = <<>> /\ cq = <<>> /\ \A c \in Coros : co[c] = "gone"
  BY DEF Core, Control
<1>2. \A op : OfOp(<<>>, op) = 0
  BY Laws DEF OpLaws
<1>3. acc = NoAccept
  BY <1>1, <1>2 DEF Core, Leave
<1>4. \A op : Fl(op) = 0
  BY <1>1, <1>2, <1>3 DEF Fl, Bit
<1>5. Pop(co, Coros, Alive) = 0 /\ Pop(co, Coros, Busy) = 0
  <2>1. \A c \in Coros : co[c] \notin Alive /\ co[c] \notin Busy
    BY <1>1 DEF Alive, Busy
  <2>2. QED BY <2>1, PopZero, AcceptorAssumption
<1>6. QED BY <1>4, <1>5 DEF Core, Exact, Unreferenced

\* References: the count of the acceptor_impl is exact at every moment, for any
\* number of coroutines, slots and accepts, and the acceptor_impl is freed when
\* run() was left, with the one exception FreedAfterRun names.
THEOREM ReferencesHold == Spec => []References
<1>1. IInv => References
  BY ExactIsRefCount, FreedInTheEnd DEF IInv, Core, References, FreedAfterRun
<1>2. QED BY <1>1, Inductive, PTL

\* SlotsPartition: every slot of the fixed file table has one owner at every
\* moment, whatever is cancelled, closed, refused or aborted in between.
THEOREM SlotsPartitionHolds == Spec => []SlotsPartition
<1>1. IInv => SlotsPartition
  BY DEF IInv, Owners
<1>2. QED BY <1>1, Inductive, PTL

\* A completion of an accept finds the frame that started it.
LEMMA CompletionsMatch == IInv => CompletionsAreOfThisAccept
<1> SUFFICES ASSUME IInv, pc \notin {"flush", "end"}, NEW i \in 1..Len(cq),
                    cq[i].op = "accept"
             PROVE  af.initiated /\ ~af.done /\ af.n = cq[i].n /\ af.peer \in Slots
  BY DEF CompletionsAreOfThisAccept
<1>1. Core /\ TypeOK /\ ~Dropping /\ "accept" \in Ops
  BY DEF IInv, Core, Dropping, Ops
<1>2. Fl("accept") > 0
  BY <1>1, SomeInFlight
<1>3. Active("accept")
  BY <1>1, <1>2, InFlightActive
<1>4. MustCancel
  BY <1>3 DEF Active
<1>5. af.peer \in Slots
  BY <1>1, <1>4 DEF Core, Frames
<1>6. af.n = cq[i].n
  BY <1>1 DEF Core, Ids
<1>7. QED BY <1>4, <1>5, <1>6 DEF MustCancel

\* How often who waits for an operation has been collected: when its handle h is
\* still in the frame, not yet; otherwise once.
LEMMA CollectedOnce ==
    ASSUME NEW h, NEW c, NEW done \in BOOLEAN, NEW active \in BOOLEAN, NEW n, NEW fl,
           n = Bit(done), fl = Bit(active), active <=> ~done, h = c <=> active
    PROVE  n = 1 - (IF h = c THEN fl ELSE 0)
BY DEF Bit

\* The handle in a frame is that of the coroutine that waits for it.
LEMMA Resumed == IInv => ResumedOnce
<1> SUFFICES ASSUME IInv, pc \in {"user", "submit", "reap"}, back \in {"user", "reap"},
                    NEW c \in Coros
             PROVE  Times(handles, c) =
          CASE co[c] = "accepting"  -> 1 - (IF af.h = c THEN InFlight("accept") ELSE 0)
            [] co[c] = "cancelling" -> 1 - (IF cnf.h = c THEN InFlight("cancel") ELSE 0)
            [] co[c] = "closing"    -> 1 - (IF clf.h = c THEN InFlight("close") ELSE 0)
            [] OTHER -> 0
  BY DEF ResumedOnce, Times
<1>1. Core /\ TypeOK /\ Frames /\ Waiters /\ ~Leaving /\ ~Dropping /\ c # None
  BY AcceptorAssumption DEF IInv, Core, Dropping, Leaving
<1>2. ASSUME NEW op \in Ops PROVE InFlight(op) = Bit(Active(op))
  <2>1. /\ Queued(sq, op) = OfOp(sq, op) /\ Queued(work, op) = OfOp(work, op)
        /\ Queued(cq, op) = OfOp(cq, op)
    BY DEF Queued, OfOp
  <2>2. InFlight(op) = Fl(op)
    BY <2>1 DEF InFlight, Fl, One, Bit
  <2>3. QED BY <1>1, <2>2 DEF Core, Flight
<1>3. Times(handles, c) = Bit(Ready(c))
  BY <1>1 DEF Waiters
<1>4. \A d \in Coros : co[c] = co[d] /\ co[c] \in Busy => c = d
  BY <1>1 DEF Frames
<1>5. CASE co[c] = "accepting"
  <2>1. Times(handles, c) = Bit(af.done) /\ af.initiated /\ af.done \in BOOLEAN
    BY <1>1, <1>3, <1>5 DEF Ready, Waiters, TypeOK, Bit
  <2>2. /\ Active("accept") \in BOOLEAN /\ Active("accept") <=> ~af.done
        /\ InFlight("accept") = Bit(Active("accept"))
    BY <1>2, <2>1 DEF Active, MustCancel, Ops
  <2>3. af.h = c <=> Active("accept")
    <3>1. af.h # None <=> Active("accept")
      BY <1>1 DEF Frames
    <3>2. af.h # None => af.h \in Coros /\ co[af.h] = "accepting"
      BY <1>1 DEF Waiters, TypeOK
    <3>3. QED BY <1>1, <1>4, <1>5, <3>1, <3>2 DEF Busy
  <2>4. Times(handles, c) = 1 - (IF af.h = c THEN InFlight("accept") ELSE 0)
    BY <2>1, <2>2, <2>3, CollectedOnce
  <2>5. QED BY <1>5, <2>4
<1>6. CASE co[c] = "cancelling"
  <2>1. Times(handles, c) = Bit(cnf.done) /\ cnf.initiated /\ cnf.done \in BOOLEAN
    BY <1>1, <1>3, <1>6 DEF Ready, Waiters, TypeOK, Bit
  <2>2. /\ Active("cancel") \in BOOLEAN /\ Active("cancel") <=> ~cnf.done
        /\ InFlight("cancel") = Bit(Active("cancel"))
    BY <1>2, <2>1 DEF Active, Ops
  <2>3. cnf.h = c <=> Active("cancel")
    <3>1. cnf.h # None <=> Active("cancel")
      BY <1>1 DEF Frames
    <3>2. cnf.h # None => cnf.h \in Coros /\ co[cnf.h] = "cancelling"
      BY <1>1 DEF Waiters, TypeOK
    <3>3. QED BY <1>1, <1>4, <1>6, <3>1, <3>2 DEF Busy
  <2>4. Times(handles, c) = 1 - (IF cnf.h = c THEN InFlight("cancel") ELSE 0)
    BY <2>1, <2>2, <2>3, CollectedOnce
  <2>5. QED BY <1>6, <2>4
<1>7. CASE co[c] = "closing"
  <2>1. Times(handles, c) = Bit(clf.done) /\ clf.initiated /\ clf.done \in BOOLEAN
    BY <1>1, <1>3, <1>7 DEF Ready, Waiters, TypeOK, Bit
  <2>2. /\ Active("close") \in BOOLEAN /\ Active("close") <=> ~clf.done
        /\ InFlight("close") = Bit(Active("close"))
    BY <1>2, <2>1 DEF Active, Ops
  <2>3. clf.h = c <=> Active("close")
    <3>1. clf.h # None <=> Active("close")
      BY <1>1 DEF Frames
    <3>2. clf.h # None => clf.h \in Coros /\ co[clf.h] = "closing"
      BY <1>1 DEF Waiters, TypeOK
    <3>3. QED BY <1>1, <1>4, <1>7, <3>1, <3>2 DEF Busy
  <2>4. Times(handles, c) = 1 - (IF clf.h = c THEN InFlight("close") ELSE 0)
    BY <2>1, <2>2, <2>3, CollectedOnce
  <2>5. QED BY <1>7, <2>4
<1>8. CASE co[c] \notin {"accepting", "cancelling", "closing"}
  <2>1. Times(handles, c) = 0
    BY <1>3, <1>8 DEF Ready, Bit
  <2>2. QED BY <1>8, <2>1
<1>9. QED BY <1>5, <1>6, <1>7, <1>8

\* Resumption: who accepts, cancels or closes is resumed once, by the completion
\* of its own operation, whatever the other coroutines do with the acceptor.
THEOREM ResumptionHolds == Spec => []Resumption
<1>1. IInv => Resumption
  BY CompletionsMatch, Resumed DEF Resumption
<1>2. QED BY <1>1, Inductive, PTL
=============================================================================

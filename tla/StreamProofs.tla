---------------------------- MODULE StreamProofs ----------------------------
(***************************************************************************)
(* Proofs about module Stream.                                             *)
(*                                                                         *)
(* Calls is the invariant of what coroutines wait for and holds whatever   *)
(* the timer does.  IInv adds the timer, the references, the slot and what *)
(* the last handle leaves to the kernel; it needs that the loop deals with *)
(* one expiry before the next one and that the kernel does not end the     *)
(* timer (Uses = {}).                                                      *)
(***************************************************************************)
EXTENDS Stream, Counting

-----------------------------------------------------------------------------
(* Queues.                                                                 *)

\* An operation of O is queued once.
Single(s, O) == \A i, j \in 1..Len(s) : s[i].op = s[j].op /\ s[i].op \in O => i = j

\* A completion that is the last one of its operation.
Final(s, op) == \E i \in 1..Len(s) : s[i].op = op /\ ~s[i].more

\* One that is not.
Multi(s, op) == \E i \in 1..Len(s) : s[i].op = op /\ s[i].more

\* Of two completions of an operation of O the first has MORE and the second is
\* the last.
Pairs(s, O) == \A i, j \in 1..Len(s) :
    i < j /\ s[i].op = s[j].op /\ s[i].op \in O => s[i].more /\ ~s[j].more

\* Some b comes after every a.
Covered(s, a, b) == \E j \in 1..Len(s) :
    s[j].op = b /\ \A i \in 1..Len(s) : s[i].op = a => i < j

-----------------------------------------------------------------------------
(* The invariant of the calls.                                             *)

CallOps  == FrameOps \cup {"recv"}
ClockOps == {"timer", "timerCancel"}

\* run() is being left.
Leaving == pc \in {"abort", "end"} \/ back \in {"clear", "abort"}

AllGone == \A c \in Coros : co[c] = "gone"

\* The frame of the operation waits for its completion.
Waits(op) ==
    \/ op \in FrameOps /\ Active(fr[op])
    \/ op = "recv" /\ rf.initiated
    \/ op = "timer" /\ tm.initiated
    \/ op = "timerCancel" /\ tc

\* The kernel has the operation.
Kept(op) == (op \in HeldOps /\ held[op] # "no") \/ (op = "timer" /\ armed)

\* An operation that is waited for is in one place, any other one in none.
Place(op) ==
    /\ Waits(op) <=> \/ InQueue(sq, op) \/ InQueue(work, op)
                     \/ Final(cq, op) \/ Kept(op)
    /\ InQueue(sq, op) => ~InQueue(work, op) /\ ~Final(cq, op) /\ ~Kept(op)
    /\ InQueue(work, op) => ~Final(cq, op) /\ ~Kept(op)
    /\ Final(cq, op) => ~Kept(op)
    /\ Multi(cq, op) => Waits(op)

FlightOf(O) ==
    /\ Single(sq, O) /\ Single(work, O) /\ Pairs(cq, O)
    /\ \A op \in O : Place(op)

\* TypeOK but for the reference count.
Types ==
    /\ fr \in [FrameOps -> Frame]
    /\ rf \in [h : Coros \cup {None}, initiated : BOOLEAN, data : BOOLEAN,
               ec : BOOLEAN, age : 0..Overdue]
    /\ tm \in [initiated : BOOLEAN, cancelled : BOOLEAN]
    /\ tc \in BOOLEAN /\ sendAge \in 0..Overdue /\ hasFd \in BOOLEAN
    /\ co \in [Coros -> FrameOps \cup {"recv", "idle", "gone"}]
    /\ handles \in Seq(Coros)
    /\ pc \in {"user", "submit", "reap", "abort", "flush", "end"}
    /\ back \in {"user", "reap", "clear", "abort"}
    /\ sq \in Seq(Sqe) /\ work \in Seq(Sqe) /\ cq \in Seq(Cqe)
    /\ file \in {"own", "empty", "foreign"}
    /\ held \in [HeldOps -> {"no", "slot", "orphan"}]
    /\ armed \in BOOLEAN /\ adjusts \in 0..MaxAdjusts

Control ==
    /\ pc # "submit" => back = "user"
    /\ pc \in {"abort", "end"} => sq = <<>>
    /\ pc \in {"user", "reap"} => work = <<>>
    /\ \A i \in 1..Len(work) : work[i].op = "close"
    /\ pc = "end" => cq = <<>> /\ AllGone

\* Only a receive and the timer complete more than once; an error ends a receive.
Plain(e) == e.more => e.op \in {"recv", "timer"} /\ (e.op = "recv" => e.res = "ok")

\* What the frames say.
Frames ==
    /\ \A op \in FrameOps : /\ fr[op].done => fr[op].initiated
                            /\ fr[op].h # None <=> Active(fr[op])
    /\ rf.ec => ~rf.initiated
    /\ \A i \in 1..Len(cq) : Plain(cq[i])

Ready(c) == \/ co[c] \in FrameOps /\ fr[co[c]].done
            \/ co[c] = "recv" /\ rf.h = None

\* Who waits is in the frame, or its handle has been collected once.
Waiters ==
    /\ \A c, d \in Coros : co[c] = co[d] /\ co[c] \in CallOps => c = d
    /\ ~Leaving =>
         /\ \A op \in FrameOps : fr[op].h # None => co[fr[op].h] = op
         /\ \A c \in Coros : co[c] \in FrameOps => fr[co[c]].initiated
         /\ rf.initiated /\ rf.h # None => co[rf.h] = "recv"
         /\ \A c \in Coros : co[c] = "recv" =>
               rf.h = None \/ (rf.h = c /\ rf.initiated)
         /\ \A c \in Coros : Times(handles, c) = Bit(Ready(c))

Calls == /\ Types /\ Control /\ Frames /\ Waiters
         /\ pc # "end" => FlightOf(CallOps)

-----------------------------------------------------------------------------
(* The invariant of the timer, the references and the slot.                *)

Pending == {op \in Ops : Waits(op)}
Alive   == FrameOps \cup {"recv", "idle"}

\* The references of the coroutines, of which f says what each one does: one for
\* the stream, one for the awaitable.
Shares(f) == Pop(f, Coros, Alive) + Pop(f, Coros, CallOps)

\* RefCountExact, and what ~stream computes.
Exact ==
    /\ refs \in Nat
    /\ pc # "end" => refs = Shares(co) + Cardinality(Pending)

\* The timer expires until it is removed.
OfTimer(e) == e.op = "timer" => e.res = IF e.more THEN "ETIME" ELSE "ECANCELED"

\* The timer has one expiry that is not processed, or none, and no cancel under
\* way then.  A timer that is cancelled is about to be removed.  A close cancels
\* it, and its removal completes before the close.
Clock ==
    /\ pc # "end" => FlightOf(ClockOps)
    /\ \A i \in 1..Len(cq) : OfTimer(cq[i])
    /\ Multi(cq, "timer") => ~tc
    /\ tm.cancelled =>
          /\ tm.initiated
          /\ armed \/ InQueue(sq, "timer") => Covered(sq, "timer", "removeTimer")
    /\ Active(fr["close"]) /\ tm.initiated => tm.cancelled
    /\ InQueue(cq, "close") /\ tm.initiated => Final(cq, "timer")
    /\ Precedes(cq, "timer", "close")
    /\ ~hasFd /\ pc # "end" => ~tm.initiated

\* An operation of O names the slot; every one that does so comes before the one
\* with which somebody else fills it.
Named(s, O) == \E i \in 1..Len(s) : s[i].op \in O /\ s[i].fd
InTime(s) == \A i, j \in 1..Len(s) :
    s[i].op \in SlotOps /\ s[i].fd /\ s[j].op = "foreign" => i < j

\* An SQE that names the slot is queued before the slot is given away.
Slot ==
    /\ Named(sq, {"close"}) \/ Named(work, {"close"}) => hasFd
    /\ InTime(sq)
    /\ file = "foreign" => ~Named(sq, SlotOps)
    /\ InQueue(sq, "foreign") \/ file = "foreign" => ~hasFd

\* A send is waited for until it is cancelled.
SendGone ==
    \/ \E c \in Coros : co[c] = "send"
    \/ /\ ~InQueue(sq, "send")
       /\ held["send"] # "no" => InQueue(sq, "cancelSend")

\* The last to go cancels the timer and the receive, and everything is submitted
\* before run() goes on.
NobodyLeft == AllGone =>
    /\ tm.initiated => tm.cancelled
    /\ held["recv"] # "no" \/ InQueue(sq, "recv") => Covered(sq, "recv", "cancelRecv")
    /\ pc # "submit" => /\ ~armed /\ ~InQueue(sq, "timer")
                        /\ held["recv"] = "no" /\ ~InQueue(sq, "recv")
                        /\ held["send"] = "no"
    /\ ~InQueue(sq, "close")
    /\ work = <<>> \/ (pc = "submit" /\ back = "abort")

Leave == /\ SendGone /\ NobodyLeft
         /\ pc = "end" /\ held["shutdown"] = "no" => refs = 0

IInv == Calls /\ Exact /\ Clock /\ Slot /\ Leave

-----------------------------------------------------------------------------
(* Lemmas about queues.                                                    *)

\* t is s with entries of E at its end, one for each operation in X.
Grows(s, t, X, E) ==
    /\ Len(s) <= Len(t)
    /\ \A i \in 1..Len(s) : t[i] = s[i]
    /\ \A i \in 1..Len(t) : i \notin 1..Len(s) => t[i].op \in X /\ t[i] \in E
    /\ \A op \in X : \E i \in 1..Len(t) : i \notin 1..Len(s) /\ t[i].op = op
    /\ \A i, j \in 1..Len(t) :
          i \notin 1..Len(s) /\ j \notin 1..Len(s) /\ t[i].op = t[j].op => i = j

\* Nothing is put at the end of a queue.
LEMMA GrowsNone ==
    ASSUME NEW T, NEW s \in Seq(T), NEW E
    PROVE  Grows(s, s, {}, E) /\ s \o <<>> = s
<1>1. s \o <<>> = s
  OBVIOUS
<1>2. QED BY <1>1 DEF Grows

\* One entry more is.
LEMMA GrowsOne ==
    ASSUME NEW T, NEW s \in Seq(T), NEW t \in Seq(T), NEW X, NEW E, Grows(s, t, X, E),
           NEW x \in T, x \in E, x.op \notin X
    PROVE  /\ Append(t, x) \in Seq(T) /\ t \o <<x>> = Append(t, x)
           /\ Grows(s, Append(t, x), X \cup {x.op}, E)
<1> DEFINE u == Append(t, x)
           n == Len(t) + 1
<1>1. /\ u \in Seq(T) /\ t \o <<x>> = u /\ Len(u) = n /\ u[n] = x
      /\ \A i \in 1..Len(t) : u[i] = t[i]
  OBVIOUS
<1>2. /\ Len(s) \in Nat /\ Len(t) \in Nat /\ n \in Nat /\ n = Len(t) + 1
      /\ Len(s) <= Len(t)
  BY DEF Grows
<1> HIDE DEF u, n
<1>3. /\ \A i \in 1..Len(u) : i \in 1..Len(t) \/ i = n
      /\ \A i \in 1..Len(t) : i \in 1..Len(u)
      /\ n \in 1..Len(u) /\ n \notin 1..Len(s) /\ n \notin 1..Len(t)
      /\ Len(s) <= Len(u)
      /\ \A i \in 1..Len(s) : i \in 1..Len(t)
  BY <1>1, <1>2
<1>4. \A i \in 1..Len(s) : u[i] = s[i]
  BY <1>1, <1>3 DEF Grows
<1>5. \A i \in 1..Len(u) : i \notin 1..Len(s) => u[i].op \in X \cup {x.op} /\ u[i] \in E
  BY <1>1, <1>3 DEF Grows
<1>6. \A op \in X \cup {x.op} : \E i \in 1..Len(u) : i \notin 1..Len(s) /\ u[i].op = op
  <2>1. SUFFICES ASSUME NEW op \in X \cup {x.op}
                 PROVE  \E i \in 1..Len(u) : i \notin 1..Len(s) /\ u[i].op = op
    OBVIOUS
  <2>2. CASE op = x.op
    BY <1>1, <1>3, <2>2
  <2>3. CASE op \in X
    <3>1. PICK i \in 1..Len(t) : i \notin 1..Len(s) /\ t[i].op = op
      BY <2>3 DEF Grows
    <3>2. QED BY <1>1, <1>3, <3>1
  <2>4. QED BY <2>2, <2>3
<1>7. ASSUME NEW i \in 1..Len(u), NEW j \in 1..Len(u), i \notin 1..Len(s),
             j \notin 1..Len(s), u[i].op = u[j].op
      PROVE  i = j
  <2>1. \A k \in 1..Len(t) : k \notin 1..Len(s) => u[k].op # x.op
    BY <1>1 DEF Grows
  <2>2. QED BY <1>1, <1>3, <1>7, <2>1 DEF Grows
<1>8. Grows(s, u, X \cup {x.op}, E)
  BY <1>3, <1>4, <1>5, <1>6, <1>7 DEF Grows
<1>9. QED BY <1>1, <1>8 DEF u

\* What is in a queue that has grown.
LEMMA GrowsFacts ==
    ASSUME NEW T, NEW s \in Seq(T), NEW t \in Seq(T), NEW X, NEW E, Grows(s, t, X, E)
    PROVE  /\ \A op : InQueue(t, op) <=> InQueue(s, op) \/ op \in X
           /\ \A O : Single(s, O) /\ (\A op \in X : op \in O => ~InQueue(s, op))
                        => Single(t, O)
           /\ \A a, b : /\ Precedes(s, a, b)
                        /\ a \in X => ~InQueue(s, b) /\ b \notin X
                        => Precedes(t, a, b)
           /\ \A a, b : Covered(s, a, b) /\ a \notin X => Covered(t, a, b)
           /\ \A a, b : b \in X /\ a \notin X => Covered(t, a, b)
<1>1. Len(s) \in Nat /\ Len(t) \in Nat /\ Len(s) <= Len(t)
  BY DEF Grows
<1>2. /\ \A i \in 1..Len(s) : i \in 1..Len(t) /\ t[i] = s[i]
      /\ \A i \in 1..Len(s), j \in 1..Len(t) : j \notin 1..Len(s) => i < j
  BY <1>1 DEF Grows
<1>3. ASSUME NEW op PROVE InQueue(t, op) <=> InQueue(s, op) \/ op \in X
  <2>1. InQueue(t, op) => InQueue(s, op) \/ op \in X
    BY <1>2 DEF InQueue, Grows
  <2>2. InQueue(s, op) => InQueue(t, op)
    BY <1>2 DEF InQueue
  <2>3. op \in X => InQueue(t, op)
    BY DEF InQueue, Grows
  <2>4. QED BY <2>1, <2>2, <2>3
<1>4. ASSUME NEW O, Single(s, O), \A op \in X : op \in O => ~InQueue(s, op)
      PROVE  Single(t, O)
  <2>1. SUFFICES ASSUME NEW i \in 1..Len(t), NEW j \in 1..Len(t),
                        t[i].op = t[j].op, t[i].op \in O
                 PROVE  i = j
    BY DEF Single
  <2>2. \A k \in 1..Len(t) : k \notin 1..Len(s) => t[k].op \in X
    BY DEF Grows
  <2>3. \A k \in 1..Len(s) : InQueue(s, t[k].op)
    BY <1>2 DEF InQueue
  <2>4. i \in 1..Len(s) <=> j \in 1..Len(s)
    BY <1>4, <2>1, <2>2, <2>3
  <2>5. CASE i \in 1..Len(s) /\ j \in 1..Len(s)
    BY <1>2, <1>4, <2>1, <2>5 DEF Single
  <2>6. CASE i \notin 1..Len(s) /\ j \notin 1..Len(s)
    BY <2>1, <2>6 DEF Grows
  <2>7. QED BY <2>4, <2>5, <2>6
<1>5. ASSUME NEW a, NEW b, Precedes(s, a, b), a \in X => ~InQueue(s, b) /\ b \notin X
      PROVE  Precedes(t, a, b)
  <2>1. SUFFICES ASSUME NEW i \in 1..Len(t), NEW j \in 1..Len(t), t[i].op = a, t[j].op = b
                 PROVE  i < j
    BY DEF Precedes
  <2>2. \A k \in 1..Len(t) : k \notin 1..Len(s) => t[k].op \in X
    BY DEF Grows
  <2>3. CASE a \in X
    <3>1. \A k \in 1..Len(s) : s[k].op # b
      BY <1>5, <2>3 DEF InQueue
    <3>2. QED BY <1>2, <1>5, <2>1, <2>2, <2>3, <3>1
  <2>4. CASE a \notin X
    <3>1. i \in 1..Len(s)
      BY <2>1, <2>2, <2>4
    <3>2. QED BY <1>2, <1>5, <2>1, <3>1 DEF Precedes
  <2>5. QED BY <2>3, <2>4
<1>6. ASSUME NEW a, NEW b, Covered(s, a, b), a \notin X
      PROVE  Covered(t, a, b)
  <2>1. PICK j \in 1..Len(s) : s[j].op = b /\ \A i \in 1..Len(s) : s[i].op = a => i < j
    BY <1>6 DEF Covered
  <2>2. \A k \in 1..Len(t) : t[k].op = a => k \in 1..Len(s)
    BY <1>6 DEF Grows
  <2>3. QED BY <1>2, <2>1, <2>2 DEF Covered
<1>7. ASSUME NEW a, NEW b, b \in X, a \notin X
      PROVE  Covered(t, a, b)
  <2>1. PICK j \in 1..Len(t) : j \notin 1..Len(s) /\ t[j].op = b
    BY <1>7 DEF Grows
  <2>2. \A k \in 1..Len(t) : t[k].op = a => k \in 1..Len(s)
    BY <1>7 DEF Grows
  <2>3. QED BY <1>2, <2>1, <2>2 DEF Covered
<1>8. QED BY <1>3, <1>4, <1>5, <1>6, <1>7

\* The same of a queue of completions that has grown by last ones.
LEMMA FinalFacts ==
    ASSUME NEW T, NEW s \in Seq(T), NEW t \in Seq(T), NEW X, NEW E, Grows(s, t, X, E),
           \A e \in E : ~e.more
    PROVE  /\ \A op : Final(t, op) <=> Final(s, op) \/ op \in X
           /\ \A O : Pairs(s, O) /\ (\A op \in X : op \in O => ~Final(s, op))
                        => Pairs(t, O)
           /\ \A op : Multi(t, op) <=> Multi(s, op)
<1>1. Len(s) \in Nat /\ Len(t) \in Nat /\ Len(s) <= Len(t)
  BY DEF Grows
<1>2. /\ \A i \in 1..Len(s) : i \in 1..Len(t) /\ t[i] = s[i]
      /\ \A i \in 1..Len(s), j \in 1..Len(t) : j \notin 1..Len(s) => i < j
  BY <1>1 DEF Grows
<1>3. \A i \in 1..Len(t) : i \notin 1..Len(s) => t[i].op \in X /\ ~t[i].more
  BY DEF Grows
<1>4. ASSUME NEW op PROVE Final(t, op) <=> Final(s, op) \/ op \in X
  <2>1. Final(t, op) => Final(s, op) \/ op \in X
    BY <1>2, <1>3 DEF Final
  <2>2. Final(s, op) => Final(t, op)
    BY <1>2 DEF Final
  <2>3. op \in X => Final(t, op)
    BY <1>3 DEF Final, Grows
  <2>4. QED BY <2>1, <2>2, <2>3
<1>5. ASSUME NEW O, Pairs(s, O), \A op \in X : op \in O => ~Final(s, op)
      PROVE  Pairs(t, O)
  <2>1. SUFFICES ASSUME NEW i \in 1..Len(t), NEW j \in 1..Len(t), i < j,
                        t[i].op = t[j].op, t[i].op \in O
                 PROVE  t[i].more /\ ~t[j].more
    BY DEF Pairs
  <2>2. CASE j \in 1..Len(s)
    <3>1. i \in 1..Len(s)
      BY <1>1, <2>1, <2>2
    <3>2. QED BY <1>2, <1>5, <2>1, <2>2, <3>1 DEF Pairs
  <2>3. CASE j \notin 1..Len(s)
    <3>1. i \in 1..Len(s)
      <4>1. i # j
        BY <1>1, <2>1
      <4>2. QED BY <2>1, <2>3, <4>1 DEF Grows
    <3>2. ~t[j].more /\ t[j].op \in X
      BY <1>3, <2>3
    <3>3. ~Final(s, t[i].op)
      BY <1>5, <2>1, <3>2
    <3>4. t[i] = s[i]
      BY <1>2, <3>1
    <3>5. QED BY <3>1, <3>2, <3>3, <3>4 DEF Final
  <2>4. QED BY <2>2, <2>3
<1>6. ASSUME NEW op PROVE Multi(t, op) <=> Multi(s, op)
  <2>1. Multi(t, op) => Multi(s, op)
    BY <1>2, <1>3 DEF Multi
  <2>2. Multi(s, op) => Multi(t, op)
    BY <1>2 DEF Multi
  <2>3. QED BY <2>1, <2>2
<1>7. QED BY <1>4, <1>5, <1>6

\* What is in a queue whose first entry was taken.
LEMMA TailFacts ==
    ASSUME NEW T, NEW s \in Seq(T), s # <<>>
    PROVE  /\ Tail(s) \in Seq(T) /\ Head(s) \in T
           /\ \A op : InQueue(s, op) <=> InQueue(Tail(s), op) \/ Head(s).op = op
           /\ \A O : Single(s, O) => /\ Single(Tail(s), O)
                                     /\ Head(s).op \in O => ~InQueue(Tail(s), Head(s).op)
           /\ \A a, b : Precedes(s, a, b) => /\ Precedes(Tail(s), a, b)
                                             /\ Head(s).op = b => ~InQueue(s, a)
           /\ \A a, b : Covered(s, a, b) =>
                 Covered(Tail(s), a, b) \/ (Head(s).op = b /\ ~InQueue(s, a))
           /\ \A i \in 1..Len(Tail(s)) : \E j \in 1..Len(s) : Tail(s)[i] = s[j]
           /\ \E j \in 1..Len(s) : Head(s) = s[j]
<1> DEFINE u == Tail(s)
           h == Head(s)
<1>1. /\ u \in Seq(T) /\ h \in T /\ 1 \in 1..Len(s) /\ h = s[1]
      /\ \A i \in 1..Len(u) : i + 1 \in 1..Len(s) /\ u[i] = s[i + 1]
  BY TailEntries
<1>2. /\ Len(s) \in Nat /\ Len(u) \in Nat
      /\ \A j \in 1..Len(s) : j = 1 \/ (j - 1 \in 1..Len(u) /\ u[j - 1] = s[j])
  OBVIOUS
<1> HIDE DEF u, h
<1>3. ASSUME NEW op PROVE InQueue(s, op) <=> InQueue(u, op) \/ h.op = op
  <2>1. InQueue(s, op) => InQueue(u, op) \/ h.op = op
    BY <1>1, <1>2 DEF InQueue
  <2>2. InQueue(u, op) => InQueue(s, op)
    BY <1>1 DEF InQueue
  <2>3. h.op = op => InQueue(s, op)
    BY <1>1 DEF InQueue
  <2>4. QED BY <2>1, <2>2, <2>3
<1>4. ASSUME NEW O, Single(s, O)
      PROVE  Single(u, O) /\ (h.op \in O => ~InQueue(u, h.op))
  <2>1. Single(u, O)
    <3>1. SUFFICES ASSUME NEW i \in 1..Len(u), NEW j \in 1..Len(u),
                          u[i].op = u[j].op, u[i].op \in O
                   PROVE  i = j
      BY DEF Single
    <3>2. i + 1 = j + 1
      BY <1>1, <1>4, <3>1 DEF Single
    <3>3. QED BY <3>2
  <2>2. ASSUME h.op \in O, NEW i \in 1..Len(u), u[i].op = h.op PROVE FALSE
    <3>1. i + 1 = 1
      BY <1>1, <1>4, <2>2 DEF Single
    <3>2. QED BY <3>1
  <2>3. QED BY <2>1, <2>2 DEF InQueue
<1>5. ASSUME NEW a, NEW b, Precedes(s, a, b)
      PROVE  Precedes(u, a, b) /\ (h.op = b => ~InQueue(s, a))
  <2>1. ASSUME NEW i \in 1..Len(u), NEW j \in 1..Len(u), u[i].op = a, u[j].op = b
        PROVE  i < j
    <3>1. i + 1 < j + 1
      BY <1>1, <1>5, <2>1 DEF Precedes
    <3>2. QED BY <3>1
  <2>2. ASSUME h.op = b, NEW i \in 1..Len(s), s[i].op = a PROVE FALSE
    <3>1. i < 1
      BY <1>1, <1>5, <2>2 DEF Precedes
    <3>2. QED BY <3>1
  <2>3. Precedes(u, a, b)
    BY <2>1 DEF Precedes
  <2>4. QED BY <2>2, <2>3 DEF InQueue
<1>6. ASSUME NEW a, NEW b, Covered(s, a, b)
      PROVE  Covered(u, a, b) \/ (h.op = b /\ ~InQueue(s, a))
  <2>1. PICK j \in 1..Len(s) : s[j].op = b /\ \A i \in 1..Len(s) : s[i].op = a => i < j
    BY <1>6 DEF Covered
  <2>2. CASE j = 1
    <3>1. \A i \in 1..Len(s) : s[i].op # a
      BY <2>1, <2>2
    <3>2. QED BY <1>1, <2>1, <2>2, <3>1 DEF InQueue
  <2>3. CASE j # 1
    <3>1. j - 1 \in 1..Len(u) /\ u[j - 1] = s[j]
      BY <1>2, <2>3
    <3>2. \A i \in 1..Len(u) : u[i].op = a => i < j - 1
      <4>1. \A i \in 1..Len(u) : u[i].op = a => i + 1 < j
        BY <1>1, <2>1
      <4>2. QED BY <4>1
    <3>3. QED BY <2>1, <3>1, <3>2 DEF Covered
  <2>4. QED BY <2>2, <2>3
<1>7. /\ \A i \in 1..Len(u) : \E j \in 1..Len(s) : u[i] = s[j]
      /\ \E j \in 1..Len(s) : h = s[j]
  BY <1>1
<1>8. /\ u \in Seq(T) /\ h \in T
      /\ \A op : InQueue(s, op) <=> InQueue(u, op) \/ h.op = op
      /\ \A O : Single(s, O) => Single(u, O) /\ (h.op \in O => ~InQueue(u, h.op))
      /\ \A a, b : Precedes(s, a, b) =>
            Precedes(u, a, b) /\ (h.op = b => ~InQueue(s, a))
      /\ \A a, b : Covered(s, a, b) =>
            Covered(u, a, b) \/ (h.op = b /\ ~InQueue(s, a))
  BY <1>1, <1>3, <1>4, <1>5, <1>6
<1>9. QED BY <1>7, <1>8 DEF u, h

\* The same of completions.
LEMMA TailFinal ==
    ASSUME NEW T, NEW s \in Seq(T), s # <<>>
    PROVE  /\ \A op : Final(s, op) <=> Final(Tail(s), op) \/ (Head(s).op = op /\ ~Head(s).more)
           /\ \A op : Multi(s, op) <=> Multi(Tail(s), op) \/ (Head(s).op = op /\ Head(s).more)
           /\ \A O : Pairs(s, O) =>
                 /\ Pairs(Tail(s), O)
                 /\ Head(s).op \in O => ~Multi(Tail(s), Head(s).op)
                 /\ Head(s).op \in O /\ ~Head(s).more => ~Final(Tail(s), Head(s).op)
           /\ \A op : InQueue(s, op) <=> Final(s, op) \/ Multi(s, op)
<1> DEFINE u == Tail(s)
           h == Head(s)
<1>1. /\ u \in Seq(T) /\ h \in T /\ 1 \in 1..Len(s) /\ h = s[1]
      /\ \A i \in 1..Len(u) : i + 1 \in 1..Len(s) /\ u[i] = s[i + 1]
  BY TailEntries
<1>2. /\ Len(s) \in Nat /\ Len(u) \in Nat
      /\ \A j \in 1..Len(s) : j = 1 \/ (j - 1 \in 1..Len(u) /\ u[j - 1] = s[j])
      /\ \A i \in 1..Len(u) : 1 < i + 1
  OBVIOUS
<1> HIDE DEF u, h
<1>3. ASSUME NEW op PROVE Final(s, op) <=> Final(u, op) \/ (h.op = op /\ ~h.more)
  <2>1. Final(s, op) => Final(u, op) \/ (h.op = op /\ ~h.more)
    BY <1>1, <1>2 DEF Final
  <2>2. Final(u, op) => Final(s, op)
    BY <1>1 DEF Final
  <2>3. h.op = op /\ ~h.more => Final(s, op)
    BY <1>1 DEF Final
  <2>4. QED BY <2>1, <2>2, <2>3
<1>4. ASSUME NEW O, Pairs(s, O)
      PROVE  /\ Pairs(u, O)
             /\ h.op \in O => ~Multi(u, h.op)
             /\ h.op \in O /\ ~h.more => ~Final(u, h.op)
  <2>1. ASSUME NEW i \in 1..Len(u), NEW j \in 1..Len(u), i < j, u[i].op = u[j].op,
               u[i].op \in O
        PROVE  u[i].more /\ ~u[j].more
    <3>1. i + 1 < j + 1
      BY <2>1
    <3>2. QED BY <1>1, <1>4, <2>1, <3>1 DEF Pairs
  <2>2. ASSUME h.op \in O, NEW i \in 1..Len(u), u[i].op = h.op
        PROVE  h.more /\ ~u[i].more
    BY <1>1, <1>2, <1>4, <2>2 DEF Pairs
  <2>3. Pairs(u, O)
    BY <2>1 DEF Pairs
  <2>4. QED BY <2>2, <2>3 DEF Final, Multi
<1>5. ASSUME NEW op PROVE Multi(s, op) <=> Multi(u, op) \/ (h.op = op /\ h.more)
  <2>1. Multi(s, op) => Multi(u, op) \/ (h.op = op /\ h.more)
    BY <1>1, <1>2 DEF Multi
  <2>2. Multi(u, op) => Multi(s, op)
    BY <1>1 DEF Multi
  <2>3. h.op = op /\ h.more => Multi(s, op)
    BY <1>1 DEF Multi
  <2>4. QED BY <2>1, <2>2, <2>3
<1>6. ASSUME NEW op PROVE InQueue(s, op) <=> Final(s, op) \/ Multi(s, op)
  BY DEF InQueue, Final, Multi
<1>7. QED BY <1>3, <1>4, <1>5, <1>6 DEF u, h

-----------------------------------------------------------------------------
(* The queues of the stream.                                               *)

\* What is queued now, and the completions that end an operation.
SqNew == {e \in Sqe : e.fd = hasFd}
CqNew == {e \in Cqe : ~e.more /\ OfTimer(e)}

SqOps == FrameOps \cup {"recv", "timer", "timerCancel", "removeTimer", "cancelSend",
                        "cancelRecv", "foreign"}

\* A completion has MORE or not.
LEMMA EitherKind == \A s, op : InQueue(s, op) <=> Final(s, op) \/ Multi(s, op)
BY DEF InQueue, Final, Multi

\* An entry that is queued in one case and not in the other.
LEMMA GrowsIf ==
    ASSUME NEW T, NEW s \in Seq(T), NEW t \in Seq(T), NEW X, NEW E, Grows(s, t, X, E),
           NEW x \in T, x \in E, x.op \notin X, NEW u, NEW Y,
           \/ u = t \o <<>> /\ Y = X
           \/ u = t \o <<x>> /\ Y = X \cup {x.op}
    PROVE  u \in Seq(T) /\ Grows(s, u, Y, E)
<1>1. CASE u = t \o <<>> /\ Y = X
  <2>1. t \o <<>> = t
    OBVIOUS
  <2>2. QED BY <1>1, <2>1
<1>2. CASE u = t \o <<x>> /\ Y = X \cup {x.op}
  <2>1. /\ Append(t, x) \in Seq(T) /\ t \o <<x>> = Append(t, x)
        /\ Grows(s, Append(t, x), X \cup {x.op}, E)
    BY GrowsOne
  <2>2. QED BY <1>2, <2>1
<1>3. QED BY <1>1, <1>2

\* An SQE, and a completion.
LEMMA SqeFacts ==
    ASSUME NEW op \in SqOps, hasFd \in BOOLEAN
    PROVE  /\ Op(op) \in Sqe /\ Op(op) \in SqNew
           /\ Op(op).op = op /\ Op(op).fd = hasFd
BY DEF SqOps, Op, Sqe, SqNew

LEMMA CqeFacts ==
    ASSUME NEW op \in Ops, NEW r \in {"ok", "error", "ECANCELED", "ETIME"}
    PROVE  /\ Done(op, r) \in Cqe /\ Done(op, r).op = op /\ Done(op, r).res = r
           /\ Done(op, r).more = FALSE
           /\ op # "timer" \/ r = "ECANCELED" => Done(op, r) \in CqNew
BY DEF Ops, Done, Cqe, CqNew, OfTimer

LEMMA LastOnes == \A e \in CqNew : ~e.more
BY DEF CqNew

\* One SQE is queued.
LEMMA QueueOne ==
    ASSUME sq \in Seq(Sqe), hasFd \in BOOLEAN, NEW op \in SqOps, sq' = Append(sq, Op(op))
    PROVE  sq' \in Seq(Sqe) /\ Grows(sq, sq', {op}, SqNew)
<1>1. Grows(sq, sq, {}, SqNew)
  BY GrowsNone
<1>2. Op(op) \in Sqe /\ Op(op) \in SqNew /\ Op(op).op \notin {}
  BY SqeFacts
<1>3. /\ Append(sq, Op(op)) \in Seq(Sqe)
      /\ Grows(sq, Append(sq, Op(op)), {} \cup {Op(op).op}, SqNew)
  BY <1>1, <1>2, GrowsOne
<1>4. {} \cup {Op(op).op} = {op}
  BY SqeFacts
<1>5. QED BY <1>3, <1>4

\* One completion is.
LEMMA CompleteOne ==
    ASSUME cq \in Seq(Cqe), NEW op \in Ops, NEW r \in {"ok", "error", "ECANCELED"},
           op # "timer" \/ r = "ECANCELED", cq' = Append(cq, Done(op, r))
    PROVE  cq' \in Seq(Cqe) /\ Grows(cq, cq', {op}, CqNew)
<1>1. Grows(cq, cq, {}, CqNew)
  BY GrowsNone
<1>2. Done(op, r) \in Cqe /\ Done(op, r) \in CqNew /\ Done(op, r).op \notin {}
  BY CqeFacts
<1>3. /\ Append(cq, Done(op, r)) \in Seq(Cqe)
      /\ Grows(cq, Append(cq, Done(op, r)), {} \cup {Done(op, r).op}, CqNew)
  BY <1>1, <1>2, GrowsOne
<1>4. {} \cup {Done(op, r).op} = {op}
  BY DEF Done
<1>5. QED BY <1>3, <1>4

\* queue_timer_cancel queues the removal of a timer that is under way.
LEMMA QueueRemove ==
    ASSUME Types, NEW t \in Seq(Sqe), NEW X, Grows(sq, t, X, SqNew), "removeTimer" \notin X
    PROVE  /\ t \o RemoveTimer \in Seq(Sqe)
           /\ Grows(sq, t \o RemoveTimer,
                    X \cup {op \in {"removeTimer"} : tm.initiated}, SqNew)
<1> DEFINE x == Op("removeTimer")
           u == t \o RemoveTimer
           Y == X \cup {op \in {"removeTimer"} : tm.initiated}
<1>1. x \in Sqe /\ x \in SqNew /\ x.op = "removeTimer" /\ x.op \notin X
  BY SqeFacts DEF Types, SqOps
<1>2. sq \in Seq(Sqe)
  BY DEF Types
<1>3. \/ u = t \o <<>> /\ Y = X
      \/ u = t \o <<x>> /\ Y = X \cup {x.op}
  BY <1>1 DEF RemoveTimer
<1> HIDE DEF x, u, Y
<1>4. u \in Seq(Sqe) /\ Grows(sq, u, Y, SqNew)
  BY <1>1, <1>2, <1>3, GrowsIf
<1>5. QED BY <1>4 DEF u, Y

\* The last handle queues the removal of the timer and the cancel of a receive.
LEMMA QueueLast ==
    ASSUME Types, NEW t \in Seq(Sqe), NEW X, Grows(sq, t, X, SqNew),
           "removeTimer" \notin X, "cancelRecv" \notin X
    PROVE  /\ t \o LastCancels \in Seq(Sqe)
           /\ Grows(sq, t \o LastCancels,
                    (X \cup {op \in {"removeTimer"} : tm.initiated})
                        \cup {op \in {"cancelRecv"} : rf.initiated}, SqNew)
<1> DEFINE x == Op("cancelRecv")
           v == t \o RemoveTimer
           X1 == X \cup {op \in {"removeTimer"} : tm.initiated}
           u == t \o LastCancels
           Y == X1 \cup {op \in {"cancelRecv"} : rf.initiated}
<1>1. x \in Sqe /\ x \in SqNew /\ x.op = "cancelRecv" /\ x.op \notin X1
  BY SqeFacts DEF Types, SqOps
<1>2. sq \in Seq(Sqe)
  BY DEF Types
<1>3. v \in Seq(Sqe) /\ Grows(sq, v, X1, SqNew)
  BY QueueRemove
<1>4. /\ ~rf.initiated => u = v \o <<>>
      /\ rf.initiated => u = v \o <<x>>
  <2>1. Op("removeTimer") \in Sqe
    BY SqeFacts DEF Types, SqOps
  <2>2. \A y, z \in Sqe : /\ t \o (<<>> \o <<>>) = (t \o <<>>) \o <<>>
                          /\ t \o (<<>> \o <<z>>) = (t \o <<>>) \o <<z>>
                          /\ t \o (<<y>> \o <<>>) = (t \o <<y>>) \o <<>>
                          /\ t \o (<<y>> \o <<z>>) = (t \o <<y>>) \o <<z>>
    OBVIOUS
  <2>3. QED BY <1>1, <2>1, <2>2 DEF LastCancels, RemoveTimer
<1>5. \/ u = v \o <<>> /\ Y = X1
      \/ u = v \o <<x>> /\ Y = X1 \cup {x.op}
  <2>1. CASE rf.initiated
    BY <1>1, <1>4, <2>1
  <2>2. CASE ~rf.initiated
    BY <1>4, <2>2
  <2>3. QED BY <2>1, <2>2
<1> HIDE DEF x, v, X1, u, Y
<1>6. u \in Seq(Sqe) /\ Grows(sq, u, Y, SqNew)
  BY <1>1, <1>2, <1>3, <1>5, GrowsIf
<1>7. QED BY <1>6 DEF u, Y, X1

-----------------------------------------------------------------------------
(* Operations in flight.                                                   *)

\* SQEs are queued, and the frames of the operations among them wait now.
LEMMA FlightQueued ==
    ASSUME Types, NEW O, FlightOf(O), NEW X, NEW E, sq' \in Seq(Sqe), Grows(sq, sq', X, E),
           UNCHANGED <<work, cq, held, armed>>,
           \A op \in O : Waits(op)' <=> Waits(op) \/ op \in X,
           \A op \in O : op \in X => ~Waits(op)
    PROVE  FlightOf(O)'
<1>1. sq \in Seq(Sqe)
  BY DEF Types
<1>2. \A op : InQueue(sq', op) <=> InQueue(sq, op) \/ op \in X
  BY <1>1, GrowsFacts
<1>3. \A op \in O : op \in X => ~InQueue(sq, op)
  BY DEF FlightOf, Place
<1>4. Single(sq', O)
  <2>1. Single(sq, O) /\ \A op \in X : op \in O => ~InQueue(sq, op)
    BY <1>3 DEF FlightOf
  <2>2. QED BY <1>1, <2>1, GrowsFacts
<1>5. Single(work, O)' /\ Pairs(cq, O)'
  BY DEF FlightOf, Single, Pairs
<1>6. ASSUME NEW op \in O PROVE Place(op)'
  <2>1. /\ InQueue(work, op)' <=> InQueue(work, op)
        /\ Final(cq, op)' <=> Final(cq, op)
        /\ Multi(cq, op)' <=> Multi(cq, op)
        /\ Kept(op)' <=> Kept(op)
    BY DEF InQueue, Final, Multi, Kept
  <2>2. Place(op)
    BY DEF FlightOf
  <2>3. QED BY <1>2, <2>1, <2>2 DEF Place
<1>7. QED BY <1>4, <1>5, <1>6 DEF FlightOf

\* Nothing is queued.
LEMMA FlightSame ==
    ASSUME Types, NEW O, FlightOf(O), UNCHANGED <<sq, work, cq, held, armed>>,
           \A op \in O : Waits(op)' <=> Waits(op)
    PROVE  FlightOf(O)'
<1>1. Grows(sq, sq, {}, SqNew) /\ sq \in Seq(Sqe)
  BY GrowsNone DEF Types
<1>2. sq' = sq
  OBVIOUS
<1>3. QED BY <1>1, <1>2, FlightQueued

\* The loop processes a completion and queues SQEs.
LEMMA FlightReaped ==
    ASSUME Types, NEW O, FlightOf(O), NEW X, NEW E, sq' \in Seq(Sqe), Grows(sq, sq', X, E),
           cq # <<>>, cq' = Tail(cq), UNCHANGED <<work, held, armed>>,
           NEW e, e = Head(cq),
           \A op \in O : Waits(op)' <=> (Waits(op) /\ ~(op = e.op /\ ~e.more)) \/ op \in X,
           \A op \in O : op \in X => ~Waits(op) \/ (op = e.op /\ ~e.more)
    PROVE  FlightOf(O)'
<1>1. sq \in Seq(Sqe) /\ cq \in Seq(Cqe)
  BY DEF Types
<1>2. \A op : InQueue(sq', op) <=> InQueue(sq, op) \/ op \in X
  BY <1>1, GrowsFacts
<1>3. /\ \A op : Final(cq, op) <=> Final(cq', op) \/ (e.op = op /\ ~e.more)
      /\ \A op : Multi(cq, op) <=> Multi(cq', op) \/ (e.op = op /\ e.more)
      /\ Pairs(cq', O)
      /\ e.op \in O => ~Multi(cq', e.op)
      /\ e.op \in O /\ ~e.more => ~Final(cq', e.op)
  <2>1. Pairs(cq, O)
    BY DEF FlightOf
  <2>2. QED BY <1>1, <2>1, TailFinal
<1>4. \A op \in O : op \in X => ~InQueue(sq, op)
  <2>1. ASSUME NEW op \in O, op \in X PROVE ~InQueue(sq, op)
    <3>1. Place(op)
      BY DEF FlightOf
    <3>2. ~Waits(op) \/ Final(cq, op)
      BY <1>3, <2>1
    <3>3. QED BY <3>1, <3>2 DEF Place
  <2>2. QED BY <2>1
<1>5. Single(sq', O)
  <2>1. Single(sq, O) /\ \A op \in X : op \in O => ~InQueue(sq, op)
    BY <1>4 DEF FlightOf
  <2>2. QED BY <1>1, <2>1, GrowsFacts
<1>6. Single(work, O)'
  BY DEF FlightOf, Single
<1>7. ASSUME NEW op \in O PROVE Place(op)'
  <2>1. /\ InQueue(work, op)' <=> InQueue(work, op)
        /\ Kept(op)' <=> Kept(op)
    BY DEF InQueue, Kept
  <2>2. Place(op)
    BY DEF FlightOf
  <2>3. /\ Waits(op)' <=> (Waits(op) /\ ~(op = e.op /\ ~e.more)) \/ op \in X
        /\ op \in X => ~Waits(op) \/ (op = e.op /\ ~e.more)
    OBVIOUS
  <2>4. CASE op = e.op
    BY <1>2, <1>3, <2>1, <2>2, <2>3, <2>4 DEF Place
  <2>5. CASE op # e.op
    BY <1>2, <1>3, <2>1, <2>2, <2>3, <2>5 DEF Place
  <2>6. QED BY <2>4, <2>5
<1>8. QED BY <1>3, <1>5, <1>6, <1>7 DEF FlightOf

\* The kernel takes an SQE or not, completes operations it had or has taken, and
\* keeps the one it has taken, or puts it with the task work.
LEMMA FlightMoved ==
    ASSUME Types, NEW O, FlightOf(O), sq' \in Seq(Sqe), work' \in Seq(Sqe),
           cq' \in Seq(Cqe), Single(sq', O), Single(work', O),
           NEW X, NEW E, Grows(cq, cq', X, E), \A e \in E : ~e.more,
           \A op \in O : Waits(op)' <=> Waits(op),
           \A op \in O : ~op \in X \/ ~Final(cq, op),
           \A op \in O :
              \/ /\ InQueue(sq', op) <=> InQueue(sq, op)
                 /\ InQueue(work', op) <=> InQueue(work, op)
                 /\ \/ op \notin X /\ (Kept(op)' <=> Kept(op))
                    \/ op \in X /\ Kept(op) /\ ~Kept(op)'
              \/ /\ InQueue(sq, op) /\ ~InQueue(sq', op)
                 /\ \/ op \in X /\ (Kept(op)' <=> Kept(op))
                       /\ (InQueue(work', op) <=> InQueue(work, op))
                    \/ op \notin X /\ Kept(op)'
                       /\ (InQueue(work', op) <=> InQueue(work, op))
                    \/ op \notin X /\ (Kept(op)' <=> Kept(op)) /\ InQueue(work', op)
              \/ /\ InQueue(work, op) /\ ~InQueue(work', op)
                 /\ InQueue(sq', op) <=> InQueue(sq, op)
                 /\ op \in X /\ (Kept(op)' <=> Kept(op))
    PROVE  FlightOf(O)'
<1>1. cq \in Seq(Cqe)
  BY DEF Types
<1>2. /\ \A op : Final(cq', op) <=> Final(cq, op) \/ op \in X
      /\ \A op : Multi(cq', op) <=> Multi(cq, op)
  BY <1>1, FinalFacts
<1>3. Pairs(cq', O)
  <2>1. Pairs(cq, O) /\ \A op \in X : op \in O => ~Final(cq, op)
    BY DEF FlightOf
  <2>2. QED BY <1>1, <2>1, FinalFacts
<1>4. ASSUME NEW op \in O PROVE Place(op)'
  <2>1. Place(op) /\ (Waits(op)' <=> Waits(op)) /\ (~op \in X \/ ~Final(cq, op))
    BY DEF FlightOf
  <2>2. QED BY <1>2, <2>1 DEF Place
<1>5. QED BY <1>3, <1>4 DEF FlightOf

-----------------------------------------------------------------------------
(* What the kernel does.                                                   *)

\* The completion of an operation that is cancelled, if it is.
LEMMA EndedOne ==
    ASSUME NEW s \in Seq(Cqe), NEW t \in Seq(Cqe), NEW X, Grows(s, t, X, CqNew), NEW ops,
           NEW op \in HeldOps, op \notin X
    PROVE  /\ t \o Ended(ops, op) \in Seq(Cqe)
           /\ Grows(s, t \o Ended(ops, op), X \cup ({op} \cap ops), CqNew)
<1> DEFINE r == IF op = "recv" THEN "error" ELSE "ok"
           x == Done(op, r)
           u == t \o Ended(ops, op)
           Y == X \cup ({op} \cap ops)
<1>1. x \in Cqe /\ x \in CqNew /\ x.op = op
  <2>1. op \in Ops /\ op # "timer" /\ r \in {"ok", "error", "ECANCELED", "ETIME"}
    BY DEF HeldOps, Ops, FrameOps
  <2>2. QED BY <2>1, CqeFacts
<1>2. \/ u = t \o <<>> /\ Y = X
      \/ u = t \o <<x>> /\ Y = X \cup {x.op}
  <2>1. CASE op \in ops
    BY <1>1, <2>1 DEF Ended
  <2>2. CASE op \notin ops
    BY <2>2 DEF Ended
  <2>3. QED BY <2>1, <2>2
<1> HIDE DEF x, u, Y
<1>3. u \in Seq(Cqe) /\ Grows(s, u, Y, CqNew)
  BY <1>1, <1>2, GrowsIf
<1>4. QED BY <1>3 DEF u, Y

\* Operations that are cancelled report it, then the cancel does.
LEMMA EndHeldFacts ==
    ASSUME Types, NEW ops \in SUBSET HeldOps, NEW own, NEW Y,
           \/ own = <<>> /\ Y = ops
           \/ \E op \in {"cancel", "timerCancel"} :
                 own = <<Done(op, "ok")>> /\ Y = ops \cup {op},
           EndHeld(ops, own)
    PROVE  /\ cq' \in Seq(Cqe) /\ Grows(cq, cq', Y, CqNew)
           /\ held' \in [HeldOps -> {"no", "slot", "orphan"}]
           /\ \A op \in HeldOps : held'[op] = IF op \in ops THEN "no" ELSE held[op]
<1> DEFINE t1 == cq \o Ended(ops, "send")
           t2 == t1 \o Ended(ops, "recv")
           t3 == t2 \o Ended(ops, "shutdown")
           X1 == {} \cup ({"send"} \cap ops)
           X2 == X1 \cup ({"recv"} \cap ops)
           X3 == X2 \cup ({"shutdown"} \cap ops)
<1>1. cq \in Seq(Cqe) /\ Grows(cq, cq, {}, CqNew)
  BY GrowsNone DEF Types
<1>2. t1 \in Seq(Cqe) /\ Grows(cq, t1, X1, CqNew)
  BY <1>1, EndedOne DEF HeldOps
<1>3. t2 \in Seq(Cqe) /\ Grows(cq, t2, X2, CqNew)
  <2>1. "recv" \notin X1 /\ "recv" \in HeldOps
    BY DEF HeldOps
  <2> HIDE DEF t1, X1
  <2>2. QED BY <1>1, <1>2, <2>1, EndedOne
<1>4. t3 \in Seq(Cqe) /\ Grows(cq, t3, X3, CqNew)
  <2>1. "shutdown" \notin X2 /\ "shutdown" \in HeldOps
    BY DEF HeldOps
  <2> HIDE DEF t2, X2
  <2>2. QED BY <1>1, <1>3, <2>1, EndedOne
<1>5. X3 = ops
  BY DEF HeldOps
<1>6. cq' = t3 \o own
  BY DEF EndHeld
<1> HIDE DEF t1, t2, t3, X1, X2, X3
<1>7. cq' \in Seq(Cqe) /\ Grows(cq, cq', Y, CqNew)
  <2>1. CASE own = <<>> /\ Y = ops
    <3>1. t3 \o <<>> = t3
      BY <1>4
    <3>2. QED BY <1>4, <1>5, <1>6, <2>1, <3>1
  <2>2. ASSUME NEW op \in {"cancel", "timerCancel"}, own = <<Done(op, "ok")>>,
               Y = ops \cup {op}
        PROVE  cq' \in Seq(Cqe) /\ Grows(cq, cq', Y, CqNew)
    <3> DEFINE x == Done(op, "ok")
    <3>1. x \in Cqe /\ x \in CqNew /\ x.op = op
      BY CqeFacts DEF Ops, FrameOps
    <3>2. op \notin ops
      BY DEF HeldOps
    <3>3. cq' = t3 \o <<x>> /\ Y = X3 \cup {x.op} /\ x.op \notin X3
      BY <1>5, <1>6, <2>2, <3>1, <3>2
    <3> HIDE DEF x
    <3>4. /\ Append(t3, x) \in Seq(Cqe) /\ t3 \o <<x>> = Append(t3, x)
          /\ Grows(cq, Append(t3, x), X3 \cup {x.op}, CqNew)
      BY <1>1, <1>4, <3>1, <3>3, GrowsOne
    <3>5. QED BY <3>3, <3>4
  <2>3. QED BY <2>1, <2>2
<1>8. held \in [HeldOps -> {"no", "slot", "orphan"}]
  BY DEF Types
<1>9. /\ held' \in [HeldOps -> {"no", "slot", "orphan"}]
      /\ \A op \in HeldOps : held'[op] = IF op \in ops THEN "no" ELSE held[op]
  BY <1>8 DEF EndHeld
<1>10. QED BY <1>7, <1>9

\* cancel_fd completes operations the slot leads to.
LEMMA CancelFdFacts ==
    ASSUME Types, NEW o, NEW own, NEW Z,
           \/ own = <<>> /\ Z = {}
           \/ \E op \in {"cancel", "timerCancel"} : own = <<Done(op, "ok")>> /\ Z = {op},
           CancelFd(o, own)
    PROVE  \E ops \in SUBSET HeldOps :
              /\ \A op \in ops : held[op] = "slot" /\ o.fd
              /\ cq' \in Seq(Cqe) /\ Grows(cq, cq', ops \cup Z, CqNew)
              /\ held' \in [HeldOps -> {"no", "slot", "orphan"}]
              /\ \A op \in HeldOps : held'[op] = IF op \in ops THEN "no" ELSE held[op]
<1>1. PICK ops \in SUBSET HeldOps : /\ \A op \in ops : held[op] = "slot" /\ o.fd
                                    /\ EndHeld(ops, own)
  <2> DEFINE there == {op \in HeldOps : o.fd /\ held[op] = "slot"}
  <2>1. EndHeld(there, own) \/ EndHeld(there \ {"shutdown"}, own)
    BY DEF CancelFd
  <2>2. QED BY <2>1
<1>2. \/ own = <<>> /\ ops \cup Z = ops
      \/ \E op \in {"cancel", "timerCancel"} :
            own = <<Done(op, "ok")>> /\ ops \cup Z = ops \cup {op}
  OBVIOUS
<1>3. /\ cq' \in Seq(Cqe) /\ Grows(cq, cq', ops \cup Z, CqNew)
      /\ held' \in [HeldOps -> {"no", "slot", "orphan"}]
      /\ \A op \in HeldOps : held'[op] = IF op \in ops THEN "no" ELSE held[op]
  BY <1>1, <1>2, EndHeldFacts
<1>4. QED BY <1>1, <1>3

\* What becomes of an SQE that the kernel takes; X are the operations that complete.
Taken(o, X) ==
    /\ cq' \in Seq(Cqe) /\ Grows(cq, cq', X, CqNew)
    /\ held' \in [HeldOps -> {"no", "slot", "orphan"}]
    /\ armed' = (o.op = "timer" \/ (armed /\ o.op # "removeTimer"))
    /\ work' = IF o.op = "close" THEN Append(work, o) ELSE work
    /\ file' = IF o.op = "foreign" THEN "foreign" ELSE file
    /\ "timer" \in X <=> o.op = "removeTimer" /\ armed
    /\ "close" \notin X
    /\ \A op \in {"cancel", "timerCancel"} : op \in X <=> o.op = op
    /\ \A op \in HeldOps :
          \/ o.op = op /\ op \in X /\ held'[op] = held[op]
          \/ o.op = op /\ op \notin X /\ held'[op] = "slot"
          \/ o.op # op /\ op \in X /\ held[op] # "no" /\ held'[op] = "no"
          \/ o.op # op /\ op \notin X /\ held'[op] = held[op]
    /\ o.op = "cancelSend" => held'["send"] = "no"
    /\ o.op = "cancelRecv" => held'["recv"] = "no"

\* The kernel arms the timer, removes it, or the slot is filled by somebody else.
LEMMA TakesTimer ==
    ASSUME Types, NEW o \in Sqe, Take(o), o.op \in {"timer", "removeTimer", "foreign"}
    PROVE  \E X : Taken(o, X)
<1>0. cq \in Seq(Cqe) /\ Grows(cq, cq, {}, CqNew) /\ armed \in BOOLEAN
      /\ held \in [HeldOps -> {"no", "slot", "orphan"}]
  BY GrowsNone DEF Types
<1>1. CASE o.op \in {"timer", "foreign"} \/ ~armed
  <2>1. /\ UNCHANGED <<cq, held, work>>
        /\ armed' = (o.op = "timer" \/ (armed /\ o.op # "removeTimer"))
        /\ file' = IF o.op = "foreign" THEN "foreign" ELSE file
    BY <1>0, <1>1 DEF Take, HeldOps
  <2>2. Taken(o, {})
    BY <1>0, <1>1, <2>1 DEF Taken, HeldOps
  <2>3. QED BY <2>2
<1>2. CASE o.op = "removeTimer" /\ armed
  <2>1. /\ cq' = Append(cq, Done("timer", "ECANCELED")) /\ UNCHANGED <<held, work, file>>
        /\ armed' = FALSE
    BY <1>2 DEF Take, HeldOps
  <2>2. cq' \in Seq(Cqe) /\ Grows(cq, cq', {"timer"}, CqNew)
    BY <1>0, <2>1, CompleteOne DEF Ops
  <2>3. Taken(o, {"timer"})
    BY <1>0, <1>2, <2>1, <2>2 DEF Taken, HeldOps
  <2>4. QED BY <2>3
<1>3. QED BY <1>1, <1>2

\* It issues a send, a receive or a shutdown.
LEMMA TakesHeld ==
    ASSUME Types, NEW o \in Sqe, Take(o), o.op \in HeldOps
    PROVE  \E X : Taken(o, X)
<1>0. cq \in Seq(Cqe) /\ Grows(cq, cq, {}, CqNew) /\ armed \in BOOLEAN
      /\ held \in [HeldOps -> {"no", "slot", "orphan"}]
  BY GrowsNone DEF Types
<1>1. Issue(o) /\ UNCHANGED <<work, file, armed>>
  BY DEF Take, HeldOps
<1>2. /\ armed' = (o.op = "timer" \/ (armed /\ o.op # "removeTimer"))
      /\ work' = IF o.op = "close" THEN Append(work, o) ELSE work
      /\ file' = IF o.op = "foreign" THEN "foreign" ELSE file
  BY <1>0, <1>1 DEF HeldOps
<1>3. CASE held' = [held EXCEPT ![o.op] = "slot"] /\ cq' = cq
  <2>1. Taken(o, {})
    BY <1>0, <1>2, <1>3 DEF Taken, HeldOps
  <2>2. QED BY <2>1
<1>4. ASSUME NEW r \in {"ok", "error"}, cq' = Append(cq, Done(o.op, r)), held' = held
      PROVE  \E X : Taken(o, X)
  <2>1. PICK op \in HeldOps : op = o.op
    OBVIOUS
  <2>2. cq' \in Seq(Cqe) /\ Grows(cq, cq', {op}, CqNew)
    BY <1>0, <1>4, <2>1, CompleteOne DEF Ops, HeldOps, FrameOps
  <2>3. Taken(o, {op})
    BY <1>0, <1>2, <1>4, <2>1, <2>2 DEF Taken, HeldOps
  <2>4. QED BY <2>3
<1>5. QED BY <1>1, <1>3, <1>4 DEF Issue

\* It cancels by slot, for a cancel, the timer or a close.
LEMMA TakesCancelFd ==
    ASSUME Types, NEW o \in Sqe, Take(o), o.op \in {"cancel", "timerCancel", "close"}
    PROVE  \E X : Taken(o, X)
<1>0. armed \in BOOLEAN
  BY DEF Types
<1> DEFINE own == IF o.op = "close" THEN <<>> ELSE <<Done(o.op, "ok")>>
           Z == {o.op} \ {"close"}
<1>1. CancelFd(o, own) /\ UNCHANGED <<file, armed>>
      /\ work' = IF o.op = "close" THEN Append(work, o) ELSE work
  BY DEF Take, HeldOps
<1>2. \/ own = <<>> /\ Z = {}
      \/ \E op \in {"cancel", "timerCancel"} : own = <<Done(op, "ok")>> /\ Z = {op}
  OBVIOUS
<1>3. PICK ops \in SUBSET HeldOps :
         /\ \A op \in ops : held[op] = "slot" /\ o.fd
         /\ cq' \in Seq(Cqe) /\ Grows(cq, cq', ops \cup Z, CqNew)
         /\ held' \in [HeldOps -> {"no", "slot", "orphan"}]
         /\ \A op \in HeldOps : held'[op] = IF op \in ops THEN "no" ELSE held[op]
  <2> HIDE DEF own, Z
  <2>1. QED BY <1>1, <1>2, CancelFdFacts
<1>4. PICK X : X = ops \cup Z
  OBVIOUS
<1>5. /\ "timer" \notin X /\ "close" \notin X
      /\ \A op \in {"cancel", "timerCancel"} : op \in X <=> o.op = op
      /\ \A op \in HeldOps : o.op # op /\ (op \in X <=> op \in ops)
  BY <1>4 DEF HeldOps
<1>6. armed' = (o.op = "timer" \/ (armed /\ o.op # "removeTimer"))
  BY <1>0, <1>1
<1>7. \A op \in HeldOps :
          \/ o.op # op /\ op \in X /\ held[op] # "no" /\ held'[op] = "no"
          \/ o.op # op /\ op \notin X /\ held'[op] = held[op]
  BY <1>3, <1>5
<1>8. Grows(cq, cq', X, CqNew)
  BY <1>3, <1>4
<1> HIDE DEF own, Z
<1>9. Taken(o, X)
  BY <1>1, <1>3, <1>5, <1>6, <1>7, <1>8 DEF Taken
<1>10. QED BY <1>9

\* It cancels a send or a receive by its frame.
LEMMA TakesCancel ==
    ASSUME Types, NEW o \in Sqe, Take(o), o.op \in {"cancelSend", "cancelRecv"}
    PROVE  \E X : Taken(o, X)
<1>0. armed \in BOOLEAN
  BY DEF Types
<1>1. PICK it \in HeldOps : it = IF o.op = "cancelSend" THEN "send" ELSE "recv"
  BY DEF HeldOps
<1> DEFINE ops == {it} \cap {op \in HeldOps : held[op] # "no"}
<1>2. EndHeld(ops, <<>>) /\ UNCHANGED <<work, file, armed>>
  BY <1>1 DEF Take, HeldOps
<1>3. ops \in SUBSET HeldOps /\ \A op \in HeldOps : op \in ops <=> op = it /\ held[op] # "no"
  OBVIOUS
<1> HIDE DEF ops
<1>4. /\ cq' \in Seq(Cqe) /\ Grows(cq, cq', ops, CqNew)
      /\ held' \in [HeldOps -> {"no", "slot", "orphan"}]
      /\ \A op \in HeldOps : held'[op] = IF op \in ops THEN "no" ELSE held[op]
  BY <1>2, <1>3, EndHeldFacts
<1>5. /\ "timer" \notin ops /\ "close" \notin ops
      /\ \A op \in {"cancel", "timerCancel"} : op \notin ops
      /\ \A op \in HeldOps : o.op # op
  BY <1>3 DEF HeldOps
<1>6. /\ armed' = (o.op = "timer" \/ (armed /\ o.op # "removeTimer"))
      /\ work' = IF o.op = "close" THEN Append(work, o) ELSE work
      /\ file' = IF o.op = "foreign" THEN "foreign" ELSE file
  BY <1>0, <1>2
<1>7. \A op \in HeldOps :
          \/ o.op # op /\ op \in ops /\ held[op] # "no" /\ held'[op] = "no"
          \/ o.op # op /\ op \notin ops /\ held'[op] = held[op]
  BY <1>3, <1>4, <1>5
<1>8. held'[it] = "no"
  BY <1>3, <1>4
<1>9. /\ o.op = "cancelSend" => held'["send"] = "no"
      /\ o.op = "cancelRecv" => held'["recv"] = "no"
  BY <1>1, <1>8
<1>10. Taken(o, ops)
  BY <1>4, <1>5, <1>6, <1>7, <1>9 DEF Taken
<1>11. QED BY <1>10

\* Any SQE.
LEMMA TakesAny ==
    ASSUME Types, KernelTakes
    PROVE  Head(sq) \in Sqe /\ \E X : Taken(Head(sq), X)
<1>1. sq \in Seq(Sqe) /\ sq # <<>> /\ Take(Head(sq))
  BY DEF Types, KernelTakes
<1>2. Head(sq) \in Sqe
  BY <1>1, TailFacts
<1>3. Head(sq).op \in {"timer", "removeTimer", "foreign"} \cup HeldOps
                      \cup {"cancel", "timerCancel", "close"} \cup {"cancelSend", "cancelRecv"}
  BY <1>2 DEF Sqe, FrameOps, HeldOps
<1>4. QED BY <1>1, <1>2, <1>3, TakesTimer, TakesHeld, TakesCancelFd, TakesCancel

\* A frame does not wait for something else when only the kernel moves.
LEMMA WaitsSame ==
    ASSUME UNCHANGED <<fr, rf, tm, tc>>
    PROVE  \A op : Waits(op)' <=> Waits(op)
BY DEF Waits, Active

\* Operations stay in flight when the kernel takes an SQE.
LEMMA TakesFlight ==
    ASSUME Types, NEW O \in SUBSET Ops, FlightOf(O), KernelTakes
    PROVE  FlightOf(O)'
<1>1. PICK o : o = Head(sq)
  OBVIOUS
<1>2. sq \in Seq(Sqe) /\ work \in Seq(Sqe) /\ cq \in Seq(Cqe) /\ sq # <<>> /\ sq' = Tail(sq)
  BY DEF Types, KernelTakes
<1>3. PICK X : o \in Sqe /\ Taken(o, X)
  BY <1>1, TakesAny
<1>4. /\ sq' \in Seq(Sqe) /\ Single(sq', O)
      /\ \A op : InQueue(sq, op) <=> InQueue(sq', op) \/ o.op = op
      /\ \A op \in O : o.op = op => InQueue(sq, op) /\ ~InQueue(sq', op)
  <2>1. Single(sq, O)
    BY DEF FlightOf
  <2>2. QED BY <1>1, <1>2, <2>1, TailFacts
<1>5. \A op \in O : Waits(op)' <=> Waits(op)
  BY WaitsSame DEF KernelTakes, frameVars
<1>6. \A op \in O : Place(op)
  BY DEF FlightOf
<1>7. /\ work' \in Seq(Sqe) /\ Single(work', O)
      /\ \A op : InQueue(work', op) <=> InQueue(work, op) \/ (op = "close" /\ o.op = "close")
  <2>1. CASE o.op = "close"
    <3>1. work' = Append(work, o)
      BY <1>3, <2>1 DEF Taken
    <3>2. Grows(work, work, {}, Sqe)
      BY <1>2, GrowsNone
    <3>3. work' \in Seq(Sqe) /\ Grows(work, work', {} \cup {o.op}, Sqe)
      <4>1. o \in Sqe /\ o.op \notin {} /\ work \in Seq(Sqe)
        BY <1>2, <1>3
      <4>2. /\ Append(work, o) \in Seq(Sqe)
            /\ Grows(work, Append(work, o), {} \cup {o.op}, Sqe)
        BY <3>2, <4>1, GrowsOne
      <4>3. QED BY <3>1, <4>2
    <3>4. Single(work, O) /\ \A op \in {} \cup {o.op} : op \in O => ~InQueue(work, op)
      BY <1>4, <1>6 DEF FlightOf, Place
    <3>5. Single(work', O)
      BY <1>2, <3>3, <3>4, GrowsFacts
    <3>6. \A op : InQueue(work', op) <=> InQueue(work, op) \/ op \in {} \cup {o.op}
      BY <1>2, <3>3, GrowsFacts
    <3>7. QED BY <2>1, <3>3, <3>5, <3>6
  <2>2. CASE o.op # "close"
    <3>1. work' = work
      BY <1>3, <2>2 DEF Taken
    <3>2. QED BY <1>2, <2>2, <3>1 DEF FlightOf
  <2>3. QED BY <2>1, <2>2
<1>8. cq' \in Seq(Cqe) /\ Grows(cq, cq', X, CqNew)
  BY <1>3 DEF Taken
<1>9. ASSUME NEW op \in O
      PROVE  /\ op \notin X \/ ~Final(cq, op)
             /\ \/ /\ InQueue(sq', op) <=> InQueue(sq, op)
                   /\ InQueue(work', op) <=> InQueue(work, op)
                   /\ \/ op \notin X /\ (Kept(op)' <=> Kept(op))
                      \/ op \in X /\ Kept(op) /\ ~Kept(op)'
                \/ /\ InQueue(sq, op) /\ ~InQueue(sq', op)
                   /\ \/ op \in X /\ (Kept(op)' <=> Kept(op))
                         /\ (InQueue(work', op) <=> InQueue(work, op))
                      \/ op \notin X /\ Kept(op)'
                         /\ (InQueue(work', op) <=> InQueue(work, op))
                      \/ op \notin X /\ (Kept(op)' <=> Kept(op)) /\ InQueue(work', op)
  <2>1. Place(op) /\ (InQueue(sq, op) <=> InQueue(sq', op) \/ o.op = op)
        /\ (o.op = op => InQueue(sq, op) /\ ~InQueue(sq', op))
    BY <1>4, <1>6
  <2>2. InQueue(work', op) <=> InQueue(work, op) \/ (op = "close" /\ o.op = "close")
    BY <1>7
  <2>3. CASE op \in HeldOps
    <3>1. (Kept(op) <=> held[op] # "no") /\ (Kept(op)' <=> held'[op] # "no") /\ op # "close"
      BY <2>3 DEF Kept, HeldOps
    <3>2. \/ o.op = op /\ op \in X /\ held'[op] = held[op]
          \/ o.op = op /\ op \notin X /\ held'[op] = "slot"
          \/ o.op # op /\ op \in X /\ held[op] # "no" /\ held'[op] = "no"
          \/ o.op # op /\ op \notin X /\ held'[op] = held[op]
      BY <1>3, <2>3 DEF Taken
    <3>3. QED BY <2>1, <2>2, <3>1, <3>2 DEF Place
  <2>4. CASE op = "timer"
    <3>1. (Kept(op) <=> armed) /\ (Kept(op)' <=> armed') /\ op # "close"
      BY <2>4 DEF Kept, HeldOps
    <3>2. /\ armed' <=> o.op = op \/ (armed /\ o.op # "removeTimer")
          /\ op \in X <=> o.op = "removeTimer" /\ armed
      BY <1>3, <2>4 DEF Taken
    <3>3. o.op = op => o.op # "removeTimer"
      BY <2>4
    <3>4. QED BY <2>1, <2>2, <3>1, <3>2, <3>3 DEF Place
  <2>5. CASE op \in {"cancel", "timerCancel"}
    <3>1. ~Kept(op) /\ ~Kept(op)' /\ op # "close" /\ (op \in X <=> o.op = op)
      BY <1>3, <2>5 DEF Kept, HeldOps, Taken
    <3>2. QED BY <2>1, <2>2, <3>1 DEF Place
  <2>6. CASE op = "close"
    <3>1. ~Kept(op) /\ ~Kept(op)' /\ op \notin X
      BY <1>3, <2>6 DEF Kept, HeldOps, Taken
    <3>2. QED BY <2>1, <2>2, <2>6, <3>1 DEF Place
  <2>7. QED BY <2>3, <2>4, <2>5, <2>6 DEF Ops, FrameOps, HeldOps
<1>10. QED BY <1>4, <1>5, <1>7, <1>8, <1>9, LastOnes, FlightMoved

\* A completion with MORE.
LEMMA MoreFacts ==
    ASSUME NEW s \in Seq(Cqe), NEW x \in Cqe, x.more, NEW t, t = Append(s, x)
    PROVE  /\ t \in Seq(Cqe) /\ Grows(s, t, {x.op}, {x})
           /\ \A op : Final(t, op) <=> Final(s, op)
           /\ \A op : Multi(t, op) <=> Multi(s, op) \/ op = x.op
           /\ \A O : Pairs(s, O) /\ (x.op \in O => ~InQueue(s, x.op)) => Pairs(t, O)
<1> DEFINE n == Len(s) + 1
<1>1. /\ t \in Seq(Cqe) /\ Len(t) = n /\ t[n] = x /\ Len(s) \in Nat
      /\ \A i \in 1..Len(s) : t[i] = s[i]
  OBVIOUS
<1>2. n \in Nat /\ n = Len(s) + 1
  BY <1>1
<1> HIDE DEF n
<1>3. /\ \A i \in 1..Len(t) : i \in 1..Len(s) \/ i = n
      /\ \A i \in 1..Len(s) : i \in 1..Len(t) /\ ~n < i
      /\ n \in 1..Len(t) /\ ~n < n
  BY <1>1, <1>2
<1>4. Grows(s, t, {x.op}, {x})
  <2>1. x \in {x} /\ x.op \notin {} /\ Grows(s, s, {}, {x})
    BY GrowsNone
  <2>2. Grows(s, Append(s, x), {} \cup {x.op}, {x})
    BY <2>1, GrowsOne
  <2>3. {} \cup {x.op} = {x.op}
    OBVIOUS
  <2>4. QED BY <2>2, <2>3
<1>5. ASSUME NEW op PROVE Final(t, op) <=> Final(s, op)
  <2>1. Final(t, op) => Final(s, op)
    BY <1>1, <1>3 DEF Final
  <2>2. Final(s, op) => Final(t, op)
    BY <1>1, <1>3 DEF Final
  <2>3. QED BY <2>1, <2>2
<1>6. ASSUME NEW op PROVE Multi(t, op) <=> Multi(s, op) \/ op = x.op
  <2>1. Multi(t, op) => Multi(s, op) \/ op = x.op
    BY <1>1, <1>3 DEF Multi
  <2>2. Multi(s, op) => Multi(t, op)
    BY <1>1, <1>3 DEF Multi
  <2>3. op = x.op => Multi(t, op)
    BY <1>1, <1>3 DEF Multi
  <2>4. QED BY <2>1, <2>2, <2>3
<1>7. ASSUME NEW O, Pairs(s, O), x.op \in O => ~InQueue(s, x.op)
      PROVE  Pairs(t, O)
  <2>1. SUFFICES ASSUME NEW i \in 1..Len(t), NEW j \in 1..Len(t), i < j,
                        t[i].op = t[j].op, t[i].op \in O
                 PROVE  t[i].more /\ ~t[j].more
    BY DEF Pairs
  <2>2. CASE j = n
    <3>1. i \in 1..Len(s)
      BY <1>3, <2>1, <2>2
    <3>2. QED BY <1>1, <1>7, <2>1, <2>2, <3>1 DEF InQueue
  <2>3. CASE j \in 1..Len(s)
    <3>1. i \in 1..Len(s)
      BY <1>3, <2>1, <2>3
    <3>2. QED BY <1>1, <1>7, <2>1, <2>3, <3>1 DEF Pairs
  <2>4. QED BY <1>3, <2>2, <2>3
<1>8. QED BY <1>1, <1>4, <1>5, <1>6, <1>7

\* The kernel completes an operation that it keeps.
LEMMA FlightMore ==
    ASSUME Types, NEW O, FlightOf(O), NEW x \in Cqe, x.more, cq' = Append(cq, x),
           x.op \in O => ~InQueue(cq, x.op) /\ Kept(x.op), UNCHANGED <<sq, work>>,
           \A op \in O : Kept(op)' <=> Kept(op),
           \A op \in O : Waits(op)' <=> Waits(op)
    PROVE  FlightOf(O)'
<1>1. cq \in Seq(Cqe) /\ Pairs(cq, O)
  BY DEF Types, FlightOf
<1>2. /\ \A op : Final(cq', op) <=> Final(cq, op)
      /\ \A op : Multi(cq', op) <=> Multi(cq, op) \/ op = x.op
      /\ Pairs(cq', O)
  BY <1>1, MoreFacts
<1>3. Single(sq, O)' /\ Single(work, O)'
  BY DEF FlightOf, Single
<1>4. ASSUME NEW op \in O PROVE Place(op)'
  <2>1. (InQueue(work, op)' <=> InQueue(work, op)) /\ (InQueue(sq, op)' <=> InQueue(sq, op))
    BY DEF InQueue
  <2>2. Place(op) /\ (Waits(op)' <=> Waits(op)) /\ (Kept(op)' <=> Kept(op))
    BY DEF FlightOf
  <2>3. op = x.op => Kept(op)
    OBVIOUS
  <2>4. QED BY <1>2, <2>1, <2>2, <2>3 DEF Place
<1>5. QED BY <1>2, <1>3, <1>4 DEF FlightOf

\* close_direct runs.
LEMMA WorksFacts ==
    ASSUME Types, Control, KernelWorks
    PROVE  /\ cq' \in Seq(Cqe) /\ Grows(cq, cq', {"close"}, CqNew)
           /\ held' \in [HeldOps -> {"no", "slot", "orphan"}]
           /\ \A op \in HeldOps : held'[op] = "no" <=> held[op] = "no"
           /\ file' \in {file, "empty"}
           /\ work # <<>> /\ work' = Tail(work) /\ work' \in Seq(Sqe)
           /\ Head(work) \in Sqe /\ Head(work).op = "close"
<1>1. cq \in Seq(Cqe) /\ held \in [HeldOps -> {"no", "slot", "orphan"}] /\ work \in Seq(Sqe)
  BY DEF Types
<1>2. cq' = Append(cq, Done("close", "ok")) /\ work # <<>> /\ work' = Tail(work)
  BY DEF KernelWorks
<1>3. cq' \in Seq(Cqe) /\ Grows(cq, cq', {"close"}, CqNew)
  BY <1>1, <1>2, CompleteOne DEF Ops, FrameOps
<1>4. /\ work' \in Seq(Sqe) /\ Head(work) \in Sqe
      /\ \E j \in 1..Len(work) : Head(work) = work[j]
  BY <1>1, <1>2, TailFacts
<1>5. Head(work).op = "close"
  BY <1>4 DEF Control
<1>6. /\ held' \in [HeldOps -> {"no", "slot", "orphan"}]
      /\ \A op \in HeldOps : held'[op] = "no" <=> held[op] = "no"
  BY <1>1 DEF KernelWorks
<1>7. file' \in {file, "empty"}
  BY DEF KernelWorks
<1>8. QED BY <1>2, <1>3, <1>4, <1>5, <1>6, <1>7

LEMMA WorksFlight ==
    ASSUME Types, Control, NEW O \in SUBSET Ops, FlightOf(O), KernelWorks
    PROVE  FlightOf(O)'
<1>1. /\ cq' \in Seq(Cqe) /\ Grows(cq, cq', {"close"}, CqNew)
      /\ \A op \in HeldOps : held'[op] = "no" <=> held[op] = "no"
      /\ work # <<>> /\ work' = Tail(work) /\ work' \in Seq(Sqe)
      /\ Head(work).op = "close"
  BY WorksFacts
<1>2. work \in Seq(Sqe) /\ sq \in Seq(Sqe) /\ sq' = sq /\ armed' = armed
  BY DEF Types, KernelWorks
<1>3. \A op \in O : Waits(op)' <=> Waits(op)
  BY WaitsSame DEF KernelWorks, frameVars
<1>4. /\ Single(work', O)
      /\ \A op : InQueue(work, op) <=> InQueue(work', op) \/ op = "close"
      /\ "close" \in O => ~InQueue(work', "close")
  <2>1. Single(work, O)
    BY DEF FlightOf
  <2>2. QED BY <1>1, <1>2, <2>1, TailFacts
<1>5. Single(sq', O)
  BY <1>2 DEF FlightOf
<1>6. ASSUME NEW op \in O
      PROVE  /\ ~op \in {"close"} \/ ~Final(cq, op)
             /\ \/ /\ InQueue(sq', op) <=> InQueue(sq, op)
                   /\ InQueue(work', op) <=> InQueue(work, op)
                   /\ op \notin {"close"} /\ (Kept(op)' <=> Kept(op))
                \/ /\ InQueue(work, op) /\ ~InQueue(work', op)
                   /\ InQueue(sq', op) <=> InQueue(sq, op)
                   /\ op \in {"close"} /\ (Kept(op)' <=> Kept(op))
  <2>1. Kept(op)' <=> Kept(op)
    BY <1>1, <1>2 DEF Kept
  <2>2. Place(op)
    BY DEF FlightOf
  <2>3. InQueue(sq', op) <=> InQueue(sq, op)
    BY <1>2
  <2>4. QED BY <1>4, <2>1, <2>2, <2>3 DEF Place
<1>7. QED BY <1>1, <1>2, <1>3, <1>4, <1>5, <1>6, LastOnes, FlightMoved

\* The peer or a worker ends an operation, or data arrives.
LEMMA CompletesFacts ==
    ASSUME Types, NEW op \in HeldOps, KernelCompletes(op)
    PROVE  /\ cq' \in Seq(Cqe) /\ held' \in [HeldOps -> {"no", "slot", "orphan"}]
           /\ held[op] # "no"
           /\ \/ /\ Grows(cq, cq', {op}, CqNew)
                 /\ held' = [held EXCEPT ![op] = "no"]
              \/ /\ op = "recv" /\ ~InQueue(cq, "recv") /\ held' = held
                 /\ \E x \in Cqe : /\ x.op = "recv" /\ x.more /\ x.res = "ok"
                                   /\ cq' = Append(cq, x)
<1>1. cq \in Seq(Cqe) /\ held \in [HeldOps -> {"no", "slot", "orphan"}]
      /\ op \in Ops /\ op # "timer"
  BY DEF Types, HeldOps, Ops, FrameOps
<1>2. held[op] # "no" /\ held' \in [HeldOps -> {"no", "slot", "orphan"}]
  BY <1>1 DEF KernelCompletes
<1>3. CASE op # "recv"
  <2>1. cq' = Append(cq, Done(op, "ok")) /\ held' = [held EXCEPT ![op] = "no"]
    BY <1>3 DEF KernelCompletes
  <2>2. cq' \in Seq(Cqe) /\ Grows(cq, cq', {op}, CqNew)
    BY <1>1, <2>1, CompleteOne
  <2>3. QED BY <1>2, <1>3, <2>1, <2>2
<1>4. CASE op = "recv"
  <2>1. ~InQueue(cq, "recv")
    BY <1>4 DEF KernelCompletes, InQueue
  <2>2. ASSUME NEW r \in {"ok", "error"}, cq' = Append(cq, Done("recv", r)),
               held' = [held EXCEPT !["recv"] = "no"]
        PROVE  cq' \in Seq(Cqe) /\ Grows(cq, cq', {op}, CqNew)
    BY <1>1, <1>4, <2>2, CompleteOne
  <2>3. ASSUME cq' = Append(cq, [Done("recv", "ok") EXCEPT !.more = TRUE]), held' = held
        PROVE  /\ cq' \in Seq(Cqe)
               /\ \E x \in Cqe : /\ x.op = "recv" /\ x.more /\ x.res = "ok"
                                 /\ cq' = Append(cq, x)
    <3> DEFINE x == [Done("recv", "ok") EXCEPT !.more = TRUE]
    <3>1. x \in Cqe /\ x.op = "recv" /\ x.more /\ x.res = "ok"
      BY DEF Done, Cqe
    <3> HIDE DEF x
    <3>2. cq' \in Seq(Cqe)
      BY <1>1, <2>3, <3>1 DEF x
    <3>3. QED BY <2>3, <3>1, <3>2 DEF x
  <2>4. \/ \E r \in {"ok", "error"} : /\ cq' = Append(cq, Done("recv", r))
                                      /\ held' = [held EXCEPT !["recv"] = "no"]
        \/ cq' = Append(cq, [Done("recv", "ok") EXCEPT !.more = TRUE]) /\ held' = held
    BY <1>4 DEF KernelCompletes
  <2>5. QED BY <1>2, <1>4, <2>1, <2>2, <2>3, <2>4
<1>5. QED BY <1>3, <1>4

LEMMA CompletesFlight ==
    ASSUME Types, NEW O \in SUBSET Ops, FlightOf(O), NEW op \in HeldOps, KernelCompletes(op)
    PROVE  FlightOf(O)'
<1>1. UNCHANGED <<fr, rf, tm, tc, sq, work, armed>>
  BY DEF KernelCompletes, frameVars
<1>2. \A p \in O : Waits(p)' <=> Waits(p)
  BY <1>1, WaitsSame
<1>3. /\ cq' \in Seq(Cqe) /\ held[op] # "no" /\ op # "timer"
      /\ held \in [HeldOps -> {"no", "slot", "orphan"}] /\ sq \in Seq(Sqe)
      /\ work \in Seq(Sqe)
  BY CompletesFacts DEF Types, HeldOps
<1>4. Kept(op)
  BY <1>3 DEF Kept
<1>5. CASE Grows(cq, cq', {op}, CqNew) /\ held' = [held EXCEPT ![op] = "no"]
  <2>1. Single(sq', O) /\ Single(work', O)
    BY <1>1 DEF FlightOf
  <2>2. ASSUME NEW p \in O
        PROVE  /\ ~p \in {op} \/ ~Final(cq, p)
               /\ InQueue(sq', p) <=> InQueue(sq, p)
               /\ InQueue(work', p) <=> InQueue(work, p)
               /\ \/ p \notin {op} /\ (Kept(p)' <=> Kept(p))
                  \/ p \in {op} /\ Kept(p) /\ ~Kept(p)'
    <3>1. Place(p)
      BY DEF FlightOf
    <3>2. p = op => ~Kept(p)'
      BY <1>3, <1>5 DEF Kept
    <3>3. p # op => (Kept(p)' <=> Kept(p))
      BY <1>1, <1>3, <1>5 DEF Kept
    <3>4. QED BY <1>1, <1>4, <3>1, <3>2, <3>3 DEF Place
  <2>3. QED BY <1>1, <1>2, <1>3, <1>5, <2>1, <2>2, LastOnes, FlightMoved
<1>6. ASSUME op = "recv", ~InQueue(cq, "recv"), held' = held,
             NEW x \in Cqe, x.op = "recv", x.more, cq' = Append(cq, x)
      PROVE  FlightOf(O)'
  <2>1. \A p \in O : Kept(p)' <=> Kept(p)
    BY <1>1, <1>6 DEF Kept
  <2>2. ~InQueue(cq, x.op) /\ Kept(x.op)
    BY <1>4, <1>6
  <2>3. QED BY <1>1, <1>2, <1>6, <2>1, <2>2, FlightMore
<1>7. QED BY <1>5, <1>6, CompletesFacts

\* The timer expires; the loop is never late and the kernel does not end the
\* timer when Uses is empty.
LEMMA ExpireFacts ==
    ASSUME Types, Expire
    PROVE  \E x \in Cqe :
              /\ x.op = "timer" /\ x.res = "ETIME" /\ cq' = Append(cq, x)
              /\ cq' \in Seq(Cqe) /\ armed /\ armed' = x.more
              /\ Uses = {} => x.more /\ ~InQueue(cq, "timer") /\ ~tc
<1>1. PICK more \in BOOLEAN :
         /\ more \/ "timerEnds" \in Uses
         /\ cq' = Append(cq, [Done("timer", "ETIME") EXCEPT !.more = more])
         /\ armed' = more
  BY DEF Expire
<1> DEFINE x == [Done("timer", "ETIME") EXCEPT !.more = more]
<1>2. x \in Cqe /\ x.op = "timer" /\ x.res = "ETIME" /\ x.more = more
  BY DEF Done, Cqe
<1>3. cq \in Seq(Cqe) /\ armed
  BY DEF Types, Expire
<1>4. Uses = {} => ~InQueue(cq, "timer") /\ ~tc
  <2>1. SUFFICES ASSUME Uses = {} PROVE ~InQueue(cq, "timer") /\ ~tc
    OBVIOUS
  <2>2. Expiries = 0 /\ ~tc
    BY <2>1 DEF Expire
  <2>3. Expiries = OfOp(cq, "timer")
    BY DEF Expiries, OfOp
  <2>4. OfOp(cq, "timer") = 0 <=> \A i \in 1..Len(cq) : cq[i].op # "timer"
    BY <1>3, OfOpFacts DEF OpLaws
  <2>5. QED BY <2>2, <2>3, <2>4 DEF InQueue
<1> HIDE DEF x
<1>5. cq' = Append(cq, x) /\ cq' \in Seq(Cqe)
  BY <1>1, <1>2, <1>3 DEF x
<1>6. QED BY <1>1, <1>2, <1>3, <1>4, <1>5

LEMMA ExpireFlight ==
    ASSUME Types, NEW O \in SUBSET Ops, FlightOf(O), Expire, "timer" \notin O \/ Uses = {}
    PROVE  FlightOf(O)'
<1>1. UNCHANGED <<fr, rf, tm, tc, sq, work, held>>
  BY DEF Expire, frameVars
<1>2. \A p \in O : Waits(p)' <=> Waits(p)
  BY <1>1, WaitsSame
<1>3. PICK x \in Cqe :
         /\ x.op = "timer" /\ x.res = "ETIME" /\ cq' = Append(cq, x)
         /\ cq' \in Seq(Cqe) /\ armed /\ armed' = x.more
         /\ Uses = {} => x.more /\ ~InQueue(cq, "timer") /\ ~tc
  BY ExpireFacts
<1>4. CASE x.more
  <2>1. \A p \in O : Kept(p)' <=> Kept(p)
    BY <1>1, <1>3, <1>4 DEF Kept
  <2>2. x.op \in O => ~InQueue(cq, x.op) /\ Kept(x.op)
    BY <1>3 DEF Kept
  <2>3. QED BY <1>1, <1>2, <1>3, <1>4, <2>1, <2>2, FlightMore
<1>5. CASE ~x.more
  <2>1. cq \in Seq(Cqe) /\ sq \in Seq(Sqe) /\ work \in Seq(Sqe)
    BY DEF Types
  <2>2. Single(sq', O) /\ Single(work', O) /\ sq' \in Seq(Sqe) /\ work' \in Seq(Sqe)
    BY <1>1, <2>1 DEF FlightOf
  <2>3. Grows(cq, cq', {"timer"}, {x}) /\ \A e \in {x} : ~e.more
    <3>1. x \in {x} /\ x.op \notin {} /\ Grows(cq, cq, {}, {x})
      BY <2>1, GrowsNone
    <3>2. Grows(cq, Append(cq, x), {} \cup {x.op}, {x})
      BY <2>1, <3>1, GrowsOne
    <3>3. {} \cup {x.op} = {"timer"}
      BY <1>3
    <3>4. QED BY <1>3, <1>5, <3>2, <3>3
  <2>4. ASSUME NEW p \in O
        PROVE  /\ p \notin {"timer"}
               /\ InQueue(sq', p) <=> InQueue(sq, p)
               /\ InQueue(work', p) <=> InQueue(work, p)
               /\ Kept(p)' <=> Kept(p)
    <3>1. p # "timer"
      BY <1>3, <1>5
    <3>2. QED BY <1>1, <3>1 DEF Kept
  <2>5. QED BY <1>2, <1>3, <2>2, <2>3, <2>4, FlightMoved
<1>6. QED BY <1>4, <1>5

-----------------------------------------------------------------------------
(* Calls are preserved by the kernel.                                      *)

\* The coroutines wait for what they waited for.
LEMMA WaitersSame ==
    ASSUME Waiters, UNCHANGED <<fr, co, handles>>, rf'.h = rf.h,
           rf'.initiated = rf.initiated, Leaving => Leaving'
    PROVE  Waiters'
<1>1. \A c : Ready(c)' <=> Ready(c)
  BY DEF Ready
<1>2. \A c : Bit(Ready(c))' = Bit(Ready(c))
  BY <1>1 DEF Bit
<1>3. \A c, d \in Coros : (co[c] = co[d] /\ co[c] \in CallOps)' => c = d
  BY DEF Waiters
<1>4. ASSUME ~Leaving'
      PROVE  /\ \A op \in FrameOps : (fr[op].h # None => co[fr[op].h] = op)'
             /\ \A c \in Coros : (co[c] \in FrameOps => fr[co[c]].initiated)'
             /\ (rf.initiated /\ rf.h # None => co[rf.h] = "recv")'
             /\ \A c \in Coros : (co[c] = "recv" =>
                   rf.h = None \/ (rf.h = c /\ rf.initiated))'
             /\ \A c \in Coros : (Times(handles, c) = Bit(Ready(c)))'
  <2>1. ~Leaving
    BY <1>4
  <2>2. \A c \in Coros : (Times(handles, c) = Bit(Ready(c)))'
    BY <1>2, <2>1 DEF Waiters
  <2>3. QED BY <2>1, <2>2 DEF Waiters
<1>5. QED BY <1>3, <1>4 DEF Waiters

\* So are the frames, if only last completions come.
LEMMA FramesSame ==
    ASSUME Frames, UNCHANGED fr, rf'.ec = rf.ec, rf'.initiated = rf.initiated,
           \A i \in 1..Len(cq') : Plain(cq'[i])
    PROVE  Frames'
<1>1. \A op \in FrameOps : (/\ fr[op].done => fr[op].initiated
                            /\ fr[op].h # None <=> Active(fr[op]))'
  BY DEF Frames, Active
<1>2. QED BY <1>1 DEF Frames

LEMMA PlainGrows ==
    ASSUME Frames, NEW X, Grows(cq, cq', X, CqNew)
    PROVE  \A i \in 1..Len(cq') : Plain(cq'[i])
<1>1. \A i \in 1..Len(cq') : (i \in 1..Len(cq) /\ cq'[i] = cq[i]) \/ cq'[i] \in CqNew
  BY DEF Grows
<1>2. \A e \in CqNew : Plain(e)
  BY DEF CqNew, Plain
<1>3. QED BY <1>1, <1>2 DEF Frames

LEMMA PlainMore ==
    ASSUME Types, Frames, NEW x \in Cqe, x.op = "timer" \/ x.res = "ok",
           x.op \in {"recv", "timer"}, cq' = Append(cq, x)
    PROVE  \A i \in 1..Len(cq') : Plain(cq'[i])
<1>1. cq \in Seq(Cqe)
  BY DEF Types
<1>2. \A i \in 1..Len(cq') : (i \in 1..Len(cq) /\ cq'[i] = cq[i]) \/ cq'[i] = x
  BY <1>1, Entries
<1>3. Plain(x)
  BY DEF Plain
<1>4. QED BY <1>2, <1>3 DEF Frames

\* What every step of the kernel leaves as it is.
LEMMA KernelSame ==
    ASSUME Types, Control, Waiters, pc = "submit",
           UNCHANGED <<fr, rf, tm, tc, sendAge, hasFd, co, handles, pc, back, adjusts>>,
           sq' \in Seq(Sqe), work' \in Seq(Sqe), cq' \in Seq(Cqe),
           file' \in {"own", "empty", "foreign"},
           held' \in [HeldOps -> {"no", "slot", "orphan"}], armed' \in BOOLEAN,
           \A i \in 1..Len(work') : work'[i].op = "close"
    PROVE  Types' /\ Control' /\ Waiters'
<1>1. Types'
  BY DEF Types
<1>2. Control'
  BY DEF Control
<1>3. Leaving => Leaving'
  BY DEF Leaving
<1>4. QED BY <1>1, <1>2, <1>3, WaitersSame

LEMMA TakesCalls ==
    ASSUME Calls, KernelTakes
    PROVE  Calls'
<1>1. Types /\ Control /\ Frames /\ Waiters /\ FlightOf(CallOps)
  BY DEF Calls, KernelTakes
<1>2. PICK o : o = Head(sq)
  OBVIOUS
<1>3. PICK X : o \in Sqe /\ Taken(o, X)
  BY <1>1, <1>2, TakesAny
<1>4. /\ UNCHANGED <<fr, rf, tm, tc, sendAge, hasFd, co, handles, pc, back, adjusts>>
      /\ pc = "submit" /\ sq # <<>> /\ sq' = Tail(sq)
  BY DEF KernelTakes, frameVars, loopVars
<1>5. /\ sq \in Seq(Sqe) /\ work \in Seq(Sqe) /\ armed \in BOOLEAN
      /\ file \in {"own", "empty", "foreign"}
  BY <1>1 DEF Types
<1>6. sq' \in Seq(Sqe)
  BY <1>4, <1>5, TailFacts
<1>7. work' \in Seq(Sqe) /\ \A i \in 1..Len(work') : work'[i].op = "close"
  <2>1. CASE o.op = "close"
    <3>1. work' = Append(work, o)
      BY <1>3, <2>1 DEF Taken
    <3>2. /\ work' \in Seq(Sqe)
          /\ \A i \in 1..Len(work') : (i \in 1..Len(work) /\ work'[i] = work[i]) \/ work'[i] = o
      BY <1>3, <1>5, <3>1, Entries
    <3>3. QED BY <1>1, <2>1, <3>2 DEF Control
  <2>2. CASE o.op # "close"
    BY <1>1, <1>3, <1>5, <2>2 DEF Taken, Control
  <2>3. QED BY <2>1, <2>2
<1>8. /\ cq' \in Seq(Cqe) /\ held' \in [HeldOps -> {"no", "slot", "orphan"}]
      /\ armed' \in BOOLEAN /\ file' \in {"own", "empty", "foreign"}
      /\ Grows(cq, cq', X, CqNew)
  BY <1>3, <1>5 DEF Taken
<1>9. Types' /\ Control' /\ Waiters'
  BY <1>1, <1>4, <1>6, <1>7, <1>8, KernelSame
<1>10. Frames'
  BY <1>1, <1>4, <1>8, PlainGrows, FramesSame
<1>11. CallOps \in SUBSET Ops
  BY DEF CallOps, Ops
<1>12. FlightOf(CallOps)'
  BY <1>1, <1>11, TakesFlight
<1>13. QED BY <1>9, <1>10, <1>12 DEF Calls

LEMMA WorksCalls ==
    ASSUME Calls, KernelWorks
    PROVE  Calls'
<1>1. Types /\ Control /\ Frames /\ Waiters /\ FlightOf(CallOps)
  BY DEF Calls, KernelWorks
<1>2. /\ cq' \in Seq(Cqe) /\ Grows(cq, cq', {"close"}, CqNew)
      /\ held' \in [HeldOps -> {"no", "slot", "orphan"}]
      /\ file' \in {file, "empty"}
      /\ work # <<>> /\ work' = Tail(work) /\ work' \in Seq(Sqe)
  BY <1>1, WorksFacts
<1>3. /\ UNCHANGED <<fr, rf, tm, tc, sendAge, hasFd, co, handles, pc, back, adjusts>>
      /\ pc = "submit" /\ UNCHANGED <<sq, armed>>
  BY DEF KernelWorks, frameVars, loopVars
<1>4. /\ sq' \in Seq(Sqe) /\ armed' \in BOOLEAN /\ file' \in {"own", "empty", "foreign"}
      /\ work \in Seq(Sqe)
  BY <1>1, <1>2, <1>3 DEF Types
<1>5. \A i \in 1..Len(work') : work'[i].op = "close"
  <2>1. \A i \in 1..Len(work') : \E j \in 1..Len(work) : work'[i] = work[j]
    BY <1>2, <1>4, TailFacts
  <2>2. QED BY <1>1, <2>1 DEF Control
<1>6. Types' /\ Control' /\ Waiters'
  BY <1>1, <1>2, <1>3, <1>4, <1>5, KernelSame
<1>7. Frames'
  BY <1>1, <1>2, <1>3, PlainGrows, FramesSame
<1>8. CallOps \in SUBSET Ops
  BY DEF CallOps, Ops
<1>9. FlightOf(CallOps)'
  BY <1>1, <1>8, WorksFlight
<1>10. QED BY <1>6, <1>7, <1>9 DEF Calls

LEMMA CompletesCalls ==
    ASSUME Calls, NEW op \in HeldOps, KernelCompletes(op)
    PROVE  Calls'
<1>1. Types /\ Control /\ Frames /\ Waiters /\ FlightOf(CallOps)
  BY DEF Calls, KernelCompletes
<1>2. /\ UNCHANGED <<fr, rf, tm, tc, sendAge, hasFd, co, handles, pc, back, adjusts>>
      /\ pc = "submit" /\ UNCHANGED <<sq, work, file, armed>>
  BY DEF KernelCompletes, frameVars, loopVars
<1>3. cq' \in Seq(Cqe) /\ held' \in [HeldOps -> {"no", "slot", "orphan"}]
  BY <1>1, CompletesFacts
<1>4. /\ sq' \in Seq(Sqe) /\ armed' \in BOOLEAN /\ file' \in {"own", "empty", "foreign"}
      /\ work' \in Seq(Sqe) /\ \A i \in 1..Len(work') : work'[i].op = "close"
  BY <1>1, <1>2 DEF Types, Control
<1>5. Types' /\ Control' /\ Waiters'
  BY <1>1, <1>2, <1>3, <1>4, KernelSame
<1>6. \A i \in 1..Len(cq') : Plain(cq'[i])
  BY <1>1, CompletesFacts, PlainGrows, PlainMore
<1>7. Frames'
  BY <1>1, <1>2, <1>6, FramesSame
<1>8. CallOps \in SUBSET Ops
  BY DEF CallOps, Ops
<1>9. FlightOf(CallOps)'
  BY <1>1, <1>8, CompletesFlight
<1>10. QED BY <1>5, <1>7, <1>9 DEF Calls

LEMMA ExpireCalls ==
    ASSUME Calls, Expire
    PROVE  Calls'
<1>1. Types /\ Control /\ Frames /\ Waiters /\ FlightOf(CallOps)
  BY DEF Calls, Expire
<1>2. /\ UNCHANGED <<fr, rf, tm, tc, sendAge, hasFd, co, handles, pc, back, adjusts>>
      /\ pc = "submit" /\ UNCHANGED <<sq, work, file, held>>
  BY DEF Expire, frameVars, loopVars
<1>3. PICK x \in Cqe : /\ x.op = "timer" /\ cq' = Append(cq, x)
                       /\ cq' \in Seq(Cqe) /\ armed' = x.more
  BY <1>1, ExpireFacts
<1>4. /\ sq' \in Seq(Sqe) /\ armed' \in BOOLEAN /\ file' \in {"own", "empty", "foreign"}
      /\ held' \in [HeldOps -> {"no", "slot", "orphan"}]
      /\ work' \in Seq(Sqe) /\ \A i \in 1..Len(work') : work'[i].op = "close"
  BY <1>1, <1>2, <1>3 DEF Types, Control, Cqe
<1>5. Types' /\ Control' /\ Waiters'
  BY <1>1, <1>2, <1>3, <1>4, KernelSame
<1>6. \A i \in 1..Len(cq') : Plain(cq'[i])
  BY <1>1, <1>3, PlainMore
<1>7. Frames'
  BY <1>1, <1>2, <1>6, FramesSame
<1>8. CallOps \in SUBSET Ops /\ "timer" \notin CallOps
  BY DEF CallOps, Ops, FrameOps
<1>9. FlightOf(CallOps)'
  BY <1>1, <1>8, ExpireFlight
<1>10. QED BY <1>5, <1>7, <1>9 DEF Calls

-----------------------------------------------------------------------------
(* Calls are preserved by the coroutines.                                  *)

\* A coroutine runs only when nobody leaves run().
LEMMA Running ==
    ASSUME Control, pc \in {"user", "reap"}
    PROVE  ~Leaving /\ back = "user" /\ work = <<>>
BY DEF Control, Leaving

\* None is no coroutine.
LEMMA NotNone == \A c \in Coros : c # None
BY StreamAssumption

\* What a coroutine that starts an operation does to the frames.
LEMMA BeginFacts ==
    ASSUME Types, Frames, NEW c \in Coros, NEW op \in FrameOps, May(op), Begin(c, op),
           UNCHANGED <<rf, tc>>, tm'.initiated = tm.initiated
    PROVE  /\ fr' \in [FrameOps -> Frame]
           /\ fr'[op].h = c /\ fr'[op].initiated /\ ~fr'[op].done
           /\ \A p \in FrameOps : p # op => fr'[p] = fr[p]
           /\ co' \in [Coros -> FrameOps \cup {"recv", "idle", "gone"}]
           /\ co'[c] = op /\ \A d \in Coros : d # c => co'[d] = co[d]
           /\ ~Waits(op) /\ \A p \in Ops : Waits(p)' <=> Waits(p) \/ p = op
<1>1. /\ fr \in [FrameOps -> Frame]
      /\ co \in [Coros -> FrameOps \cup {"recv", "idle", "gone"}]
  BY DEF Types
<1>2. ~fr[op].initiated /\ ~fr[op].done
  BY DEF Frames, May
<1>3. /\ fr' = [fr EXCEPT ![op].h = c, ![op].initiated = TRUE]
      /\ co' = [co EXCEPT ![c] = op]
  BY DEF Begin
<1>4. fr[op] \in Frame
  BY <1>1
<1>5. fr'[op] = [fr[op] EXCEPT !.h = c, !.initiated = TRUE]
      /\ \A p \in FrameOps : p # op => fr'[p] = fr[p]
  BY <1>1, <1>3
<1>6. fr'[op] \in Frame /\ fr'[op].h = c /\ fr'[op].initiated /\ fr'[op].done = fr[op].done
  BY <1>4, <1>5 DEF Frame
<1>7. fr' \in [FrameOps -> Frame]
  <2>1. \A p \in FrameOps : fr'[p] \in Frame
    BY <1>1, <1>5, <1>6
  <2>2. DOMAIN fr' = FrameOps /\ fr' = [p \in FrameOps |-> fr'[p]]
    BY <1>1, <1>3
  <2>3. QED BY <2>1, <2>2
<1>8. ~Active(fr[op]) /\ Active(fr'[op])
  BY <1>2, <1>6 DEF Active
<1>9. /\ co' \in [Coros -> FrameOps \cup {"recv", "idle", "gone"}]
      /\ co'[c] = op /\ \A d \in Coros : d # c => co'[d] = co[d]
  BY <1>1, <1>3
<1>10. ~Waits(op)
  BY <1>8 DEF Waits, FrameOps
<1>11. ASSUME NEW p \in Ops PROVE Waits(p)' <=> Waits(p) \/ p = op
  <2>1. CASE p \in FrameOps
    <3>1. (Waits(p) <=> Active(fr[p])) /\ (Waits(p)' <=> Active(fr'[p]))
      BY <2>1 DEF Waits, FrameOps
    <3>2. QED BY <1>5, <1>8, <2>1, <3>1
  <2>2. CASE p \notin FrameOps
    BY <2>2 DEF Waits
  <2>3. QED BY <2>1, <2>2
<1>12. QED BY <1>2, <1>5, <1>6, <1>7, <1>9, <1>10, <1>11

\* The coroutine waits, in the frame.
LEMMA BeginWaiters ==
    ASSUME Calls, NEW c \in Coros, Free(c), NEW op \in FrameOps, May(op), Begin(c, op),
           UNCHANGED <<rf, tc>>, tm'.initiated = tm.initiated
    PROVE  Waiters' /\ Frames'
<1>1. Types /\ Control /\ Frames /\ Waiters
  BY DEF Calls
<1>2. pc = "user" /\ co[c] = "idle" /\ UNCHANGED <<pc, back, handles, cq>>
  BY DEF Free, Begin
<1>3. ~Leaving /\ ~Leaving'
  BY <1>1, <1>2, Running DEF Leaving
<1>4. /\ fr'[op].h = c /\ fr'[op].initiated /\ ~fr'[op].done
      /\ \A p \in FrameOps : p # op => fr'[p] = fr[p]
      /\ co'[c] = op /\ \A d \in Coros : d # c => co'[d] = co[d]
  BY <1>1, BeginFacts
<1>5. ~fr[op].initiated /\ ~fr[op].done
  BY <1>1 DEF Frames, May
<1>6. \A d \in Coros : co[d] # op
  BY <1>1, <1>3, <1>5 DEF Waiters
<1>7. "recv" \notin FrameOps /\ "idle" \notin FrameOps /\ op # "recv" /\ c # None
  BY NotNone DEF FrameOps
<1>8. \A d, e \in Coros : (co[d] = co[e] /\ co[d] \in CallOps)' => d = e
  BY <1>1, <1>4, <1>6 DEF Waiters
<1>9. \A p \in FrameOps : (fr[p].h # None => co[fr[p].h] = p)'
  <2>1. ASSUME NEW p \in FrameOps, p # op, fr'[p].h # None PROVE co'[fr'[p].h] = p
    <3>1. fr[p].h # None /\ fr[p].h \in Coros \cup {None} /\ fr'[p].h = fr[p].h
      BY <1>1, <1>4, <2>1 DEF Types, Frame
    <3>2. co[fr[p].h] = p
      BY <1>1, <1>3, <3>1 DEF Waiters
    <3>3. QED BY <1>2, <1>4, <1>7, <3>1, <3>2
  <2>2. QED BY <1>4, <2>1
<1>10. \A d \in Coros : (co[d] \in FrameOps => fr[co[d]].initiated)'
  BY <1>1, <1>3, <1>4, <1>6 DEF Waiters
<1>11. rf'.initiated /\ rf'.h # None => co'[rf'.h] = "recv"
  <2>1. rf' = rf /\ rf.h \in Coros \cup {None}
    BY <1>1 DEF Types
  <2>2. QED BY <1>1, <1>2, <1>3, <1>4, <2>1 DEF Waiters
<1>12. \A d \in Coros : (co[d] = "recv" => rf.h = None \/ (rf.h = d /\ rf.initiated))'
  BY <1>1, <1>3, <1>4, <1>7 DEF Waiters
<1>13. ASSUME NEW d \in Coros PROVE (Times(handles, d) = Bit(Ready(d)))'
  <2>1. Times(handles, d) = Bit(Ready(d))
    BY <1>1, <1>3 DEF Waiters
  <2>2. Ready(d)' <=> Ready(d)
    <3>1. CASE d = c
      BY <1>2, <1>4, <1>7, <3>1 DEF Ready
    <3>2. CASE d # c
      BY <1>4, <1>6, <3>2 DEF Ready
    <3>3. QED BY <3>1, <3>2
  <2>3. QED BY <1>2, <2>1, <2>2 DEF Bit
<1>14. Waiters'
  BY <1>8, <1>9, <1>10, <1>11, <1>12, <1>13 DEF Waiters
<1>15. \A p \in FrameOps : (fr[p].done => fr[p].initiated)'
  BY <1>1, <1>4 DEF Frames
<1>16. \A p \in FrameOps : (fr[p].h # None <=> Active(fr[p]))'
  BY <1>1, <1>4, <1>7 DEF Frames, Active
<1>17. Frames'
  BY <1>1, <1>2, <1>15, <1>16 DEF Frames
<1>18. QED BY <1>14, <1>17

\* send_awaitable, shutdown_awaitable, stream_cancel_awaitable and
\* stream_close_awaitable.
LEMMA BeginCalls ==
    ASSUME Calls, NEW c \in Coros, Free(c), NEW op \in FrameOps, May(op), Begin(c, op),
           UNCHANGED <<rf, tc>>, tm'.initiated = tm.initiated,
           tm' \in [initiated : BOOLEAN, cancelled : BOOLEAN], sendAge' \in 0..Overdue,
           NEW X, sq' \in Seq(Sqe), Grows(sq, sq', X, SqNew), X \cap Ops = {op}
    PROVE  /\ Calls'
           /\ \A O \in SUBSET Ops : FlightOf(O) => FlightOf(O)'
<1>1. Types /\ Control /\ Frames /\ Waiters
  BY DEF Calls
<1>2. pc = "user" /\ co[c] = "idle" /\ FlightOf(CallOps)
  BY DEF Free, Calls
<1>3. UNCHANGED <<hasFd, handles, pc, back, work, file, held, armed, cq, adjusts>>
  BY DEF Begin
<1>4. /\ fr' \in [FrameOps -> Frame]
      /\ co' \in [Coros -> FrameOps \cup {"recv", "idle", "gone"}]
      /\ ~Waits(op) /\ \A p \in Ops : Waits(p)' <=> Waits(p) \/ p = op
  BY <1>1, BeginFacts
<1>5. Types'
  BY <1>1, <1>3, <1>4 DEF Types
<1>6. Control'
  BY <1>1, <1>2, <1>3 DEF Control
<1>7. ASSUME NEW O \in SUBSET Ops, FlightOf(O) PROVE FlightOf(O)'
  <2>1. /\ \A p \in O : Waits(p)' <=> Waits(p) \/ p \in X
        /\ \A p \in O : p \in X => ~Waits(p)
    <3>1. \A p \in O : p \in X <=> p = op
      OBVIOUS
    <3>2. QED BY <1>4, <3>1
  <2>2. QED BY <1>1, <1>3, <1>7, <2>1, FlightQueued
<1>8. CallOps \in SUBSET Ops
  BY DEF CallOps, Ops
<1>9. FlightOf(CallOps)'
  BY <1>2, <1>7, <1>8
<1>10. QED BY <1>5, <1>6, <1>7, <1>9, BeginWaiters DEF Calls

\* A coroutine starts an operation that has a frame of its own; X is what is queued.
Starts(c, op, X) ==
    /\ Free(c) /\ May(op) /\ Begin(c, op) /\ UNCHANGED <<rf, tc>>
    /\ tm' = IF op = "close" THEN TimerCancelled ELSE tm
    /\ sendAge' \in 0..Overdue
    /\ sq' \in Seq(Sqe) /\ Grows(sq, sq', X, SqNew)
    /\ X = {op} \cup {r \in {"removeTimer"} : op = "close" /\ tm.initiated}

LEMMA StartsAny ==
    ASSUME Types, NEW c \in Coros,
           AsyncSend(c) \/ AsyncShutdown(c) \/ AsyncCancel(c) \/ AsyncClose(c)
    PROVE  \E op \in FrameOps : \E X : Starts(c, op, X)
<1>0. /\ sq \in Seq(Sqe) /\ hasFd \in BOOLEAN /\ sendAge \in 0..Overdue /\ 0 \in 0..Overdue
      /\ FrameOps \subseteq SqOps
  BY DEF Types, Overdue, SqOps
<1>1. ASSUME NEW op \in FrameOps \ {"close"}, Free(c), May(op), Begin(c, op),
             UNCHANGED <<rf, tc, tm>>, sendAge' \in {0, sendAge}, sq' = Append(sq, Op(op))
      PROVE  \E p \in FrameOps : \E X : Starts(c, p, X)
  <2>1. sq' \in Seq(Sqe) /\ Grows(sq, sq', {op}, SqNew)
    BY <1>0, <1>1, QueueOne
  <2>2. {op} = {op} \cup {r \in {"removeTimer"} : op = "close" /\ tm.initiated}
    OBVIOUS
  <2>3. Starts(c, op, {op})
    BY <1>0, <1>1, <2>1, <2>2 DEF Starts
  <2>4. QED BY <2>3
<1>2. CASE AsyncSend(c)
  BY <1>1, <1>2 DEF AsyncSend, FrameOps
<1>3. CASE AsyncShutdown(c)
  BY <1>1, <1>3 DEF AsyncShutdown, FrameOps
<1>4. CASE AsyncCancel(c)
  BY <1>1, <1>4 DEF AsyncCancel, FrameOps
<1>5. CASE AsyncClose(c)
  <2> DEFINE x == Op("close")
             t == Append(sq, x)
             X == {"close"} \cup {r \in {"removeTimer"} : tm.initiated}
  <2>1. t \in Seq(Sqe) /\ Grows(sq, t, {"close"}, SqNew)
    <3>1. Grows(sq, sq, {}, SqNew)
      BY <1>0, GrowsNone
    <3>2. x \in Sqe /\ x \in SqNew /\ x.op = "close" /\ x.op \notin {}
      BY <1>0, SqeFacts DEF FrameOps
    <3> HIDE DEF x
    <3>3. t \in Seq(Sqe) /\ Grows(sq, t, {} \cup {x.op}, SqNew)
      BY <1>0, <3>1, <3>2, GrowsOne
    <3>4. {} \cup {x.op} = {"close"}
      BY <3>2
    <3>5. QED BY <3>3, <3>4
  <2>2. sq' = t \o RemoveTimer
    BY <1>5 DEF AsyncClose
  <2> HIDE DEF t
  <2>3. sq' \in Seq(Sqe) /\ Grows(sq, sq', X, SqNew)
    BY <2>1, <2>2, QueueRemove
  <2>4. X = {"close"} \cup {r \in {"removeTimer"} : "close" = "close" /\ tm.initiated}
    OBVIOUS
  <2>5. Starts(c, "close", X)
    BY <1>0, <1>5, <2>3, <2>4 DEF Starts, AsyncClose
  <2>6. QED BY <2>5 DEF FrameOps
<1>6. QED BY <1>2, <1>3, <1>4, <1>5

LEMMA StartsCalls ==
    ASSUME Calls, NEW c \in Coros, NEW op \in FrameOps, NEW X, Starts(c, op, X)
    PROVE  /\ Calls'
           /\ \A O \in SUBSET Ops : FlightOf(O) => FlightOf(O)'
<1>1. tm \in [initiated : BOOLEAN, cancelled : BOOLEAN]
  BY DEF Calls, Types
<1>2. tm'.initiated = tm.initiated /\ tm' \in [initiated : BOOLEAN, cancelled : BOOLEAN]
  BY <1>1 DEF Starts, TimerCancelled
<1>3. X \cap Ops = {op}
  BY DEF Starts, Ops, FrameOps
<1>4. /\ Free(c) /\ May(op) /\ Begin(c, op) /\ UNCHANGED <<rf, tc>>
      /\ sendAge' \in 0..Overdue /\ sq' \in Seq(Sqe) /\ Grows(sq, sq', X, SqNew)
  BY DEF Starts
<1>5. QED BY <1>2, <1>3, <1>4, BeginCalls

\* A receive is waited for; X is what is queued.
Receives(c, X) ==
    /\ Free(c) /\ (\A d \in Coros : co[d] # "recv")
    /\ ~rf.data /\ ~rf.ec
    /\ co' = [co EXCEPT ![c] = "recv"]
    /\ refs' = refs + 1 + One(~rf.initiated)
    /\ rf'.h = c /\ rf'.initiated /\ rf'.data = rf.data /\ rf'.ec = rf.ec
    /\ rf' \in [h : Coros \cup {None}, initiated : BOOLEAN, data : BOOLEAN,
                ec : BOOLEAN, age : 0..Overdue]
    /\ sq' \in Seq(Sqe) /\ Grows(sq, sq', X, SqNew)
    /\ X = {r \in {"recv"} : ~rf.initiated}
    /\ UNCHANGED <<fr, tm, tc, sendAge, hasFd, handles, pc, back, work, file,
                   held, armed, cq, adjusts>>

LEMMA ReceivesAny ==
    ASSUME Types, NEW c \in Coros, AsyncRecv(c)
    PROVE  \E X : Receives(c, X)
<1>0. /\ sq \in Seq(Sqe) /\ hasFd \in BOOLEAN /\ 0 \in 0..Overdue /\ "recv" \in SqOps
      /\ rf \in [h : Coros \cup {None}, initiated : BOOLEAN, data : BOOLEAN,
                 ec : BOOLEAN, age : 0..Overdue]
  BY DEF Types, Overdue, SqOps
<1>1. CASE rf.initiated
  <2>1. rf' = [rf EXCEPT !.h = c] /\ sq' = sq
    BY <1>1 DEF AsyncRecv
  <2>2. /\ rf'.h = c /\ rf'.initiated /\ rf'.data = rf.data /\ rf'.ec = rf.ec
        /\ rf' \in [h : Coros \cup {None}, initiated : BOOLEAN, data : BOOLEAN,
                    ec : BOOLEAN, age : 0..Overdue]
    BY <1>0, <1>1, <2>1
  <2>3. sq' \in Seq(Sqe) /\ Grows(sq, sq', {}, SqNew)
    BY <1>0, <2>1, GrowsNone
  <2>4. {} = {r \in {"recv"} : ~rf.initiated}
    BY <1>1
  <2>5. Receives(c, {})
    BY <2>2, <2>3, <2>4 DEF Receives, AsyncRecv
  <2>6. QED BY <2>5
<1>2. CASE ~rf.initiated
  <2>1. /\ rf' = [rf EXCEPT !.h = c, !.initiated = TRUE, !.age = 0]
        /\ sq' = Append(sq, Op("recv"))
    BY <1>2 DEF AsyncRecv
  <2>2. /\ rf'.h = c /\ rf'.initiated /\ rf'.data = rf.data /\ rf'.ec = rf.ec
        /\ rf' \in [h : Coros \cup {None}, initiated : BOOLEAN, data : BOOLEAN,
                    ec : BOOLEAN, age : 0..Overdue]
    BY <1>0, <2>1
  <2>3. sq' \in Seq(Sqe) /\ Grows(sq, sq', {"recv"}, SqNew)
    BY <1>0, <2>1, QueueOne
  <2>4. {"recv"} = {r \in {"recv"} : ~rf.initiated}
    BY <1>2
  <2>5. Receives(c, {"recv"})
    BY <2>2, <2>3, <2>4 DEF Receives, AsyncRecv
  <2>6. QED BY <2>5
<1>3. QED BY <1>1, <1>2

LEMMA ReceivesCalls ==
    ASSUME Calls, NEW c \in Coros, NEW X, Receives(c, X)
    PROVE  /\ Calls'
           /\ \A O \in SUBSET Ops : FlightOf(O) => FlightOf(O)'
<1>1. Types /\ Control /\ Frames /\ Waiters
  BY DEF Calls
<1>2. pc = "user" /\ co[c] = "idle" /\ FlightOf(CallOps)
  BY DEF Receives, Free, Calls
<1>3. UNCHANGED <<fr, tm, tc, sendAge, hasFd, handles, pc, back, work, file,
                   held, armed, cq, adjusts>>
  BY DEF Receives
<1>4. /\ rf'.h = c /\ rf'.initiated /\ rf'.ec = rf.ec /\ ~rf.ec
      /\ rf' \in [h : Coros \cup {None}, initiated : BOOLEAN, data : BOOLEAN,
                  ec : BOOLEAN, age : 0..Overdue]
      /\ sq' \in Seq(Sqe) /\ Grows(sq, sq', X, SqNew)
      /\ X = {r \in {"recv"} : ~rf.initiated}
      /\ \A d \in Coros : co[d] # "recv"
  BY DEF Receives
<1>5. /\ co' \in [Coros -> FrameOps \cup {"recv", "idle", "gone"}]
      /\ co'[c] = "recv" /\ \A d \in Coros : d # c => co'[d] = co[d]
  BY <1>1 DEF Receives, Types
<1>6. Types'
  BY <1>1, <1>3, <1>4, <1>5 DEF Types
<1>7. Control'
  BY <1>1, <1>2, <1>3 DEF Control
<1>8. Frames'
  BY <1>1, <1>3, <1>4 DEF Frames
<1>9. ~Leaving /\ ~Leaving'
  BY <1>1, <1>2, <1>3, Running DEF Leaving
<1>10. "recv" \notin FrameOps /\ "idle" \notin FrameOps /\ c # None
  BY NotNone DEF FrameOps
<1>11. Waiters'
  <2>1. \A d, e \in Coros : (co[d] = co[e] /\ co[d] \in CallOps)' => d = e
    BY <1>1, <1>4, <1>5 DEF Waiters
  <2>2. \A p \in FrameOps : (fr[p].h # None => co[fr[p].h] = p)'
    <3>1. \A p \in FrameOps : fr[p].h \in Coros \cup {None}
      BY <1>1 DEF Types, Frame
    <3>2. \A p \in FrameOps : fr[p].h # None => fr[p].h # c
      BY <1>1, <1>2, <1>9, <1>10 DEF Waiters
    <3>3. QED BY <1>1, <1>3, <1>5, <1>9, <3>1, <3>2 DEF Waiters
  <2>3. \A d \in Coros : (co[d] \in FrameOps => fr[co[d]].initiated)'
    BY <1>1, <1>3, <1>5, <1>9, <1>10 DEF Waiters
  <2>4. rf'.initiated /\ rf'.h # None => co'[rf'.h] = "recv"
    BY <1>4, <1>5
  <2>5. \A d \in Coros : (co[d] = "recv" => rf.h = None \/ (rf.h = d /\ rf.initiated))'
    BY <1>4, <1>5
  <2>6. ASSUME NEW d \in Coros PROVE (Times(handles, d) = Bit(Ready(d)))'
    <3>1. Times(handles, d) = Bit(Ready(d))
      BY <1>1, <1>9 DEF Waiters
    <3>2. Ready(d)' <=> Ready(d)
      <4>1. CASE d = c
        BY <1>2, <1>4, <1>5, <1>10, <4>1 DEF Ready
      <4>2. CASE d # c
        BY <1>3, <1>4, <1>5, <4>2 DEF Ready
      <4>3. QED BY <4>1, <4>2
    <3>3. QED BY <1>3, <3>1, <3>2 DEF Bit
  <2>7. QED BY <2>1, <2>2, <2>3, <2>4, <2>5, <2>6 DEF Waiters
<1>12. ASSUME NEW O \in SUBSET Ops, FlightOf(O) PROVE FlightOf(O)'
  <2>1. \A p \in Ops : (Waits(p)' <=> Waits(p) \/ p \in X) /\ (p \in X => ~Waits(p))
    <3>1. (Waits("recv") <=> rf.initiated) /\ Waits("recv")'
      BY <1>4 DEF Waits, FrameOps
    <3>2. \A p \in Ops : p # "recv" => (Waits(p)' <=> Waits(p))
      BY <1>3 DEF Waits, Active
    <3>3. QED BY <1>4, <3>1, <3>2
  <2>2. /\ \A p \in O : Waits(p)' <=> Waits(p) \/ p \in X
        /\ \A p \in O : p \in X => ~Waits(p)
    BY <2>1
  <2>3. QED BY <1>1, <1>3, <1>4, <1>12, <2>2, FlightQueued
<1>13. FlightOf(CallOps)'
  BY <1>2, <1>12 DEF CallOps, Ops
<1>14. QED BY <1>6, <1>7, <1>8, <1>11, <1>12, <1>13 DEF Calls

\* Steps that leave the frames and the coroutines as they are, and may queue SQEs
\* that nobody waits for.
Quiet(X) ==
    /\ UNCHANGED <<fr, co, handles, tm, tc, work, held, armed, cq>>
    /\ rf'.h = rf.h /\ rf'.initiated = rf.initiated /\ rf'.ec = rf.ec
    /\ sq' \in Seq(Sqe) /\ Grows(sq, sq', X, SqNew) /\ X \cap Ops = {}

LEMMA QuietCalls ==
    ASSUME Calls, NEW X, Quiet(X), Types', Control', Leaving => Leaving',
           pc = "end" => pc' = "end"
    PROVE  /\ Calls'
           /\ \A O \in SUBSET Ops : FlightOf(O) => FlightOf(O)'
<1>1. Types /\ Frames /\ Waiters
  BY DEF Calls
<1>2. \A p : Waits(p)' <=> Waits(p)
  BY DEF Quiet, Waits, Active
<1>3. ASSUME NEW O \in SUBSET Ops, FlightOf(O) PROVE FlightOf(O)'
  <2>1. /\ \A p \in O : Waits(p)' <=> Waits(p) \/ p \in X
        /\ \A p \in O : p \in X => ~Waits(p)
    <3>1. \A p \in O : p \notin X
      BY DEF Quiet
    <3>2. QED BY <1>2, <3>1
  <2>2. sq' \in Seq(Sqe) /\ Grows(sq, sq', X, SqNew) /\ UNCHANGED <<work, held, armed, cq>>
    BY DEF Quiet
  <2>3. QED BY <1>1, <1>3, <2>1, <2>2, FlightQueued
<1>4. Waiters'
  BY <1>1, WaitersSame DEF Quiet
<1>5. Frames'
  <2>1. \A i \in 1..Len(cq') : Plain(cq'[i])
    BY <1>1 DEF Frames, Quiet
  <2>2. QED BY <1>1, <2>1, FramesSame DEF Quiet
<1>6. pc' # "end" => FlightOf(CallOps)'
  <2>1. CallOps \in SUBSET Ops
    BY DEF CallOps, Ops
  <2>2. QED BY <1>3, <2>1 DEF Calls
<1>7. QED BY <1>3, <1>4, <1>5, <1>6 DEF Calls

\* A second send, stream::timeout, and somebody who takes the slot.
LEMMA QueuesAny ==
    ASSUME Types, \/ \E c \in Coros : SendBusy(c) \/ Timeout(c)
                  \/ OtherTakes
    PROVE  \E op \in {"cancelSend", "removeTimer", "foreign"} :
              /\ sq' = Append(sq, Op(op)) /\ Quiet({op})
              /\ UNCHANGED <<hasFd, file, refs>> /\ pc = "user"
              /\ op = "cancelSend" <=> pc' = "submit"
              /\ op # "cancelSend" <=> pc' = "user"
              /\ op = "cancelSend" => back' = "user"
              /\ op # "cancelSend" => back' = back
              /\ op = "foreign" => /\ ~hasFd /\ file # "foreign"
                                   /\ ~InQueue(sq, "foreign")
              /\ rf' \in [h : Coros \cup {None}, initiated : BOOLEAN, data : BOOLEAN,
                          ec : BOOLEAN, age : 0..Overdue]
              /\ sendAge' \in 0..Overdue /\ adjusts' \in 0..MaxAdjusts
<1>0. /\ sq \in Seq(Sqe) /\ hasFd \in BOOLEAN /\ 0 \in 0..Overdue
      /\ rf \in [h : Coros \cup {None}, initiated : BOOLEAN, data : BOOLEAN,
                 ec : BOOLEAN, age : 0..Overdue]
      /\ sendAge \in 0..Overdue /\ adjusts \in 0..MaxAdjusts
      /\ {"cancelSend", "removeTimer", "foreign"} \subseteq SqOps
  BY DEF Types, Overdue, SqOps
<1>1. ASSUME NEW op \in {"cancelSend", "removeTimer", "foreign"}, sq' = Append(sq, Op(op)),
             UNCHANGED <<fr, co, handles, tm, tc, work, held, armed, cq>>,
             rf'.h = rf.h, rf'.initiated = rf.initiated, rf'.ec = rf.ec
      PROVE  Quiet({op})
  <2>1. sq' \in Seq(Sqe) /\ Grows(sq, sq', {op}, SqNew)
    BY <1>0, <1>1, QueueOne
  <2>2. {op} \cap Ops = {}
    BY DEF Ops, FrameOps
  <2>3. QED BY <1>1, <2>1, <2>2 DEF Quiet
<1>2. ASSUME NEW c \in Coros, SendBusy(c)
      PROVE  /\ sq' = Append(sq, Op("cancelSend")) /\ pc = "user" /\ pc' = "submit"
             /\ back' = "user" /\ UNCHANGED <<frameVars, co, handles, work, file, held,
                                              armed, cq, adjusts>>
  BY <1>2 DEF SendBusy, Free
<1>3. ASSUME NEW c \in Coros, Timeout(c)
      PROVE  /\ sq' = Append(sq, Op("removeTimer")) /\ pc = "user"
             /\ rf' = [rf EXCEPT !.age = 0] /\ sendAge' = 0 /\ adjusts' \in 0..MaxAdjusts
             /\ UNCHANGED <<fr, tm, tc, refs, hasFd, loopVars, work, file, held, armed, cq>>
  <2>1. adjusts' \in 0..MaxAdjusts
    <3>1. adjusts' = adjusts + 1 /\ adjusts < MaxAdjusts /\ MaxAdjusts \in Nat
      BY <1>3, StreamAssumption DEF Timeout
    <3>2. QED BY <1>0, <3>1
  <2>2. QED BY <1>3, <2>1 DEF Timeout, Free
<1>4. ASSUME OtherTakes
      PROVE  /\ sq' = Append(sq, Op("foreign")) /\ pc = "user" /\ ~hasFd
             /\ file # "foreign" /\ ~InQueue(sq, "foreign")
             /\ UNCHANGED <<frameVars, loopVars, work, file, held, armed, cq, adjusts>>
  BY <1>4 DEF OtherTakes, InQueue
<1>5. CASE \E c \in Coros : SendBusy(c)
  <2>1. Quiet({"cancelSend"})
    BY <1>1, <1>2, <1>5 DEF frameVars
  <2>2. QED BY <1>0, <1>2, <1>5, <2>1 DEF frameVars
<1>6. CASE \E c \in Coros : Timeout(c)
  <2>1. /\ rf'.h = rf.h /\ rf'.initiated = rf.initiated /\ rf'.ec = rf.ec
        /\ rf' \in [h : Coros \cup {None}, initiated : BOOLEAN, data : BOOLEAN,
                    ec : BOOLEAN, age : 0..Overdue]
    BY <1>0, <1>3, <1>6
  <2>2. Quiet({"removeTimer"})
    BY <1>1, <1>3, <1>6, <2>1 DEF loopVars
  <2>3. QED BY <1>0, <1>3, <1>6, <2>1, <2>2 DEF loopVars
<1>7. CASE OtherTakes
  <2>1. Quiet({"foreign"})
    BY <1>1, <1>4, <1>7 DEF frameVars, loopVars
  <2>2. QED BY <1>0, <1>4, <1>7, <2>1 DEF frameVars, loopVars
<1>8. QED BY <1>5, <1>6, <1>7

LEMMA QueuesCalls ==
    ASSUME Calls, \/ \E c \in Coros : SendBusy(c) \/ Timeout(c)
                  \/ OtherTakes
    PROVE  /\ Calls'
           /\ \A O \in SUBSET Ops : FlightOf(O) => FlightOf(O)'
<1>1. Types /\ Control
  BY DEF Calls
<1>2. PICK op \in {"cancelSend", "removeTimer", "foreign"} :
         /\ Quiet({op}) /\ UNCHANGED <<hasFd, file, refs>> /\ pc = "user"
         /\ pc' \in {"user", "submit"} /\ back' \in {"user", back}
         /\ rf' \in [h : Coros \cup {None}, initiated : BOOLEAN, data : BOOLEAN,
                     ec : BOOLEAN, age : 0..Overdue]
         /\ sendAge' \in 0..Overdue /\ adjusts' \in 0..MaxAdjusts
  BY <1>1, QueuesAny
<1>3. back = "user" /\ back' = "user" /\ ~Leaving
  BY <1>1, <1>2, Running
<1>4. Types'
  BY <1>1, <1>2, <1>3 DEF Types, Quiet
<1>5. Control'
  BY <1>1, <1>2, <1>3 DEF Control, Quiet
<1>6. QED BY <1>2, <1>3, <1>4, <1>5, QuietCalls

\* The loop goes on, a message or ~stream_impl changes nothing that is waited for.
LEMMA TurnsCalls ==
    ASSUME Calls,
           \/ SubmitAndWait \/ SubmitFull \/ SubmitDone \/ ReapDone \/ Destruct
           \/ UNCHANGED vars
    PROVE  /\ Calls' /\ Quiet({})
           /\ \A O \in SUBSET Ops : FlightOf(O) => FlightOf(O)'
<1>1. Types /\ Control
  BY DEF Calls
<1>2. UNCHANGED <<fr, rf, tm, tc, sendAge, co, handles, sq, work, held, armed, cq, adjusts>>
  BY DEF SubmitAndWait, SubmitFull, SubmitDone, ReapDone, Destruct, vars, frameVars,
     loopVars, kernVars
<1>3. /\ hasFd' \in BOOLEAN /\ file' \in {"own", "empty", "foreign"}
      /\ pc' \in {"user", "submit", "reap", "abort", "flush", "end"}
      /\ back' \in {"user", "reap", "clear", "abort"}
      /\ Leaving => Leaving'
      /\ pc = "end" => pc' = "end"
  <2>1. CASE SubmitDone
    BY <1>1, <2>1 DEF Types, SubmitDone, frameVars, kernVars, Leaving
  <2>2. CASE SubmitAndWait \/ SubmitFull \/ ReapDone
    BY <1>1, <2>2, Running DEF Types, SubmitAndWait, SubmitFull, ReapDone, frameVars,
       kernVars, Leaving
  <2>3. CASE Destruct \/ UNCHANGED vars
    BY <1>1, <2>3 DEF Types, Destruct, vars, frameVars, loopVars, kernVars, Leaving
  <2>4. QED BY <2>1, <2>2, <2>3
<1>4. Types'
  BY <1>1, <1>2, <1>3 DEF Types
<1>5. Control'
  <2>1. CASE SubmitDone
    BY <1>1, <1>2, <2>1 DEF Types, Control, SubmitDone
  <2>2. CASE SubmitAndWait \/ SubmitFull \/ ReapDone
    BY <1>1, <1>2, <2>2 DEF Control, SubmitAndWait, SubmitFull, ReapDone
  <2>3. CASE Destruct \/ UNCHANGED vars
    <3>1. UNCHANGED <<pc, back>>
      BY <2>3 DEF Destruct, vars, loopVars
    <3>2. QED BY <1>1, <1>2, <3>1 DEF Control, AllGone
  <2>4. QED BY <2>1, <2>2, <2>3
<1>6. Quiet({})
  <2>1. sq \in Seq(Sqe) /\ Grows(sq, sq, {}, SqNew) /\ sq' = sq
    BY <1>1, <1>2, GrowsNone DEF Types
  <2>2. QED BY <1>2, <2>1 DEF Quiet
<1>7. QED BY <1>3, <1>4, <1>5, <1>6, QuietCalls

\* A receive that finds data or an error.
LEMMA AtOnceCalls ==
    ASSUME Calls, NEW c \in Coros, RecvAtOnce(c)
    PROVE  /\ Calls' /\ \A p : Waits(p)' <=> Waits(p)
           /\ \A O \in SUBSET Ops : FlightOf(O) => FlightOf(O)'
<1>1. Types /\ Control /\ Frames /\ Waiters
  BY DEF Calls
<1>2. /\ UNCHANGED <<fr, tm, tc, sendAge, hasFd, co, handles, pc, back, sq, work, file,
                      held, armed, cq, adjusts>>
      /\ pc = "user" /\ \A d \in Coros : co[d] # "recv"
  BY DEF RecvAtOnce, Free, loopVars, kernVars
<1>3. rf \in [h : Coros \cup {None}, initiated : BOOLEAN, data : BOOLEAN,
              ec : BOOLEAN, age : 0..Overdue]
  BY <1>1 DEF Types
<1>4. /\ rf' \in [h : Coros \cup {None}, initiated : BOOLEAN, data : BOOLEAN,
                  ec : BOOLEAN, age : 0..Overdue]
      /\ rf'.initiated = rf.initiated /\ (rf'.ec => rf.ec)
      /\ rf'.h = rf.h \/ rf.ec
  BY <1>3 DEF RecvAtOnce
<1>5. Types'
  BY <1>1, <1>2, <1>4 DEF Types
<1>6. Control'
  BY <1>1, <1>2 DEF Control
<1>7. Frames'
  BY <1>1, <1>2, <1>4 DEF Frames
<1>8. ~Leaving
  BY <1>1, <1>2, Running
<1>9. Waiters'
  <2>1. \A d \in Coros : (Times(handles, d) = Bit(Ready(d)))'
    <3>1. \A d \in Coros : Ready(d)' <=> Ready(d)
      BY <1>2 DEF Ready
    <3>2. QED BY <1>1, <1>2, <1>8, <3>1 DEF Waiters, Bit
  <2>2. rf'.initiated /\ rf'.h # None => co'[rf'.h] = "recv"
    BY <1>1, <1>2, <1>4, <1>8 DEF Waiters, Frames
  <2>3. QED BY <1>1, <1>2, <1>8, <2>1, <2>2 DEF Waiters
<1>10. \A p : Waits(p)' <=> Waits(p)
  BY <1>2, <1>4 DEF Waits, Active
<1>11. ASSUME NEW O \in SUBSET Ops, FlightOf(O) PROVE FlightOf(O)'
  BY <1>1, <1>2, <1>10, <1>11, FlightSame
<1>12. FlightOf(CallOps)'
  BY <1>2, <1>11 DEF CallOps, Ops, Calls
<1>13. QED BY <1>5, <1>6, <1>7, <1>9, <1>10, <1>11, <1>12 DEF Calls

\* What ~stream queues: its awaitable may be sending, it may be the last handle.
Drops(sending, last, X) ==
    /\ sq' \in Seq(Sqe) /\ Grows(sq, sq', X, SqNew)
    /\ X \subseteq {"cancelSend", "removeTimer", "cancelRecv"}
    /\ "cancelSend" \in X <=> sending
    /\ "removeTimer" \in X <=> last /\ tm.initiated
    /\ "cancelRecv" \in X <=> last /\ rf.initiated
    /\ ~sending /\ ~last => sq' = sq
    /\ tm' = IF last THEN TimerCancelled ELSE tm

LEMMA DropsAny ==
    ASSUME Types, NEW sending \in BOOLEAN, NEW last \in BOOLEAN,
           sq' = sq \o (IF sending THEN <<Op("cancelSend")>> ELSE <<>>)
                    \o (IF last THEN LastCancels ELSE <<>>),
           tm' = IF last THEN TimerCancelled ELSE tm
    PROVE  \E X : Drops(sending, last, X)
<1> DEFINE t == sq \o (IF sending THEN <<Op("cancelSend")>> ELSE <<>>)
           Y == {op \in {"cancelSend"} : sending}
<1>1. sq \in Seq(Sqe) /\ hasFd \in BOOLEAN /\ "cancelSend" \in SqOps
  BY DEF Types, SqOps
<1>2. t \in Seq(Sqe) /\ Grows(sq, t, Y, SqNew) /\ (~sending => t = sq)
  <2>1. Grows(sq, sq, {}, SqNew) /\ sq \o <<>> = sq
    BY <1>1, GrowsNone
  <2>2. CASE sending
    <3> DEFINE x == Op("cancelSend")
    <3>1. x \in Sqe /\ x \in SqNew /\ x.op = "cancelSend" /\ x.op \notin {}
      BY <1>1, SqeFacts
    <3>2. t = sq \o <<x>>
      BY <2>2
    <3> HIDE DEF x, t
    <3>3. /\ Append(sq, x) \in Seq(Sqe) /\ sq \o <<x>> = Append(sq, x)
          /\ Grows(sq, Append(sq, x), {} \cup {x.op}, SqNew)
      BY <1>1, <2>1, <3>1, GrowsOne
    <3>4. {} \cup {x.op} = Y
      BY <2>2, <3>1
    <3>5. QED BY <2>2, <3>2, <3>3, <3>4
  <2>3. CASE ~sending
    <3>1. t = sq /\ Y = {}
      BY <2>1, <2>3
    <3> HIDE DEF t, Y
    <3>2. QED BY <1>1, <2>1, <3>1
  <2>4. QED BY <2>2, <2>3
<1>3. /\ "removeTimer" \notin Y /\ "cancelRecv" \notin Y
      /\ sq' = t \o (IF last THEN LastCancels ELSE <<>>)
      /\ "cancelSend" \in Y <=> sending
      /\ Y \subseteq {"cancelSend"}
  OBVIOUS
<1> HIDE DEF t, Y
<1>4. CASE last
  <2> DEFINE X == (Y \cup {op \in {"removeTimer"} : tm.initiated})
                     \cup {op \in {"cancelRecv"} : rf.initiated}
  <2>1. t \o LastCancels \in Seq(Sqe) /\ Grows(sq, t \o LastCancels, X, SqNew)
    BY <1>2, <1>3, QueueLast
  <2>2. /\ X \subseteq {"cancelSend", "removeTimer", "cancelRecv"}
        /\ "cancelSend" \in X <=> sending
        /\ "removeTimer" \in X <=> tm.initiated
        /\ "cancelRecv" \in X <=> rf.initiated
    BY <1>3
  <2>3. sq' = t \o LastCancels
    BY <1>3, <1>4
  <2> HIDE DEF X
  <2>4. Drops(sending, last, X)
    BY <1>4, <2>1, <2>2, <2>3 DEF Drops
  <2>5. QED BY <2>4
<1>5. CASE ~last
  <2>1. t \o <<>> = t
    BY <1>2
  <2>2. sq' = t
    BY <1>3, <1>5, <2>1
  <2>3. Drops(sending, last, Y)
    BY <1>2, <1>3, <1>5, <2>2 DEF Drops
  <2>4. QED BY <2>3
<1>6. QED BY <1>4, <1>5

\* Nobody waits for what is queued.
LEMMA DropsFlight ==
    ASSUME Types, NEW sending, NEW last, NEW X, Drops(sending, last, X),
           UNCHANGED <<fr, rf, tc, work, held, armed, cq>>
    PROVE  /\ tm' \in [initiated : BOOLEAN, cancelled : BOOLEAN]
           /\ tm'.initiated = tm.initiated
           /\ \A p : Waits(p)' <=> Waits(p)
           /\ \A O \in SUBSET Ops : FlightOf(O) => FlightOf(O)'
<1>1. tm \in [initiated : BOOLEAN, cancelled : BOOLEAN]
  BY DEF Types
<1>2. tm'.initiated = tm.initiated /\ tm' \in [initiated : BOOLEAN, cancelled : BOOLEAN]
  BY <1>1 DEF Drops, TimerCancelled
<1>3. \A p : Waits(p)' <=> Waits(p)
  BY <1>2 DEF Waits, Active
<1>4. ASSUME NEW O \in SUBSET Ops, FlightOf(O) PROVE FlightOf(O)'
  <2>1. \A p \in O : p \notin X
    BY DEF Drops, Ops, FrameOps
  <2>2. /\ \A p \in O : Waits(p)' <=> Waits(p) \/ p \in X
        /\ \A p \in O : p \in X => ~Waits(p)
    BY <1>3, <2>1
  <2>3. sq' \in Seq(Sqe) /\ Grows(sq, sq', X, SqNew)
    BY DEF Drops
  <2>4. QED BY <1>4, <2>2, <2>3, FlightQueued
<1>5. QED BY <1>2, <1>3, <1>4

\* A coroutine lets go of its stream.
LEMMA LetGoAny ==
    ASSUME Types, NEW c \in Coros, LetGo(c)
    PROVE  \E X : /\ Drops(FALSE, LastHandle(refs), X)
                  /\ LastHandle(refs) => pc' = "submit" /\ back' = "user"
                  /\ ~LastHandle(refs) => pc' = pc /\ back' = back
<1>1. sq \in Seq(Sqe) /\ sq \o <<>> = sq
  BY GrowsNone DEF Types
<1>2. PICK last \in BOOLEAN : last <=> LastHandle(refs)
  OBVIOUS
<1>3. /\ sq' = sq \o (IF last THEN LastCancels ELSE <<>>)
      /\ tm' = IF last THEN TimerCancelled ELSE tm
      /\ last => pc' = "submit" /\ back' = "user"
      /\ ~last => pc' = pc /\ back' = back
  BY <1>1, <1>2 DEF LetGo, DropStream
<1>4. sq' = (sq \o (IF FALSE THEN <<Op("cancelSend")>> ELSE <<>>))
               \o (IF last THEN LastCancels ELSE <<>>)
  BY <1>1, <1>3
<1>5. PICK X : Drops(FALSE, last, X)
  BY <1>3, <1>4, DropsAny
<1>6. Drops(FALSE, LastHandle(refs), X)
  BY <1>2, <1>5 DEF Drops
<1>7. QED BY <1>2, <1>3, <1>6

LEMMA LetGoCalls ==
    ASSUME Calls, NEW c \in Coros, LetGo(c)
    PROVE  /\ Calls' /\ \A p : Waits(p)' <=> Waits(p)
           /\ \A O \in SUBSET Ops : FlightOf(O) => FlightOf(O)'
<1>1. Types /\ Control /\ Frames /\ Waiters
  BY DEF Calls
<1>2. /\ UNCHANGED <<fr, rf, tc, sendAge, hasFd, handles, work, file, held, armed,
                      cq, adjusts>>
      /\ pc = "user" /\ co[c] = "idle" /\ co' = [co EXCEPT ![c] = "gone"]
  BY DEF LetGo, Free
<1>3. PICK X : /\ Drops(FALSE, LastHandle(refs), X)
               /\ LastHandle(refs) => pc' = "submit" /\ back' = "user"
               /\ ~LastHandle(refs) => pc' = pc /\ back' = back
  BY <1>1, LetGoAny
<1>4. back = "user" /\ pc' \in {"user", "submit"} /\ back' = "user" /\ ~Leaving
  BY <1>1, <1>2, <1>3, Running
<1>5. /\ tm' \in [initiated : BOOLEAN, cancelled : BOOLEAN]
      /\ \A p : Waits(p)' <=> Waits(p)
      /\ \A O \in SUBSET Ops : FlightOf(O) => FlightOf(O)'
  BY <1>1, <1>2, <1>3, DropsFlight
<1>6. /\ co' \in [Coros -> FrameOps \cup {"recv", "idle", "gone"}]
      /\ co'[c] = "gone" /\ \A d \in Coros : d # c => co'[d] = co[d]
  BY <1>1, <1>2 DEF Types
<1>7. Types'
  <2>1. sq' \in Seq(Sqe)
    BY <1>3 DEF Drops
  <2>2. QED BY <1>1, <1>2, <1>4, <1>5, <1>6, <2>1 DEF Types
<1>8. Control'
  BY <1>1, <1>2, <1>4 DEF Control
<1>9. Frames'
  BY <1>1, <1>2 DEF Frames
<1>10. Waiters'
  <2>1. "gone" \notin FrameOps /\ "idle" \notin FrameOps /\ "gone" \notin CallOps
    BY DEF FrameOps, CallOps
  <2>2. \A d \in Coros : (Times(handles, d) = Bit(Ready(d)))'
    <3>1. \A d \in Coros : Ready(d)' <=> Ready(d)
      BY <1>2, <1>6, <2>1 DEF Ready
    <3>2. QED BY <1>1, <1>2, <1>4, <3>1 DEF Waiters, Bit
  <2>3. \A d, e \in Coros : (co[d] = co[e] /\ co[d] \in CallOps)' => d = e
    BY <1>1, <1>6, <2>1 DEF Waiters
  <2>4. \A p \in FrameOps : (fr[p].h # None => co[fr[p].h] = p)'
    <3>1. \A p \in FrameOps : fr[p].h \in Coros \cup {None}
      BY <1>1 DEF Types, Frame
    <3>2. \A p \in FrameOps : fr[p].h # None => fr[p].h # c
      BY <1>1, <1>2, <1>4, <2>1 DEF Waiters
    <3>3. QED BY <1>1, <1>2, <1>4, <1>6, <3>1, <3>2 DEF Waiters
  <2>5. \A d \in Coros : (co[d] \in FrameOps => fr[co[d]].initiated)'
    BY <1>1, <1>2, <1>4, <1>6, <2>1 DEF Waiters
  <2>6. rf'.initiated /\ rf'.h # None => co'[rf'.h] = "recv"
    <3>1. rf.h \in Coros \cup {None} /\ rf' = rf
      BY <1>1, <1>2 DEF Types
    <3>2. QED BY <1>1, <1>2, <1>4, <1>6, <3>1 DEF Waiters
  <2>7. \A d \in Coros : (co[d] = "recv" => rf.h = None \/ (rf.h = d /\ rf.initiated))'
    BY <1>1, <1>2, <1>4, <1>6 DEF Waiters
  <2>8. QED BY <2>2, <2>3, <2>4, <2>5, <2>6, <2>7 DEF Waiters
<1>11. FlightOf(CallOps)'
  BY <1>2, <1>5 DEF CallOps, Ops, Calls
<1>12. QED BY <1>5, <1>7, <1>8, <1>9, <1>10, <1>11 DEF Calls

\* run() is left: nobody will be resumed.
LEMMA AbortCalls ==
    ASSUME Calls, Abort
    PROVE  /\ Calls' /\ \A p : Waits(p)' <=> Waits(p)
           /\ \A O \in SUBSET Ops : FlightOf(O) => FlightOf(O)'
<1>1. Types /\ Control /\ Frames /\ Waiters
  BY DEF Calls
<1>2. /\ UNCHANGED <<fr, tm, tc, hasFd, co, sq, work, file, held, armed, cq>>
      /\ pc = "user" /\ pc' = "submit" /\ back' = "clear" /\ handles' = <<>>
      /\ sendAge' = 0 /\ adjusts' = 0
      /\ rf' = [rf EXCEPT !.h = None, !.data = FALSE, !.ec = FALSE, !.age = 0]
  BY DEF Abort, kernVars
<1>3. /\ rf' \in [h : Coros \cup {None}, initiated : BOOLEAN, data : BOOLEAN,
                  ec : BOOLEAN, age : 0..Overdue]
      /\ rf'.initiated = rf.initiated /\ ~rf'.ec
  <2>1. 0 \in 0..Overdue
    BY DEF Overdue
  <2>2. rf \in [h : Coros \cup {None}, initiated : BOOLEAN, data : BOOLEAN,
                ec : BOOLEAN, age : 0..Overdue]
    BY <1>1 DEF Types
  <2>3. QED BY <1>2, <2>1, <2>2
<1>4. Types'
  <2>1. 0 \in 0..Overdue /\ 0 \in 0..MaxAdjusts
    BY StreamAssumption DEF Overdue
  <2>2. <<>> \in Seq(Coros)
    OBVIOUS
  <2>3. QED BY <1>1, <1>2, <1>3, <2>1, <2>2 DEF Types
<1>5. Control'
  BY <1>1, <1>2 DEF Control
<1>6. Frames'
  BY <1>1, <1>2, <1>3 DEF Frames
<1>7. Waiters'
  <2>1. Leaving'
    BY <1>2 DEF Leaving
  <2>2. \A c, d \in Coros : (co[c] = co[d] /\ co[c] \in CallOps)' => c = d
    BY <1>1, <1>2 DEF Waiters
  <2>3. QED BY <2>1, <2>2 DEF Waiters
<1>8. \A p : Waits(p)' <=> Waits(p)
  BY <1>2, <1>3 DEF Waits, Active
<1>9. ASSUME NEW O \in SUBSET Ops, FlightOf(O) PROVE FlightOf(O)'
  BY <1>1, <1>2, <1>8, <1>9, FlightSame
<1>10. FlightOf(CallOps)'
  BY <1>2, <1>9 DEF CallOps, Ops, Calls
<1>11. QED BY <1>4, <1>5, <1>6, <1>7, <1>8, <1>9, <1>10 DEF Calls

\* A coroutine is destroyed with what it awaits and its stream.
LEMMA DestroyAny ==
    ASSUME Types, NEW c \in Coros, DestroyCoro(c)
    PROVE  \E sending, last \in BOOLEAN : \E X :
              /\ sending <=> co[c] = "send" /\ Active(fr["send"])
              /\ last <=> LastHandle(refs - One(co[c] # "idle"))
              /\ Drops(sending, last, X)
              /\ sending \/ last => pc' = "submit" /\ back' = "abort"
              /\ ~sending /\ ~last => pc' = pc /\ back' = back
<1>1. PICK last \in BOOLEAN : last <=> LastHandle(refs - One(co[c] # "idle"))
  OBVIOUS
<1>2. PICK sending \in BOOLEAN : sending <=> co[c] = "send" /\ Active(fr["send"])
  OBVIOUS
<1>3. /\ tm' = IF last THEN TimerCancelled ELSE tm
      /\ sq' = sq \o (IF sending THEN <<Op("cancelSend")>> ELSE <<>>)
                  \o (IF last THEN LastCancels ELSE <<>>)
      /\ sending \/ last => pc' = "submit" /\ back' = "abort"
      /\ ~sending /\ ~last => pc' = pc /\ back' = back
  BY <1>1, <1>2 DEF DestroyCoro, DropStream
<1>4. PICK X : Drops(sending, last, X)
  BY <1>3, DropsAny
<1>5. QED BY <1>1, <1>2, <1>3, <1>4

LEMMA DestroyCalls ==
    ASSUME Calls, NEW c \in Coros, DestroyCoro(c)
    PROVE  /\ Calls' /\ \A p : Waits(p)' <=> Waits(p)
           /\ \A O \in SUBSET Ops : FlightOf(O) => FlightOf(O)'
<1>1. Types /\ Control /\ Frames /\ Waiters
  BY DEF Calls
<1>2. /\ UNCHANGED <<fr, rf, tc, sendAge, hasFd, handles, work, file, held, armed,
                      cq, adjusts>>
      /\ pc = "abort" /\ co' = [co EXCEPT ![c] = "gone"]
  BY DEF DestroyCoro
<1>3. PICK sending, last \in BOOLEAN : \E X :
         /\ Drops(sending, last, X)
         /\ sending \/ last => pc' = "submit" /\ back' = "abort"
         /\ ~sending /\ ~last => pc' = pc /\ back' = back
  BY <1>1, DestroyAny
<1>4. PICK X : Drops(sending, last, X)
  BY <1>3
<1>5. /\ tm' \in [initiated : BOOLEAN, cancelled : BOOLEAN]
      /\ \A p : Waits(p)' <=> Waits(p)
      /\ \A O \in SUBSET Ops : FlightOf(O) => FlightOf(O)'
  BY <1>1, <1>2, <1>4, DropsFlight
<1>6. /\ co' \in [Coros -> FrameOps \cup {"recv", "idle", "gone"}]
      /\ co'[c] = "gone" /\ \A d \in Coros : d # c => co'[d] = co[d]
  BY <1>1, <1>2 DEF Types
<1>7. /\ pc' \in {"abort", "submit"} /\ back' \in {"user", "abort"} /\ Leaving'
      /\ pc' = "submit" \/ (back' = "user" /\ sq' = <<>>)
  <2>1. back = "user" /\ sq = <<>>
    BY <1>1, <1>2 DEF Control
  <2>2. ~sending /\ ~last => sq' = sq
    BY <1>4 DEF Drops
  <2>3. QED BY <1>2, <1>3, <2>1, <2>2 DEF Leaving
<1>8. Types'
  <2>1. sq' \in Seq(Sqe)
    BY <1>4 DEF Drops
  <2>2. QED BY <1>1, <1>2, <1>5, <1>6, <1>7, <2>1 DEF Types
<1>9. Control'
  BY <1>1, <1>2, <1>7 DEF Control
<1>10. Frames'
  BY <1>1, <1>2 DEF Frames
<1>11. Waiters'
  <2>1. "gone" \notin CallOps
    BY DEF FrameOps, CallOps
  <2>2. \A d, e \in Coros : (co[d] = co[e] /\ co[d] \in CallOps)' => d = e
    BY <1>1, <1>6, <2>1 DEF Waiters
  <2>3. QED BY <1>7, <2>2 DEF Waiters
<1>12. FlightOf(CallOps)'
  BY <1>2, <1>5 DEF CallOps, Ops, Calls
<1>13. QED BY <1>5, <1>8, <1>9, <1>10, <1>11, <1>12 DEF Calls

\* The completions that are left are dropped.
LEMMA FlushCalls ==
    ASSUME Calls, Flush
    PROVE  Calls' /\ pc' = "end" /\ \A p : Waits(p)' <=> Waits(p)
<1>1. Types /\ Control /\ Frames /\ Waiters
  BY DEF Calls
<1>2. /\ UNCHANGED <<fr, rf, tm, tc, sendAge, hasFd, co, handles, back, sq, work,
                      file, held, armed, adjusts>>
      /\ pc = "abort" /\ pc' = "end" /\ cq' = <<>> /\ AllGone
  BY DEF Flush, AllGone
<1>3. Types'
  <2>1. <<>> \in Seq(Cqe)
    OBVIOUS
  <2>2. QED BY <1>1, <1>2, <2>1 DEF Types
<1>4. Control'
  BY <1>1, <1>2 DEF Control, AllGone
<1>5. Frames'
  BY <1>1, <1>2 DEF Frames
<1>6. Waiters'
  <2>1. Leaving => Leaving'
    BY <1>2 DEF Leaving
  <2>2. QED BY <1>1, <1>2, <2>1, WaitersSame
<1>7. \A p : Waits(p)' <=> Waits(p)
  BY <1>2, WaitsSame
<1>8. QED BY <1>2, <1>3, <1>4, <1>5, <1>6, <1>7 DEF Calls

-----------------------------------------------------------------------------
(* Calls are preserved when a coroutine is resumed.                        *)

\* Who is resumed is ready, and nobody else waits for the same.
LEMMA ResumeFacts ==
    ASSUME Calls, Resume
    PROVE  \E c \in Coros :
              /\ c = Head(handles) /\ Ready(c) /\ ~Leaving
              /\ \A d \in Coros : d # c => co[d] # co[c]
              /\ handles' \in Seq(Coros)
              /\ \A d \in Coros : Times(handles', d) = IF d = c THEN 0 ELSE Times(handles, d)
              /\ co' \in [Coros -> FrameOps \cup {"recv", "idle", "gone"}]
              /\ co' = [co EXCEPT ![c] = "idle"]
              /\ co'[c] = "idle" /\ \A d \in Coros : d # c => co'[d] = co[d]
              /\ \/ /\ co[c] \in FrameOps /\ fr[co[c]].done
                    /\ fr' = [fr EXCEPT ![co[c]] = ResetFrame] /\ rf' = rf
                 \/ /\ co[c] = "recv" /\ rf.h = None
                    /\ rf' = IF rf.data THEN [rf EXCEPT !.data = FALSE]
                             ELSE [rf EXCEPT !.ec = FALSE]
                    /\ fr' = fr
<1>1. Types /\ Control /\ Waiters /\ pc = "user" /\ handles # <<>> /\ handles' = Tail(handles)
  BY DEF Calls, Resume
<1>2. ~Leaving /\ handles \in Seq(Coros)
      /\ co \in [Coros -> FrameOps \cup {"recv", "idle", "gone"}]
  BY <1>1, Running DEF Types
<1>3. PICK c : c = Head(handles)
  OBVIOUS
<1>4. c \in Coros /\ handles' \in Seq(Coros)
  BY <1>1, <1>2, <1>3
<1>5. \A d \in Coros : /\ Times(handles, d) = Times(handles', d) + Bit(c = d)
                       /\ Times(handles', d) \in Nat
  <2>1. \A d : Times(handles, d) = Times(Tail(handles), d) + Bit(Head(handles) = d)
    BY <1>1, <1>2, TimesFacts DEF TimesLaws
  <2>2. \A d : Times(handles', d) \in Nat
    BY <1>4, TimesFacts DEF TimesLaws
  <2>3. QED BY <1>1, <1>3, <2>1, <2>2
<1>6. \A d \in Coros : Times(handles, d) = Bit(Ready(d))
  BY <1>1, <1>2 DEF Waiters
<1>7. Ready(c) /\ Times(handles', c) = 0
  <2>1. Bit(Ready(c)) = Times(handles', c) + 1 /\ Times(handles', c) \in Nat
    BY <1>4, <1>5, <1>6 DEF Bit
  <2>2. QED BY <2>1 DEF Bit
<1>8. \A d \in Coros : Times(handles', d) = IF d = c THEN 0 ELSE Times(handles, d)
  BY <1>5, <1>7 DEF Bit
<1>9. co[c] \in CallOps
  BY <1>7 DEF Ready, CallOps
<1>10. \A d \in Coros : d # c => co[d] # co[c]
  BY <1>1, <1>4, <1>9 DEF Waiters
<1>11. /\ co' = [co EXCEPT ![c] = "idle"]
       /\ \/ /\ co[c] \in FrameOps
             /\ fr' = [fr EXCEPT ![co[c]] = ResetFrame] /\ rf' = rf
          \/ /\ co[c] = "recv"
             /\ rf' = IF rf.data THEN [rf EXCEPT !.data = FALSE]
                      ELSE [rf EXCEPT !.ec = FALSE]
             /\ fr' = fr
  BY <1>3 DEF Resume
<1>12. /\ co' \in [Coros -> FrameOps \cup {"recv", "idle", "gone"}]
       /\ co'[c] = "idle" /\ \A d \in Coros : d # c => co'[d] = co[d]
  BY <1>2, <1>4, <1>11
<1>13. co[c] \in FrameOps => fr[co[c]].done
  BY <1>7 DEF Ready, FrameOps
<1>14. co[c] = "recv" => rf.h = None
  BY <1>7 DEF Ready, FrameOps
<1>15. QED BY <1>2, <1>3, <1>4, <1>7, <1>8, <1>10, <1>11, <1>12, <1>13, <1>14

LEMMA ResumeCalls ==
    ASSUME Calls, Resume
    PROVE  /\ Calls' /\ \A p : Waits(p)' <=> Waits(p)
           /\ \A O \in SUBSET Ops : FlightOf(O) => FlightOf(O)'
<1>1. Types /\ Control /\ Frames /\ Waiters
  BY DEF Calls
<1>2. /\ UNCHANGED <<tm, tc, sendAge, hasFd, pc, back, sq, work, file, held, armed, cq,
                      adjusts>>
      /\ pc = "user"
  BY DEF Resume, kernVars
<1>3. PICK c \in Coros :
         /\ Ready(c) /\ ~Leaving
         /\ \A d \in Coros : d # c => co[d] # co[c]
         /\ handles' \in Seq(Coros)
         /\ \A d \in Coros : Times(handles', d) = IF d = c THEN 0 ELSE Times(handles, d)
         /\ co' \in [Coros -> FrameOps \cup {"recv", "idle", "gone"}]
         /\ co'[c] = "idle" /\ \A d \in Coros : d # c => co'[d] = co[d]
         /\ \/ /\ co[c] \in FrameOps /\ fr[co[c]].done
               /\ fr' = [fr EXCEPT ![co[c]] = ResetFrame] /\ rf' = rf
            \/ /\ co[c] = "recv" /\ rf.h = None
               /\ rf' = IF rf.data THEN [rf EXCEPT !.data = FALSE]
                        ELSE [rf EXCEPT !.ec = FALSE]
               /\ fr' = fr
  BY ResumeFacts
<1>4. /\ fr \in [FrameOps -> Frame]
      /\ rf \in [h : Coros \cup {None}, initiated : BOOLEAN, data : BOOLEAN,
                 ec : BOOLEAN, age : 0..Overdue]
      /\ ResetFrame \in Frame /\ ResetFrame.h = None /\ ~ResetFrame.initiated
      /\ ~ResetFrame.done
  BY <1>1 DEF Types, ResetFrame, Frame
<1>5. /\ fr' \in [FrameOps -> Frame]
      /\ \A p \in FrameOps : \/ fr'[p] = fr[p] /\ p # co[c]
                             \/ fr'[p] = ResetFrame /\ p = co[c] /\ fr[p].done
  BY <1>3, <1>4 DEF FrameOps
<1>6. /\ rf' \in [h : Coros \cup {None}, initiated : BOOLEAN, data : BOOLEAN,
                  ec : BOOLEAN, age : 0..Overdue]
      /\ rf'.h = rf.h /\ rf'.initiated = rf.initiated /\ (rf'.ec => rf.ec)
  <2>1. CASE rf' = rf
    BY <1>4, <2>1
  <2>2. CASE rf' = IF rf.data THEN [rf EXCEPT !.data = FALSE] ELSE [rf EXCEPT !.ec = FALSE]
    BY <1>4, <2>2
  <2>3. QED BY <1>3, <2>1, <2>2
<1>7. Types'
  BY <1>1, <1>2, <1>3, <1>5, <1>6 DEF Types
<1>8. Control'
  BY <1>1, <1>2 DEF Control
<1>9. \A p \in FrameOps : Active(fr'[p]) <=> Active(fr[p])
  BY <1>4, <1>5 DEF Active
<1>10. Frames'
  <2>1. \A p \in FrameOps : (fr[p].done => fr[p].initiated)'
    BY <1>1, <1>4, <1>5 DEF Frames
  <2>2. \A p \in FrameOps : (fr[p].h # None <=> Active(fr[p]))'
    <3>1. SUFFICES ASSUME NEW p \in FrameOps PROVE fr'[p].h # None <=> Active(fr'[p])
      OBVIOUS
    <3>2. CASE fr'[p] = fr[p]
      BY <1>1, <3>2 DEF Frames
    <3>3. CASE fr'[p] = ResetFrame
      BY <1>4, <3>3 DEF Active
    <3>4. QED BY <1>5, <3>2, <3>3
  <2>3. rf'.ec => ~rf'.initiated
    BY <1>1, <1>6 DEF Frames
  <2>4. QED BY <1>1, <1>2, <2>1, <2>2, <2>3 DEF Frames
<1>11. ~Leaving'
  BY <1>2, <1>3 DEF Leaving
<1>12. "idle" \notin FrameOps /\ "idle" \notin CallOps /\ "recv" \notin FrameOps
  BY DEF FrameOps, CallOps
<1>13. Waiters'
  <2>1. \A d, e \in Coros : (co[d] = co[e] /\ co[d] \in CallOps)' => d = e
    BY <1>1, <1>3, <1>12 DEF Waiters
  <2>2. \A p \in FrameOps : (fr[p].h # None => co[fr[p].h] = p)'
    <3>1. SUFFICES ASSUME NEW p \in FrameOps, fr'[p].h # None PROVE co'[fr'[p].h] = p
      OBVIOUS
    <3>2. fr'[p] = fr[p] /\ p # co[c]
      BY <1>4, <1>5, <3>1
    <3>3. fr[p].h \in Coros /\ co[fr[p].h] = p
      BY <1>1, <1>3, <3>1, <3>2 DEF Waiters, Types, Frame
    <3>4. QED BY <1>3, <3>2, <3>3
  <2>3. \A d \in Coros : (co[d] \in FrameOps => fr[co[d]].initiated)'
    <3>1. SUFFICES ASSUME NEW d \in Coros, co'[d] \in FrameOps PROVE fr'[co'[d]].initiated
      OBVIOUS
    <3>2. d # c /\ co'[d] = co[d]
      BY <1>3, <1>12, <3>1
    <3>3. fr'[co[d]] = fr[co[d]]
      BY <1>3, <1>5, <3>1, <3>2
    <3>4. QED BY <1>1, <1>3, <3>1, <3>2, <3>3 DEF Waiters
  <2>4. rf'.initiated /\ rf'.h # None => co'[rf'.h] = "recv"
    <3>1. rf.h \in Coros \cup {None}
      BY <1>4
    <3>2. rf.initiated /\ rf.h # None => co[rf.h] = "recv" /\ rf.h # c
      BY <1>1, <1>3, <1>12 DEF Waiters
    <3>3. QED BY <1>3, <1>6, <3>1, <3>2
  <2>5. \A d \in Coros : (co[d] = "recv" => rf.h = None \/ (rf.h = d /\ rf.initiated))'
    BY <1>1, <1>3, <1>6 DEF Waiters
  <2>6. ASSUME NEW d \in Coros PROVE (Times(handles, d) = Bit(Ready(d)))'
    <3>1. CASE d = c
      <4>1. ~Ready(d)' /\ Times(handles', d) = 0
        BY <1>3, <1>12, <3>1 DEF Ready
      <4>2. QED BY <4>1 DEF Bit
    <3>2. CASE d # c
      <4>1. Ready(d)' <=> Ready(d)
        <5>1. co'[d] = co[d] /\ co[d] # co[c]
          BY <1>3, <3>2
        <5>2. co[d] \in FrameOps => fr'[co[d]] = fr[co[d]]
          BY <1>5, <5>1
        <5>3. QED BY <1>6, <5>1, <5>2 DEF Ready
      <4>2. Times(handles', d) = Times(handles, d)
        BY <1>3, <3>2
      <4>3. Times(handles, d) = Bit(Ready(d))
        BY <1>1, <1>3 DEF Waiters
      <4>4. QED BY <4>1, <4>2, <4>3 DEF Bit
    <3>3. QED BY <3>1, <3>2
  <2>7. QED BY <2>1, <2>2, <2>3, <2>4, <2>5, <2>6 DEF Waiters
<1>14. \A p : Waits(p)' <=> Waits(p)
  BY <1>2, <1>6, <1>9 DEF Waits
<1>15. ASSUME NEW O \in SUBSET Ops, FlightOf(O) PROVE FlightOf(O)'
  BY <1>1, <1>2, <1>14, <1>15, FlightSame
<1>16. FlightOf(CallOps)'
  BY <1>2, <1>15 DEF CallOps, Ops, Calls
<1>17. QED BY <1>7, <1>8, <1>10, <1>13, <1>14, <1>15, <1>16 DEF Calls

-----------------------------------------------------------------------------
(* Calls are preserved when a completion is processed.                     *)

\* The completion that is processed.
LEMMA ReapHead ==
    ASSUME Types, Frames, Reap
    PROVE  \E e \in Cqe :
              /\ e = Head(cq) /\ Plain(e) /\ cq # <<>> /\ cq' = Tail(cq) /\ cq' \in Seq(Cqe)
              /\ ~e.more => Final(cq, e.op)
              /\ e.more => Multi(cq, e.op)
              /\ \A i \in 1..Len(cq') : \E j \in 1..Len(cq) : cq'[i] = cq[j]
              /\ \E j \in 1..Len(cq) : e = cq[j]
              /\ \/ ProcessFrame(e) \/ ProcessClose(e) \/ ProcessRecv(e)
                 \/ ProcessTimerCancel(e) \/ ProcessRemoved(e) \/ ProcessExpired(e)
              /\ UNCHANGED <<co, pc, back, work, file, held, armed, adjusts>>
              /\ pc = "reap"
<1>1. cq \in Seq(Cqe) /\ cq # <<>> /\ cq' = Tail(cq)
  BY DEF Types, Reap
<1>2. PICK e : e = Head(cq)
  OBVIOUS
<1>3. /\ cq' \in Seq(Cqe) /\ e \in Cqe
      /\ \A i \in 1..Len(cq') : \E j \in 1..Len(cq) : cq'[i] = cq[j]
      /\ \E j \in 1..Len(cq) : e = cq[j]
  BY <1>1, <1>2, TailFacts
<1>4. /\ ~e.more => Final(cq, e.op)
      /\ e.more => Multi(cq, e.op)
  BY <1>3 DEF Final, Multi
<1>5. Plain(e)
  BY <1>3 DEF Frames
<1>6. /\ \/ ProcessFrame(e) \/ ProcessClose(e) \/ ProcessRecv(e)
         \/ ProcessTimerCancel(e) \/ ProcessRemoved(e) \/ ProcessExpired(e)
      /\ UNCHANGED <<co, pc, back, work, file, held, armed, adjusts>>
      /\ pc = "reap"
  BY <1>2 DEF Reap
<1>7. QED BY <1>1, <1>2, <1>3, <1>4, <1>5, <1>6

\* The frame of an operation completes, and gives its handle away.
LEMMA FrameDoneCalls ==
    ASSUME Calls, Reap, NEW e \in Cqe, e = Head(cq), ProcessFrame(e) \/ ProcessClose(e)
    PROVE  /\ Calls'
           /\ \A O \in SUBSET Ops : FlightOf(O) => FlightOf(O)'
           /\ e.op \in FrameOps /\ ~e.more /\ Waits(e.op)
           /\ \A p \in Ops : Waits(p)' <=> Waits(p) /\ p # e.op
<1>1. Types /\ Control /\ Frames /\ Waiters
  BY DEF Calls
<1>2. /\ Plain(e) /\ cq # <<>> /\ cq' = Tail(cq) /\ cq' \in Seq(Cqe)
      /\ ~e.more => Final(cq, e.op)
      /\ \A i \in 1..Len(cq') : \E j \in 1..Len(cq) : cq'[i] = cq[j]
      /\ UNCHANGED <<co, pc, back, work, file, held, armed, adjusts>> /\ pc = "reap"
  BY <1>1, ReapHead
<1>3. PICK op \in FrameOps : op = e.op
  BY DEF ProcessFrame, ProcessClose, FrameOps
<1>4. /\ fr' = [fr EXCEPT ![op].done = TRUE, ![op].h = None]
      /\ handles' = Collect(fr[op].h) /\ hasFd' \in {hasFd, FALSE}
      /\ sendAge' \in {0, sendAge} /\ UNCHANGED <<rf, tm, tc, sq>>
  BY <1>3 DEF ProcessFrame, ProcessClose
<1>5. ~e.more /\ FlightOf(CallOps) /\ ~Leaving
  <2>1. op \notin {"recv", "timer"}
    BY DEF FrameOps
  <2>2. ~e.more
    BY <1>2, <1>3, <2>1 DEF Plain
  <2>3. QED BY <1>1, <1>2, <2>2, Running DEF Calls
<1>6. Active(fr[op]) /\ Waits(op)
  <2>1. Place(op) /\ Final(cq, op)
    BY <1>2, <1>3, <1>5 DEF FlightOf, CallOps
  <2>2. Waits(op)
    BY <2>1 DEF Place
  <2>3. QED BY <2>2 DEF Waits, FrameOps
<1>7. PICK c \in Coros : c = fr[op].h /\ co[c] = op
  <2>1. fr[op].h # None /\ fr[op].h \in Coros \cup {None}
    BY <1>1, <1>6 DEF Frames, Types, Frame
  <2>2. QED BY <1>1, <1>5, <2>1 DEF Waiters
<1>8. c # None /\ handles' = Append(handles, c) /\ handles \in Seq(Coros)
      /\ handles' \in Seq(Coros)
  BY <1>1, <1>4, <1>7, NotNone DEF Collect, Types
<1>9. /\ fr' \in [FrameOps -> Frame]
      /\ fr'[op].done /\ fr'[op].h = None /\ fr'[op].initiated
      /\ \A p \in FrameOps : p # op => fr'[p] = fr[p]
  <2>1. fr \in [FrameOps -> Frame] /\ fr[op] \in Frame /\ fr[op].initiated
    BY <1>1, <1>6 DEF Types, Active
  <2>2. fr'[op] = [fr[op] EXCEPT !.done = TRUE, !.h = None]
        /\ \A p \in FrameOps : p # op => fr'[p] = fr[p]
    BY <1>4, <2>1
  <2>3. /\ fr'[op] \in Frame /\ fr'[op].done /\ fr'[op].h = None
        /\ fr'[op].initiated
    BY <2>1, <2>2 DEF Frame
  <2>4. fr' \in [FrameOps -> Frame]
    <3>1. \A p \in FrameOps : fr'[p] \in Frame
      BY <2>1, <2>2, <2>3
    <3>2. DOMAIN fr' = FrameOps /\ fr' = [p \in FrameOps |-> fr'[p]]
      BY <1>4, <2>1
    <3>3. QED BY <3>1, <3>2
  <2>5. QED BY <2>2, <2>3, <2>4
<1>10. Types'
  <2>1. sendAge' \in 0..Overdue /\ hasFd' \in BOOLEAN
    <3>1. 0 \in 0..Overdue
      BY DEF Overdue
    <3>2. QED BY <1>1, <1>4, <3>1 DEF Types
  <2>2. QED BY <1>1, <1>2, <1>4, <1>8, <1>9, <2>1 DEF Types
<1>11. Control'
  BY <1>1, <1>2, <1>4 DEF Control
<1>12. Frames'
  <2>1. \A p \in FrameOps : (fr[p].done => fr[p].initiated)'
    BY <1>1, <1>9 DEF Frames
  <2>2. \A p \in FrameOps : (fr[p].h # None <=> Active(fr[p]))'
    BY <1>1, <1>9 DEF Frames, Active
  <2>3. \A i \in 1..Len(cq') : Plain(cq'[i])
    BY <1>1, <1>2 DEF Frames
  <2>4. QED BY <1>1, <1>4, <2>1, <2>2, <2>3 DEF Frames
<1>13. ~Leaving'
  BY <1>2, <1>5 DEF Leaving
<1>14. op \in CallOps /\ "recv" \notin FrameOps
  BY DEF CallOps, FrameOps
<1>15. \A d \in Coros : d # c => co[d] # op
  BY <1>1, <1>7, <1>14 DEF Waiters
<1>16. Waiters'
  <2>1. \A d, g \in Coros : (co[d] = co[g] /\ co[d] \in CallOps)' => d = g
    BY <1>1, <1>2 DEF Waiters
  <2>2. \A p \in FrameOps : (fr[p].h # None => co[fr[p].h] = p)'
    BY <1>1, <1>2, <1>5, <1>9 DEF Waiters
  <2>3. \A d \in Coros : (co[d] \in FrameOps => fr[co[d]].initiated)'
    BY <1>1, <1>2, <1>5, <1>9 DEF Waiters
  <2>4. /\ rf'.initiated /\ rf'.h # None => co'[rf'.h] = "recv"
        /\ \A d \in Coros : (co[d] = "recv" => rf.h = None \/ (rf.h = d /\ rf.initiated))'
    BY <1>1, <1>2, <1>4, <1>5 DEF Waiters
  <2>5. \A d : Times(handles', d) = Times(handles, d) + Bit(c = d)
    BY <1>8, TimesFacts DEF TimesLaws
  <2>6. ASSUME NEW d \in Coros PROVE (Times(handles, d) = Bit(Ready(d)))'
    <3>1. Times(handles, d) = Bit(Ready(d))
      BY <1>1, <1>5 DEF Waiters
    <3>2. CASE d = c
      <4>1. ~Ready(d)
        BY <1>6, <1>7, <1>14, <3>2 DEF Ready, Active
      <4>2. Ready(d)'
        BY <1>2, <1>7, <1>9, <3>2 DEF Ready
      <4>3. Times(handles', d) = 1
        BY <2>5, <3>1, <3>2, <4>1 DEF Bit
      <4>4. QED BY <4>2, <4>3 DEF Bit
    <3>3. CASE d # c
      <4>1. Ready(d)' <=> Ready(d)
        <5>1. co[d] \in FrameOps => fr'[co[d]] = fr[co[d]]
          BY <1>9, <1>15, <3>3
        <5>2. QED BY <1>2, <1>4, <5>1 DEF Ready
      <4>2. Times(handles', d) = Times(handles, d)
        <5>1. Times(handles, d) \in Nat
          BY <1>8, TimesFacts DEF TimesLaws
        <5>2. QED BY <2>5, <3>3, <5>1 DEF Bit
      <4>3. QED BY <3>1, <4>1, <4>2 DEF Bit
    <3>4. QED BY <3>2, <3>3
  <2>7. QED BY <2>1, <2>2, <2>3, <2>4, <2>6 DEF Waiters
<1>17. ASSUME NEW p \in Ops PROVE Waits(p)' <=> Waits(p) /\ p # op
  <2>1. ~Active(fr'[op])
    BY <1>9 DEF Active
  <2>2. CASE p \in FrameOps
    <3>1. (Waits(p) <=> Active(fr[p])) /\ (Waits(p)' <=> Active(fr'[p]))
      BY <2>2 DEF Waits, FrameOps
    <3>2. QED BY <1>9, <2>1, <2>2, <3>1
  <2>3. CASE p \notin FrameOps
    BY <1>4, <2>3 DEF Waits
  <2>4. QED BY <2>2, <2>3
<1>18. ASSUME NEW O \in SUBSET Ops, FlightOf(O) PROVE FlightOf(O)'
  <2>1. sq \in Seq(Sqe) /\ Grows(sq, sq, {}, SqNew) /\ sq' = sq
    BY <1>1, <1>4, GrowsNone DEF Types
  <2>2. /\ \A p \in O : Waits(p)' <=> (Waits(p) /\ ~(p = e.op /\ ~e.more)) \/ p \in {}
        /\ \A p \in O : p \in {} => ~Waits(p) \/ (p = e.op /\ ~e.more)
    BY <1>3, <1>5, <1>17
  <2>3. UNCHANGED <<work, held, armed>>
    BY <1>2
  <2>4. QED BY <1>1, <1>2, <1>18, <2>1, <2>2, <2>3, FlightReaped
<1>19. FlightOf(CallOps)'
  BY <1>5, <1>18 DEF CallOps, Ops
<1>20. QED BY <1>3, <1>5, <1>6, <1>10, <1>11, <1>12, <1>16, <1>17, <1>18, <1>19 DEF Calls

\* A receive completes, for the last time or not.
LEMMA RecvDoneCalls ==
    ASSUME Calls, Reap, NEW e \in Cqe, e = Head(cq), ProcessRecv(e)
    PROVE  /\ Calls'
           /\ \A O \in SUBSET Ops : FlightOf(O) => FlightOf(O)'
           /\ e.op = "recv" /\ Waits(e.op)
           /\ \A p \in Ops : Waits(p)' <=> Waits(p) /\ ~(p = e.op /\ ~e.more)
<1>1. Types /\ Control /\ Frames /\ Waiters
  BY DEF Calls
<1>2. /\ Plain(e) /\ cq # <<>> /\ cq' = Tail(cq) /\ cq' \in Seq(Cqe)
      /\ ~e.more => Final(cq, e.op)
      /\ e.more => Multi(cq, e.op)
      /\ \A i \in 1..Len(cq') : \E j \in 1..Len(cq) : cq'[i] = cq[j]
      /\ UNCHANGED <<co, pc, back, work, file, held, armed, adjusts>> /\ pc = "reap"
  BY <1>1, ReapHead
<1>3. /\ e.op = "recv" /\ handles' = Collect(rf.h)
      /\ rf' = [h |-> None, initiated |-> e.more,
                data |-> rf.data \/ e.res = "ok",
                ec |-> rf.ec \/ e.res # "ok",
                age |-> IF e.res = "ok" \/ ~e.more THEN 0 ELSE rf.age]
      /\ UNCHANGED <<fr, tm, tc, sendAge, hasFd, sq>>
  BY DEF ProcessRecv
<1>4. FlightOf(CallOps) /\ ~Leaving /\ ~Leaving'
  BY <1>1, <1>2, Running DEF Calls, Leaving
<1>5. rf.initiated /\ Waits(e.op)
  <2>1. Place("recv")
    BY <1>4 DEF FlightOf, CallOps
  <2>2. Waits("recv")
    BY <1>2, <1>3, <2>1 DEF Place
  <2>3. QED BY <1>3, <2>2 DEF Waits, FrameOps
<1>6. /\ rf \in [h : Coros \cup {None}, initiated : BOOLEAN, data : BOOLEAN,
                 ec : BOOLEAN, age : 0..Overdue]
      /\ e.more \in BOOLEAN /\ 0 \in 0..Overdue
  BY <1>1 DEF Types, Cqe, Overdue
<1>7. rf'.h = None /\ (rf'.initiated <=> e.more) /\ (rf'.ec <=> e.res # "ok")
  BY <1>1, <1>3, <1>5 DEF Frames
<1>8. rf' \in [h : Coros \cup {None}, initiated : BOOLEAN, data : BOOLEAN,
               ec : BOOLEAN, age : 0..Overdue]
  <2>1. (IF e.res = "ok" \/ ~e.more THEN 0 ELSE rf.age) \in 0..Overdue
    BY <1>6
  <2>2. QED BY <1>3, <1>6, <2>1
<1>9. handles \in Seq(Coros) /\ handles' \in Seq(Coros)
  BY <1>1, <1>3, <1>6 DEF Types, Collect
<1>10. Types'
  BY <1>1, <1>2, <1>3, <1>8, <1>9 DEF Types
<1>11. Control'
  BY <1>1, <1>2, <1>3 DEF Control
<1>12. Frames'
  <2>1. \A i \in 1..Len(cq') : Plain(cq'[i])
    BY <1>1, <1>2 DEF Frames
  <2>2. rf'.ec => ~rf'.initiated
    BY <1>2, <1>3, <1>7 DEF Plain
  <2>3. \A p \in FrameOps : (/\ fr[p].done => fr[p].initiated
                             /\ fr[p].h # None <=> Active(fr[p]))'
    BY <1>1, <1>3 DEF Frames, Active
  <2>4. QED BY <2>1, <2>2, <2>3 DEF Frames
<1>13. "recv" \notin FrameOps /\ "recv" \in CallOps
  BY DEF FrameOps, CallOps
<1>14. Waiters'
  <2>1. \A d, g \in Coros : (co[d] = co[g] /\ co[d] \in CallOps)' => d = g
    BY <1>1, <1>2 DEF Waiters
  <2>2. \A p \in FrameOps : (fr[p].h # None => co[fr[p].h] = p)'
    BY <1>1, <1>2, <1>3, <1>4 DEF Waiters
  <2>3. \A d \in Coros : (co[d] \in FrameOps => fr[co[d]].initiated)'
    BY <1>1, <1>2, <1>3, <1>4 DEF Waiters
  <2>4. ASSUME NEW d \in Coros PROVE (Times(handles, d) = Bit(Ready(d)))'
    <3>1. Times(handles, d) = Bit(Ready(d))
      BY <1>1, <1>4 DEF Waiters
    <3>2. Ready(d)' <=> Ready(d) \/ co[d] = "recv"
      BY <1>2, <1>3, <1>7, <1>13 DEF Ready
    <3>3. CASE rf.h = None
      <4>1. handles' = handles
        BY <1>3, <3>3 DEF Collect
      <4>2. co[d] = "recv" => Ready(d)
        BY <3>3 DEF Ready
      <4>3. QED BY <3>1, <3>2, <4>1, <4>2 DEF Bit
    <3>4. CASE rf.h # None
      <4>1. PICK c \in Coros : c = rf.h /\ co[c] = "recv"
        BY <1>1, <1>4, <1>5, <1>6, <3>4 DEF Waiters
      <4>2. handles' = Append(handles, c)
        BY <1>3, <3>4, <4>1 DEF Collect
      <4>3. Times(handles', d) = Times(handles, d) + Bit(c = d)
        BY <1>9, <4>2, TimesFacts DEF TimesLaws
      <4>4. co[d] = "recv" <=> d = c
        BY <1>1, <1>13, <4>1 DEF Waiters
      <4>5. co[d] = "recv" => ~Ready(d)
        BY <1>13, <3>4 DEF Ready
      <4>6. Times(handles, d) \in Nat
        BY <1>9, TimesFacts DEF TimesLaws
      <4>7. QED BY <3>1, <3>2, <4>3, <4>4, <4>5, <4>6 DEF Bit
    <3>5. QED BY <3>3, <3>4
  <2>5. QED BY <1>7, <2>1, <2>2, <2>3, <2>4 DEF Waiters
<1>15. ASSUME NEW p \in Ops PROVE Waits(p)' <=> Waits(p) /\ ~(p = e.op /\ ~e.more)
  <2>1. CASE p = "recv"
    <3>1. (Waits(p) <=> rf.initiated) /\ (Waits(p)' <=> rf'.initiated)
      BY <2>1 DEF Waits, FrameOps
    <3>2. QED BY <1>3, <1>5, <1>7, <2>1, <3>1
  <2>2. CASE p # "recv"
    BY <1>3, <2>2 DEF Waits, Active
  <2>3. QED BY <2>1, <2>2
<1>16. ASSUME NEW O \in SUBSET Ops, FlightOf(O) PROVE FlightOf(O)'
  <2>1. sq \in Seq(Sqe) /\ Grows(sq, sq, {}, SqNew) /\ sq' = sq
    BY <1>1, <1>3, GrowsNone DEF Types
  <2>2. /\ \A p \in O : Waits(p)' <=> (Waits(p) /\ ~(p = e.op /\ ~e.more)) \/ p \in {}
        /\ \A p \in O : p \in {} => ~Waits(p) \/ (p = e.op /\ ~e.more)
    BY <1>15
  <2>3. UNCHANGED <<work, held, armed>>
    BY <1>2
  <2>4. QED BY <1>1, <1>2, <1>16, <2>1, <2>2, <2>3, FlightReaped
<1>17. FlightOf(CallOps)'
  BY <1>4, <1>16 DEF CallOps, Ops
<1>18. QED BY <1>3, <1>5, <1>10, <1>11, <1>12, <1>14, <1>15, <1>16, <1>17 DEF Calls

\* What becomes of the completion of the timer, or of its cancel; X are queued.
Ticks(e, X) ==
    /\ sq' \in Seq(Sqe) /\ Grows(sq, sq', X, SqNew) /\ X \subseteq ClockOps
    /\ UNCHANGED <<fr, hasFd, handles>>
    /\ rf' \in [h : Coros \cup {None}, initiated : BOOLEAN, data : BOOLEAN,
                ec : BOOLEAN, age : 0..Overdue]
    /\ rf'.h = rf.h /\ rf'.initiated = rf.initiated /\ rf'.ec = rf.ec
    /\ tm' \in [initiated : BOOLEAN, cancelled : BOOLEAN]
    /\ tc' \in BOOLEAN /\ sendAge' \in 0..Overdue
    /\ \/ /\ e.op = "timerCancel" /\ X = {} /\ ~tc' /\ tm' = tm /\ refs' = refs - 1
       \/ /\ e.op = "timer" /\ e.res = "ECANCELED" /\ tm.cancelled /\ X = {}
          /\ ~tm'.initiated /\ ~tm'.cancelled /\ tc' = tc /\ refs' = refs - 1
       \/ /\ e.op = "timer" /\ e.res = "ECANCELED" /\ ~tm.cancelled /\ X = {"timer"}
          /\ tm'.initiated /\ ~tm'.cancelled /\ tc' = tc /\ refs' = refs
       \/ /\ e.op = "timer" /\ e.res = "ETIME"
          /\ \E cancel \in BOOLEAN :
                /\ cancel => Idle # {}
                /\ tc' <=> tc \/ cancel
                /\ refs' = refs + One(cancel)
                /\ "timerCancel" \in X <=> cancel
                /\ "timer" \in X <=> ~e.more
          /\ tm'.initiated <=> tm.initiated \/ ~e.more
          /\ tm'.cancelled = tm.cancelled

LEMMA ExpiredTicks ==
    ASSUME Types, NEW e \in Cqe, ProcessExpired(e)
    PROVE  \E X : Ticks(e, X)
<1>1. /\ rf \in [h : Coros \cup {None}, initiated : BOOLEAN, data : BOOLEAN,
                 ec : BOOLEAN, age : 0..Overdue]
      /\ tm \in [initiated : BOOLEAN, cancelled : BOOLEAN]
      /\ tc \in BOOLEAN /\ sendAge \in 0..Overdue /\ 0 \in 0..Overdue
      /\ sq \in Seq(Sqe) /\ hasFd \in BOOLEAN /\ e.more \in BOOLEAN
      /\ "timerCancel" \in SqOps /\ "timer" \in SqOps
  BY DEF Types, Overdue, SqOps, Cqe
<1>2. \A a \in 0..Overdue : Older(a) \in 0..Overdue
  BY DEF Older, Overdue
<1>3. PICK cancel \in BOOLEAN :
         /\ cancel => Idle # {}
         /\ tc' = (tc \/ cancel)
         /\ refs' = refs + One(cancel)
         /\ sq' = sq \o (IF cancel THEN <<Op("timerCancel")>> ELSE <<>>)
                     \o (IF e.more THEN <<>> ELSE <<Op("timer")>>)
  BY DEF ProcessExpired
<1>4. /\ rf' = [rf EXCEPT !.age = IF rf.initiated THEN Older(@) ELSE 0]
      /\ sendAge' = IF Active(fr["send"]) THEN Older(sendAge) ELSE 0
      /\ tm' = [tm EXCEPT !.initiated = @ \/ ~e.more]
      /\ UNCHANGED <<fr, hasFd, handles>>
      /\ e.op = "timer" /\ e.res = "ETIME"
  BY DEF ProcessExpired
<1>5. /\ rf' \in [h : Coros \cup {None}, initiated : BOOLEAN, data : BOOLEAN,
                  ec : BOOLEAN, age : 0..Overdue]
      /\ rf'.h = rf.h /\ rf'.initiated = rf.initiated /\ rf'.ec = rf.ec
  <2>1. (IF rf.initiated THEN Older(rf.age) ELSE 0) \in 0..Overdue
    BY <1>1, <1>2
  <2>2. QED BY <1>1, <1>4, <2>1
<1>6. /\ tm' \in [initiated : BOOLEAN, cancelled : BOOLEAN]
      /\ tm'.initiated <=> tm.initiated \/ ~e.more
      /\ tm'.cancelled = tm.cancelled
  BY <1>1, <1>4
<1>7. sendAge' \in 0..Overdue /\ tc' \in BOOLEAN /\ (tc' <=> tc \/ cancel)
  BY <1>1, <1>2, <1>3, <1>4
<1> DEFINE t == sq \o (IF cancel THEN <<Op("timerCancel")>> ELSE <<>>)
           Y == {op \in {"timerCancel"} : cancel}
           X == Y \cup {op \in {"timer"} : ~e.more}
           x == Op("timerCancel")
           y == Op("timer")
<1>8. /\ x \in Sqe /\ x \in SqNew /\ x.op = "timerCancel" /\ x.op \notin {}
      /\ y \in Sqe /\ y \in SqNew /\ y.op = "timer" /\ y.op \notin Y
  BY <1>1, SqeFacts
<1>9. t \in Seq(Sqe) /\ Grows(sq, t, Y, SqNew)
  <2>1. Grows(sq, sq, {}, SqNew)
    BY <1>1, GrowsNone
  <2>2. \/ t = sq \o <<>> /\ Y = {}
        \/ t = sq \o <<x>> /\ Y = {} \cup {x.op}
    <3>1. CASE cancel
      BY <1>8, <3>1
    <3>2. CASE ~cancel
      BY <3>2
    <3>3. QED BY <3>1, <3>2
  <2> HIDE DEF t, Y, x, y
  <2>3. QED BY <1>1, <1>8, <2>1, <2>2, GrowsIf
<1>10. sq' \in Seq(Sqe) /\ Grows(sq, sq', X, SqNew)
  <2>1. PICK u : u = sq'
    OBVIOUS
  <2>2. \/ u = t \o <<>> /\ X = Y
        \/ u = t \o <<y>> /\ X = Y \cup {y.op}
    <3>1. CASE e.more
      BY <1>3, <2>1, <3>1
    <3>2. CASE ~e.more
      BY <1>3, <1>8, <2>1, <3>2
    <3>3. QED BY <3>1, <3>2
  <2> HIDE DEF t, Y, X, x, y
  <2>3. u \in Seq(Sqe) /\ Grows(sq, u, X, SqNew)
    BY <1>1, <1>8, <1>9, <2>2, GrowsIf
  <2>4. QED BY <2>1, <2>3
<1>11. /\ X \subseteq ClockOps
       /\ "timerCancel" \in X <=> cancel
       /\ "timer" \in X <=> ~e.more
  BY DEF ClockOps
<1> HIDE DEF t, X, Y, x, y
<1>12. Ticks(e, X)
  BY <1>3, <1>4, <1>5, <1>6, <1>7, <1>10, <1>11 DEF Ticks
<1>13. QED BY <1>12

LEMMA TicksAny ==
    ASSUME Types, NEW e \in Cqe, ProcessTimerCancel(e) \/ ProcessRemoved(e) \/ ProcessExpired(e)
    PROVE  \E X : Ticks(e, X)
<1>1. /\ rf \in [h : Coros \cup {None}, initiated : BOOLEAN, data : BOOLEAN,
                 ec : BOOLEAN, age : 0..Overdue]
      /\ tm \in [initiated : BOOLEAN, cancelled : BOOLEAN]
      /\ tc \in BOOLEAN /\ sendAge \in 0..Overdue
      /\ sq \in Seq(Sqe) /\ hasFd \in BOOLEAN /\ "timer" \in SqOps
  BY DEF Types, SqOps
<1>2. Grows(sq, sq, {}, SqNew)
  BY <1>1, GrowsNone
<1>3. CASE ProcessTimerCancel(e)
  <2>1. Ticks(e, {})
    BY <1>1, <1>2, <1>3 DEF Ticks, ProcessTimerCancel
  <2>2. QED BY <2>1
<1>4. CASE ProcessRemoved(e) /\ tm.cancelled
  <2>1. /\ e.op = "timer" /\ e.res = "ECANCELED" /\ refs' = refs - 1 /\ sq' = sq
        /\ tm' = [initiated |-> FALSE, cancelled |-> FALSE]
        /\ UNCHANGED <<fr, rf, tc, sendAge, hasFd, handles>>
    BY <1>4 DEF ProcessRemoved
  <2>2. /\ tm' \in [initiated : BOOLEAN, cancelled : BOOLEAN]
        /\ ~tm'.initiated /\ ~tm'.cancelled
    BY <2>1
  <2>3. Ticks(e, {})
    BY <1>1, <1>2, <1>4, <2>1, <2>2 DEF Ticks
  <2>4. QED BY <2>3
<1>5. CASE ProcessRemoved(e) /\ ~tm.cancelled
  <2>1. /\ e.op = "timer" /\ e.res = "ECANCELED" /\ refs' = refs
        /\ sq' = Append(sq, Op("timer")) /\ tm' = [tm EXCEPT !.initiated = TRUE]
        /\ UNCHANGED <<fr, rf, tc, sendAge, hasFd, handles>>
    BY <1>5 DEF ProcessRemoved
  <2>2. /\ tm' \in [initiated : BOOLEAN, cancelled : BOOLEAN]
        /\ tm'.initiated /\ ~tm'.cancelled
    BY <1>1, <1>5, <2>1
  <2>3. sq' \in Seq(Sqe) /\ Grows(sq, sq', {"timer"}, SqNew)
    BY <1>1, <2>1, QueueOne
  <2>4. Ticks(e, {"timer"})
    BY <1>1, <1>5, <2>1, <2>2, <2>3 DEF Ticks, ClockOps
  <2>5. QED BY <2>4
<1>6. QED BY <1>3, <1>4, <1>5, ExpiredTicks

LEMMA TicksCalls ==
    ASSUME Calls, Reap, NEW e \in Cqe, e = Head(cq), NEW X, Ticks(e, X)
    PROVE  Calls'
<1>1. Types /\ Control /\ Frames /\ Waiters
  BY DEF Calls
<1>2. /\ cq # <<>> /\ cq' = Tail(cq) /\ cq' \in Seq(Cqe)
      /\ \A i \in 1..Len(cq') : \E j \in 1..Len(cq) : cq'[i] = cq[j]
      /\ UNCHANGED <<co, pc, back, work, file, held, armed, adjusts>> /\ pc = "reap"
  BY <1>1, ReapHead
<1>3. /\ UNCHANGED <<fr, hasFd, handles>>
      /\ rf' \in [h : Coros \cup {None}, initiated : BOOLEAN, data : BOOLEAN,
                  ec : BOOLEAN, age : 0..Overdue]
      /\ rf'.h = rf.h /\ rf'.initiated = rf.initiated /\ rf'.ec = rf.ec
      /\ tm' \in [initiated : BOOLEAN, cancelled : BOOLEAN]
      /\ tc' \in BOOLEAN /\ sendAge' \in 0..Overdue
      /\ sq' \in Seq(Sqe) /\ Grows(sq, sq', X, SqNew)
      /\ e.op \in ClockOps /\ X \subseteq ClockOps
  BY DEF Ticks, ClockOps
<1>4. Types'
  BY <1>1, <1>2, <1>3 DEF Types
<1>5. Control'
  BY <1>1, <1>2 DEF Control
<1>6. Frames'
  <2>1. \A i \in 1..Len(cq') : Plain(cq'[i])
    BY <1>1, <1>2 DEF Frames
  <2>2. QED BY <1>1, <1>3, <2>1, FramesSame
<1>7. Waiters'
  <2>1. Leaving => Leaving'
    BY <1>2 DEF Leaving
  <2>2. QED BY <1>1, <1>2, <1>3, <2>1, WaitersSame
<1>8. FlightOf(CallOps)'
  <2>1. FlightOf(CallOps)
    BY <1>2 DEF Calls
  <2>2. \A p \in CallOps : p \notin X /\ p # e.op
    BY <1>3 DEF CallOps, ClockOps, FrameOps
  <2>3. \A p \in CallOps : Waits(p)' <=> Waits(p)
    BY <1>3 DEF Waits, CallOps, FrameOps, Active
  <2>4. /\ \A p \in CallOps : Waits(p)' <=> (Waits(p) /\ ~(p = e.op /\ ~e.more)) \/ p \in X
        /\ \A p \in CallOps : p \in X => ~Waits(p) \/ (p = e.op /\ ~e.more)
    BY <2>2, <2>3
  <2>5. QED BY <1>1, <1>2, <1>3, <2>1, <2>4, FlightReaped
<1>9. QED BY <1>4, <1>5, <1>6, <1>7, <1>8 DEF Calls

\* Whatever completes.
LEMMA ReapCalls ==
    ASSUME Calls, Reap
    PROVE  Calls'
<1>1. Types /\ Frames
  BY DEF Calls
<1>2. PICK e \in Cqe :
         /\ e = Head(cq)
         /\ \/ ProcessFrame(e) \/ ProcessClose(e) \/ ProcessRecv(e)
            \/ ProcessTimerCancel(e) \/ ProcessRemoved(e) \/ ProcessExpired(e)
  BY <1>1, ReapHead
<1>3. QED BY <1>1, <1>2, FrameDoneCalls, RecvDoneCalls, TicksAny, TicksCalls

-----------------------------------------------------------------------------
(* Who waits is resumed.                                                   *)

LEMMA CallsStep == Calls /\ [Next]_vars => Calls'
<1>1. SUFFICES ASSUME Calls, [Next]_vars PROVE Calls'
  OBVIOUS
<1>2. Types
  BY <1>1 DEF Calls
<1>3. ASSUME NEW c \in Coros,
             AsyncSend(c) \/ AsyncShutdown(c) \/ AsyncCancel(c) \/ AsyncClose(c)
      PROVE  Calls'
  BY <1>1, <1>2, <1>3, StartsAny, StartsCalls
<1>4. ASSUME NEW c \in Coros, AsyncRecv(c) PROVE Calls'
  BY <1>1, <1>2, <1>4, ReceivesAny, ReceivesCalls
<1>5. CASE UserStep
  BY <1>1, <1>3, <1>4, <1>5, QueuesCalls, AtOnceCalls, LetGoCalls DEF UserStep
<1>6. CASE LoopStep
  BY <1>1, <1>6, ResumeCalls, TakesCalls, WorksCalls, TurnsCalls, ReapCalls, FlushCalls,
     DestroyCalls DEF LoopStep
<1>7. CASE KernelStep
  BY <1>1, <1>7, ExpireCalls, CompletesCalls DEF KernelStep
<1>8. QED BY <1>1, <1>5, <1>6, <1>7, QueuesCalls, AbortCalls, TurnsCalls DEF Next

\* At first only the timer is under way.
LEMMA InitFacts ==
    ASSUME Init
    PROVE  /\ \A p \in Ops : Waits(p) <=> p = "timer"
           /\ \A p \in Ops : /\ InQueue(sq, p) <=> p = "timer"
                             /\ ~InQueue(work, p) /\ ~InQueue(cq, p)
                             /\ ~Final(cq, p) /\ ~Multi(cq, p) /\ ~Kept(p)
           /\ \A O : O \subseteq Ops => FlightOf(O)
           /\ Op("timer") \in Sqe /\ Op("timer").op = "timer" /\ sq = <<Op("timer")>>
           /\ sq \in Seq(Sqe)
<1>1. /\ fr = [op \in FrameOps |-> ResetFrame] /\ ~rf.initiated /\ tm.initiated /\ ~tc
      /\ sq = <<Op("timer")>> /\ work = <<>> /\ cq = <<>> /\ ~armed
      /\ held = [op \in HeldOps |-> "no"] /\ hasFd = TRUE
  BY DEF Init
<1>2. \A p \in FrameOps : ~Active(fr[p])
  BY <1>1 DEF Active, ResetFrame
<1>3. \A p \in Ops : Waits(p) <=> p = "timer"
  BY <1>1, <1>2 DEF Waits, Ops, FrameOps
<1>4. Op("timer") \in Sqe /\ Op("timer").op = "timer"
  BY <1>1, SqeFacts DEF SqOps
<1>5. Len(sq) = 1 /\ sq[1] = Op("timer") /\ Len(work) = 0 /\ Len(cq) = 0
  BY <1>1
<1>6. \A p \in Ops : /\ InQueue(sq, p) <=> p = "timer"
                     /\ ~InQueue(work, p) /\ ~InQueue(cq, p)
                     /\ ~Final(cq, p) /\ ~Multi(cq, p) /\ ~Kept(p)
  <2>1. ASSUME NEW p \in Ops PROVE InQueue(sq, p) <=> p = "timer"
    BY <1>4, <1>5 DEF InQueue
  <2>2. ASSUME NEW p \in Ops
        PROVE  ~InQueue(work, p) /\ ~InQueue(cq, p) /\ ~Final(cq, p) /\ ~Multi(cq, p)
    BY <1>5 DEF InQueue, Final, Multi
  <2>3. ASSUME NEW p \in Ops PROVE ~Kept(p)
    BY <1>1 DEF Kept
  <2>4. QED BY <2>1, <2>2, <2>3
<1>7. \A O : Single(sq, O) /\ Single(work, O) /\ Pairs(cq, O)
  BY <1>5 DEF Single, Pairs
<1>8. \A p \in Ops : Place(p)
  BY <1>3, <1>6 DEF Place
<1>9. \A O : O \subseteq Ops => FlightOf(O)
  BY <1>7, <1>8 DEF FlightOf
<1>10. sq \in Seq(Sqe)
  BY <1>1, <1>4
<1>11. QED BY <1>1, <1>3, <1>4, <1>6, <1>9, <1>10

LEMMA InitCalls == Init => Calls
<1>1. SUFFICES ASSUME Init PROVE Calls
  OBVIOUS
<1>2. /\ fr = [op \in FrameOps |-> ResetFrame]
      /\ rf = [h |-> None, initiated |-> FALSE, data |-> FALSE, ec |-> FALSE, age |-> 0]
      /\ tm = [initiated |-> TRUE, cancelled |-> FALSE]
      /\ tc = FALSE /\ sendAge = 0 /\ hasFd = TRUE /\ co = [c \in Coros |-> "idle"]
      /\ handles = <<>> /\ pc = "user" /\ back = "user" /\ work = <<>> /\ file = "own"
      /\ held = [op \in HeldOps |-> "no"] /\ armed = FALSE /\ cq = <<>> /\ adjusts = 0
  BY <1>1 DEF Init
<1>3. 0 \in 0..Overdue /\ 0 \in 0..MaxAdjusts /\ ResetFrame \in Frame
      /\ ResetFrame.h = None /\ ~ResetFrame.initiated /\ ~ResetFrame.done
  BY StreamAssumption DEF Overdue, ResetFrame, Frame
<1>4. sq \in Seq(Sqe)
  BY <1>1, InitFacts
<1>5. Types
  <2>1. /\ fr \in [FrameOps -> Frame]
        /\ rf \in [h : Coros \cup {None}, initiated : BOOLEAN, data : BOOLEAN,
                   ec : BOOLEAN, age : 0..Overdue]
        /\ tm \in [initiated : BOOLEAN, cancelled : BOOLEAN]
    BY <1>2, <1>3
  <2>2. <<>> \in Seq(Coros) /\ <<>> \in Seq(Sqe) /\ <<>> \in Seq(Cqe)
    OBVIOUS
  <2>3. QED BY <1>2, <1>3, <1>4, <2>1, <2>2 DEF Types
<1>6. Control
  BY <1>2 DEF Control
<1>7. Frames
  BY <1>2, <1>3 DEF Frames, Active
<1>8. Waiters
  <2>1. "idle" \notin CallOps /\ "idle" \notin FrameOps
    BY DEF CallOps, FrameOps
  <2>2. \A c \in Coros : Times(handles, c) = Bit(Ready(c))
    <3>1. \A c \in Coros : ~Ready(c)
      BY <1>2, <2>1 DEF Ready
    <3>2. \A c : Times(handles, c) = 0
      BY <1>2, TimesFacts DEF TimesLaws
    <3>3. QED BY <3>1, <3>2 DEF Bit
  <2>3. QED BY <1>2, <1>3, <2>1, <2>2 DEF Waiters
<1>9. FlightOf(CallOps)
  <2>1. CallOps \subseteq Ops
    BY DEF CallOps, Ops
  <2>2. QED BY <1>1, <2>1, InitFacts
<1>10. QED BY <1>5, <1>6, <1>7, <1>8, <1>9 DEF Calls

\* An operation that is waited for is in flight.
LEMMA WaitsInFlight ==
    ASSUME NEW O \in SUBSET Ops, FlightOf(O), NEW op \in O
    PROVE  InFlight(op) <=> Waits(op)
<1>1. Place(op)
  BY DEF FlightOf
<1>2. InQueue(cq, op) <=> Final(cq, op) \/ Multi(cq, op)
  BY EitherKind
<1>3. Kept(op) <=> (op \in HeldOps /\ held[op] # "no") \/ (op = "timer" /\ armed)
  BY DEF Kept
<1>4. InFlight(op) <=> InQueue(sq, op) \/ InQueue(work, op) \/ InQueue(cq, op) \/ Kept(op)
  BY <1>3 DEF InFlight
<1>5. QED BY <1>1, <1>2, <1>4 DEF Place

LEMMA CallsResumption == Calls => Resumption
<1>1. SUFFICES ASSUME Calls, ~Leaving, NEW c \in Coros
      PROVE  LET n == Times(handles, c)
                 op == co[c]
                 waits == IF op = "recv" THEN rf.h = c ELSE fr[op].h = c
             IN  IF op \in {"idle", "gone"} THEN n = 0
                 ELSE n = IF waits /\ InFlight(op) THEN 0 ELSE 1
  BY DEF Resumption, Leaving, Times
<1>2. Types /\ Frames /\ Waiters /\ FlightOf(CallOps)
  BY <1>1 DEF Calls, Leaving
<1>3. Times(handles, c) = Bit(Ready(c)) /\ c # None
  BY <1>1, <1>2, NotNone DEF Waiters
<1>4. co[c] \in FrameOps \cup {"recv", "idle", "gone"}
  BY <1>1, <1>2 DEF Types
<1>5. CASE co[c] \in {"idle", "gone"}
  <2>1. ~Ready(c)
    BY <1>5 DEF Ready, FrameOps
  <2>2. QED BY <1>3, <1>5, <2>1 DEF Bit
<1>6. CASE co[c] = "recv"
  <2>1. rf.h = None \/ (rf.h = c /\ rf.initiated)
    BY <1>1, <1>2, <1>6 DEF Waiters
  <2>2. Ready(c) <=> rf.h = None
    BY <1>6 DEF Ready, FrameOps
  <2>3. rf.h = c => InFlight("recv")
    <3>1. "recv" \in CallOps /\ CallOps \in SUBSET Ops
      BY DEF CallOps, Ops
    <3>2. InFlight("recv") <=> Waits("recv")
      BY <1>2, <3>1, WaitsInFlight
    <3>3. QED BY <1>3, <2>1, <3>2 DEF Waits
  <2>4. QED BY <1>3, <1>6, <2>1, <2>2, <2>3 DEF Bit
<1>7. CASE co[c] \in FrameOps
  <2>1. PICK op \in FrameOps : op = co[c]
    BY <1>7
  <2>2. fr[op].initiated /\ op # "recv" /\ op \notin {"idle", "gone"}
    BY <1>1, <1>2, <2>1 DEF Waiters, FrameOps
  <2>3. Ready(c) <=> fr[op].done
    BY <2>1, <2>2 DEF Ready
  <2>4. CASE fr[op].h = c
    <3>1. Active(fr[op])
      BY <1>2, <1>3, <2>4 DEF Frames
    <3>2. InFlight(op)
      <4>1. op \in CallOps /\ CallOps \in SUBSET Ops
        BY DEF CallOps, Ops
      <4>2. InFlight(op) <=> Waits(op)
        BY <1>2, <4>1, WaitsInFlight
      <4>3. QED BY <3>1, <4>2 DEF Waits
    <3>3. QED BY <1>3, <2>1, <2>2, <2>3, <2>4, <3>1, <3>2 DEF Active, Bit
  <2>5. CASE fr[op].h # c
    <3>1. fr[op].done
      <4>1. SUFFICES ASSUME ~fr[op].done PROVE FALSE
        OBVIOUS
      <4>2. fr[op].h # None /\ fr[op].h \in Coros
        BY <1>2, <2>2, <4>1 DEF Frames, Active, Types, Frame
      <4>3. co[fr[op].h] = op
        BY <1>1, <1>2, <4>2 DEF Waiters
      <4>4. fr[op].h = c
        BY <1>2, <2>1, <4>2, <4>3 DEF Waiters, CallOps
      <4>5. QED BY <2>5, <4>4
    <3>2. QED BY <1>3, <2>1, <2>2, <2>3, <2>5, <3>1 DEF Bit
  <2>6. QED BY <2>4, <2>5
<1>8. QED BY <1>4, <1>5, <1>6, <1>7

\* Resumption, whatever the timer and the kernel do: until run() is left, a
\* coroutine that waits is resumed once, its handle being in the frame of an
\* operation in flight or collected, never both and never neither.
THEOREM ResumptionHolds == Spec => []Resumption
<1>1. QED BY InitCalls, CallsStep, CallsResumption, PTL DEF Spec

-----------------------------------------------------------------------------
(* The references.                                                         *)

Weight(x) == IF x = "gone" THEN 0 ELSE IF x = "idle" THEN 1 ELSE 2

\* The sums are numbers.
LEMMA SharesFacts ==
    /\ \A f : /\ Shares(f) \in Nat
              /\ (\A c \in Coros : f[c] = "gone") => Shares(f) = 0
              /\ Shares(f) = 0 => \A c \in Coros : f[c] \notin Alive
    /\ IsFiniteSet(Pending) /\ Cardinality(Pending) \in Nat
    /\ Cardinality(Pending) = 0 <=> Pending = {}
<1>1. IsFiniteSet(Coros)
  BY StreamAssumption
<1>2. ASSUME NEW f
      PROVE  /\ Shares(f) \in Nat
             /\ (\A c \in Coros : f[c] = "gone") => Shares(f) = 0
             /\ Shares(f) = 0 => \A c \in Coros : f[c] \notin Alive
  <2>1. \A S : Pop(f, Coros, S) \in Nat
    BY <1>1, PopNat
  <2>2. \A S : Pop(f, Coros, S) = 0 <=> \A c \in Coros : f[c] \notin S
    BY <1>1, PopZero
  <2>3. "gone" \notin Alive /\ "gone" \notin CallOps
    BY DEF Alive, CallOps, FrameOps
  <2>4. (\A c \in Coros : f[c] = "gone") => Shares(f) = 0
    BY <2>1, <2>2, <2>3 DEF Shares
  <2>5. Shares(f) = 0 => Pop(f, Coros, Alive) = 0
    BY <2>1 DEF Shares
  <2>6. QED BY <2>1, <2>2, <2>4, <2>5 DEF Shares
<1>3. IsFiniteSet(Ops)
  <2>1. \A S, x : IsFiniteSet(S) => IsFiniteSet(S \cup {x})
    BY FS_AddElement
  <2>2. IsFiniteSet(({} \cup {"send"}) \cup {"shutdown"})
    BY <2>1, FS_EmptySet
  <2>3. IsFiniteSet(((({} \cup {"send"}) \cup {"shutdown"}) \cup {"cancel"}) \cup {"close"})
    BY <2>1, <2>2
  <2>4. FrameOps = ((({} \cup {"send"}) \cup {"shutdown"}) \cup {"cancel"}) \cup {"close"}
    BY DEF FrameOps
  <2>5. IsFiniteSet(FrameOps)
    BY <2>3, <2>4
  <2>6. IsFiniteSet(((FrameOps \cup {"recv"}) \cup {"timer"}) \cup {"timerCancel"})
    BY <2>1, <2>5
  <2>7. Ops = ((FrameOps \cup {"recv"}) \cup {"timer"}) \cup {"timerCancel"}
    BY DEF Ops
  <2>8. QED BY <2>6, <2>7
<1>4. IsFiniteSet(Pending)
  BY <1>3, FS_Subset DEF Pending
<1>5. Cardinality(Pending) \in Nat /\ (Cardinality(Pending) = 0 <=> Pending = {})
  BY <1>4, FS_CardinalityType, FS_EmptySet
<1>6. QED BY <1>2, <1>4, <1>5

\* A coroutine that goes on to something else.
LEMMA SharesChange ==
    ASSUME Types, NEW c \in Coros, \A d \in Coros : d # c => co'[d] = co[d],
           co'[c] \in FrameOps \cup {"recv", "idle", "gone"}
    PROVE  Shares(co') + Weight(co[c]) = Shares(co) + Weight(co'[c])
<1>1. IsFiniteSet(Coros)
  BY StreamAssumption
<1>2. ASSUME NEW S
      PROVE  Pop(co', Coros, S) + Bit(co[c] \in S) = Pop(co, Coros, S) + Bit(co'[c] \in S)
  BY <1>1, PopChange DEF Bit
<1>3. /\ Pop(co', Coros, Alive) \in Nat /\ Pop(co, Coros, Alive) \in Nat
      /\ Pop(co', Coros, CallOps) \in Nat /\ Pop(co, Coros, CallOps) \in Nat
  BY <1>1, PopNat
<1>4. \A x \in FrameOps \cup {"recv", "idle", "gone"} :
         Weight(x) = Bit(x \in Alive) + Bit(x \in CallOps)
  BY DEF Weight, Bit, Alive, CallOps, FrameOps
<1>5. /\ Weight(co[c]) = Bit(co[c] \in Alive) + Bit(co[c] \in CallOps)
      /\ Weight(co'[c]) = Bit(co'[c] \in Alive) + Bit(co'[c] \in CallOps)
  BY <1>4 DEF Types
<1>6. \A b : Bit(b) \in Nat
  BY DEF Bit
<1>7. QED BY <1>2, <1>3, <1>5, <1>6 DEF Shares

\* The operations that are waited for are the same, one more, or one less.
LEMMA PendingFacts ==
    /\ (\A p \in Ops : Waits(p)' <=> Waits(p)) => Pending' = Pending
    /\ \A op \in Ops :
          /\ ~Waits(op) /\ (\A p \in Ops : Waits(p)' <=> Waits(p) \/ p = op)
                => Cardinality(Pending') = Cardinality(Pending) + 1
          /\ Waits(op) /\ (\A p \in Ops : Waits(p)' <=> Waits(p) /\ p # op)
                => Cardinality(Pending) = Cardinality(Pending') + 1
<1>1. IsFiniteSet(Pending) /\ Cardinality(Pending) \in Nat
  BY SharesFacts
<1>2. (\A p \in Ops : Waits(p)' <=> Waits(p)) => Pending' = Pending
  BY DEF Pending
<1>3. ASSUME NEW op \in Ops, ~Waits(op), \A p \in Ops : Waits(p)' <=> Waits(p) \/ p = op
      PROVE  Cardinality(Pending') = Cardinality(Pending) + 1
  <2>1. Pending' = Pending \cup {op} /\ op \notin Pending
    BY <1>3 DEF Pending
  <2>2. Cardinality(Pending \cup {op}) = Cardinality(Pending) + 1
    BY <1>1, <2>1, FS_AddElement
  <2>3. QED BY <2>1, <2>2
<1>4. ASSUME NEW op \in Ops, Waits(op), \A p \in Ops : Waits(p)' <=> Waits(p) /\ p # op
      PROVE  Cardinality(Pending) = Cardinality(Pending') + 1
  <2>1. Pending' = Pending \ {op} /\ op \in Pending
    BY <1>4 DEF Pending
  <2>2. Cardinality(Pending \ {op}) = Cardinality(Pending) - 1
    BY <1>1, <2>1, FS_RemoveElement
  <2>3. QED BY <1>1, <2>1, <2>2
<1>5. QED BY <1>2, <1>3, <1>4

\* ~stream counts the operations that are waited for.
LEMMA FramesCounted ==
    ASSUME Types
    PROVE  ActiveFrames = Cardinality(Pending)
<1> DEFINE A == {op \in FrameOps : Active(fr[op])}
           B == IF rf.initiated THEN A \cup {"recv"} ELSE A
           C == IF tm.initiated THEN B \cup {"timer"} ELSE B
           D == IF tc THEN C \cup {"timerCancel"} ELSE C
<1>1. /\ rf.initiated \in BOOLEAN /\ tm.initiated \in BOOLEAN /\ tc \in BOOLEAN
  BY DEF Types
<1>2. /\ "recv" \notin A /\ "timer" \notin B /\ "timerCancel" \notin C
  BY DEF FrameOps
<1>3. Pending = D
  BY DEF Pending, Waits, Ops, FrameOps
<1>4. IsFiniteSet(A)
  <2>1. A \subseteq Pending
    BY DEF Pending, Waits, Ops
  <2>2. QED BY <2>1, SharesFacts, FS_Subset
<1> HIDE DEF A
<1>5. /\ IsFiniteSet(B) /\ Cardinality(A) \in Nat
      /\ Cardinality(B) = Cardinality(A) + One(rf.initiated)
  BY <1>2, <1>4, FS_AddElement, FS_CardinalityType DEF One
<1> HIDE DEF B
<1>6. /\ IsFiniteSet(C) /\ Cardinality(B) \in Nat
      /\ Cardinality(C) = Cardinality(B) + One(tm.initiated)
  BY <1>2, <1>5, FS_AddElement, FS_CardinalityType DEF One
<1> HIDE DEF C
<1>7. Cardinality(D) = Cardinality(C) + One(tc) /\ Cardinality(C) \in Nat
  BY <1>2, <1>6, FS_AddElement, FS_CardinalityType DEF One
<1> HIDE DEF D
<1>8. ActiveFrames = Cardinality(A) + One(rf.initiated) + One(tm.initiated) + One(tc)
  BY DEF ActiveFrames, A
<1>9. QED BY <1>3, <1>5, <1>6, <1>7, <1>8

-----------------------------------------------------------------------------
(* Steps that queue something, or nothing.                                 *)

\* The timer, when SQEs are queued.
LEMMA ClockGrows ==
    ASSUME Types, Clock, NEW X, sq' \in Seq(Sqe), Grows(sq, sq', X, SqNew),
           UNCHANGED <<cq, armed, tc>>, pc = "end" => pc' = "end",
           hasFd' \in BOOLEAN, hasFd' = hasFd \/ ~tm.initiated,
           \A O \in SUBSET Ops : FlightOf(O) => FlightOf(O)', "timer" \notin X,
           tm'.initiated = tm.initiated,
           tm'.cancelled =>
              tm.cancelled \/ (tm.initiated /\ "removeTimer" \in X),
           tm.cancelled => tm'.cancelled,
           Active(fr'["close"]) /\ tm.initiated => Active(fr["close"]) \/ tm'.cancelled
    PROVE  Clock'
<1>1. /\ sq \in Seq(Sqe) /\ hasFd \in BOOLEAN /\ hasFd' \in BOOLEAN
  BY DEF Types
<1>2. /\ \A op : InQueue(sq', op) <=> InQueue(sq, op) \/ op \in X
      /\ \A a, b : Covered(sq, a, b) /\ a \notin X => Covered(sq', a, b)
      /\ \A a, b : b \in X /\ a \notin X => Covered(sq', a, b)
  BY <1>1, GrowsFacts
<1>3. pc' # "end" => FlightOf(ClockOps)'
  <2>1. ClockOps \in SUBSET Ops
    BY DEF ClockOps, Ops
  <2>2. QED BY <2>1 DEF Clock
<1>4. \A i \in 1..Len(cq') : OfTimer(cq'[i])
  BY DEF Clock
<1>5. Multi(cq', "timer") => ~tc'
  BY DEF Clock
<1>6. tm'.cancelled => /\ tm'.initiated
                       /\ armed' \/ InQueue(sq', "timer")
                             => Covered(sq', "timer", "removeTimer")
  BY <1>2 DEF Clock
<1>7. Active(fr'["close"]) /\ tm'.initiated => tm'.cancelled
  BY DEF Clock
<1>8. InQueue(cq', "close") /\ tm'.initiated => Final(cq', "timer")
  BY DEF Clock
<1>9. Precedes(cq', "timer", "close")
  BY DEF Clock
<1>10. ~hasFd' /\ pc' # "end" => ~tm'.initiated
  BY <1>1 DEF Clock
<1>11. QED BY <1>3, <1>4, <1>5, <1>6, <1>7, <1>8, <1>9, <1>10 DEF Clock

\* The slot, when SQEs are queued.
LEMMA SlotGrows ==
    ASSUME Types, Slot, NEW X, sq' \in Seq(Sqe), Grows(sq, sq', X, SqNew),
           UNCHANGED <<hasFd, file, work>>, "foreign" \in X => ~hasFd
    PROVE  Slot'
<1>1. /\ sq \in Seq(Sqe) /\ Len(sq) \in Nat /\ Len(sq') \in Nat /\ Len(sq) <= Len(sq')
      /\ hasFd \in BOOLEAN
  BY DEF Types, Grows
<1>2. /\ \A i \in 1..Len(sq) : i \in 1..Len(sq') /\ sq'[i] = sq[i]
      /\ \A i \in 1..Len(sq), j \in 1..Len(sq') : j \notin 1..Len(sq) => i < j
  BY <1>1 DEF Grows
<1>3. \A i \in 1..Len(sq') : i \notin 1..Len(sq) => sq'[i].fd = hasFd /\ sq'[i].op \in X
  BY DEF Grows, SqNew
<1>4. \A O : Named(sq', O) => Named(sq, O) \/ hasFd
  BY <1>2, <1>3 DEF Named
<1>5. InQueue(sq', "foreign") => InQueue(sq, "foreign") \/ ~hasFd
  BY <1>1, GrowsFacts
<1>6. InTime(sq')
  <2>1. SUFFICES ASSUME NEW i \in 1..Len(sq'), NEW j \in 1..Len(sq'),
                        sq'[i].op \in SlotOps, sq'[i].fd, sq'[j].op = "foreign"
                 PROVE  i < j
    BY DEF InTime
  <2>2. ~hasFd
    <3>1. InQueue(sq', "foreign")
      BY <2>1 DEF InQueue
    <3>2. QED BY <1>5, <3>1 DEF Slot
  <2>3. i \in 1..Len(sq)
    BY <1>3, <2>1, <2>2
  <2>4. CASE j \in 1..Len(sq)
    BY <1>2, <2>1, <2>3, <2>4 DEF Slot, InTime
  <2>5. CASE j \notin 1..Len(sq)
    BY <1>2, <2>3, <2>5
  <2>6. QED BY <2>4, <2>5
<1>7. Named(sq', {"close"}) \/ Named(work', {"close"}) => hasFd'
  BY <1>4 DEF Slot
<1>8. file' = "foreign" => ~Named(sq', SlotOps)
  BY <1>4 DEF Slot
<1>9. InQueue(sq', "foreign") \/ file' = "foreign" => ~hasFd'
  BY <1>5 DEF Slot
<1>10. QED BY <1>6, <1>7, <1>8, <1>9 DEF Slot

\* The send, when SQEs are queued.
LEMMA SendGrows ==
    ASSUME Types, SendGone, NEW X, sq' \in Seq(Sqe), Grows(sq, sq', X, SqNew),
           UNCHANGED held,
           "send" \in X \/ (\E c \in Coros : co[c] = "send") => \E c \in Coros : co'[c] = "send"
    PROVE  SendGone'
<1>1. \A op : InQueue(sq', op) <=> InQueue(sq, op) \/ op \in X
  BY GrowsFacts DEF Types
<1>2. QED BY <1>1 DEF SendGone

\* When nobody is left and SQEs are queued.
LEMMA NobodyGrows ==
    ASSUME Types, NobodyLeft, AllGone' => AllGone, NEW X, sq' \in Seq(Sqe),
           Grows(sq, sq', X, SqNew), AllGone' => X \cap {"timer", "recv", "close"} = {},
           UNCHANGED <<held, armed, work>>,
           AllGone' /\ tm'.initiated => tm.initiated /\ (tm.cancelled => tm'.cancelled),
           AllGone' /\ pc' # "submit" => pc # "submit",
           AllGone' /\ pc = "submit" /\ back = "abort" => pc' = "submit" /\ back' = "abort"
    PROVE  NobodyLeft'
<1>1. SUFFICES ASSUME AllGone', AllGone
      PROVE  /\ tm'.initiated => tm'.cancelled
             /\ held'["recv"] # "no" \/ InQueue(sq', "recv")
                  => Covered(sq', "recv", "cancelRecv")
             /\ pc' # "submit" => /\ ~armed' /\ ~InQueue(sq', "timer")
                                  /\ held'["recv"] = "no" /\ ~InQueue(sq', "recv")
                                  /\ held'["send"] = "no"
             /\ ~InQueue(sq', "close")
             /\ work' = <<>> \/ (pc' = "submit" /\ back' = "abort")
  BY DEF NobodyLeft
<1>2. /\ \A op : InQueue(sq', op) <=> InQueue(sq, op) \/ op \in X
      /\ \A a, b : Covered(sq, a, b) /\ a \notin X => Covered(sq', a, b)
  BY GrowsFacts DEF Types
<1>3. "timer" \notin X /\ "recv" \notin X /\ "close" \notin X
  BY <1>1
<1>4. tm'.initiated => tm'.cancelled
  BY <1>1 DEF NobodyLeft
<1>5. held'["recv"] # "no" \/ InQueue(sq', "recv") => Covered(sq', "recv", "cancelRecv")
  BY <1>1, <1>2, <1>3 DEF NobodyLeft
<1>6. pc' # "submit" => /\ ~armed' /\ ~InQueue(sq', "timer")
                        /\ held'["recv"] = "no" /\ ~InQueue(sq', "recv")
                        /\ held'["send"] = "no"
  BY <1>1, <1>2, <1>3 DEF NobodyLeft
<1>7. ~InQueue(sq', "close")
  BY <1>1, <1>2, <1>3 DEF NobodyLeft
<1>8. work' = <<>> \/ (pc' = "submit" /\ back' = "abort")
  BY <1>1 DEF NobodyLeft
<1>9. QED BY <1>4, <1>5, <1>6, <1>7, <1>8

\* An operation that is not waited for is not queued and not held.
LEMMA NowhereThen ==
    ASSUME FlightOf(CallOps)', NEW op \in CallOps, ~Waits(op)'
    PROVE  /\ ~InQueue(sq', op) /\ ~InQueue(work', op) /\ ~InQueue(cq', op)
           /\ op \in HeldOps => held'[op] = "no"
<1>1. Place(op)'
  BY DEF FlightOf
<1>2. InQueue(cq', op) <=> Final(cq', op) \/ Multi(cq', op)
  BY EitherKind
<1>3. ~InQueue(sq', op) /\ ~InQueue(work', op) /\ ~Final(cq', op) /\ ~Multi(cq', op) /\ ~Kept(op)'
  BY <1>1 DEF Place
<1>4. QED BY <1>2, <1>3 DEF Kept

-----------------------------------------------------------------------------
(* What the users do.                                                      *)

\* Outside the abort somebody who does something is somebody who is left.
LEMMA StartsIInv ==
    ASSUME IInv, NEW c \in Coros, NEW op \in FrameOps, NEW X, Starts(c, op, X)
    PROVE  IInv'
<1>1. Calls /\ Types /\ Frames /\ Control /\ Exact /\ Clock /\ Slot /\ SendGone /\ NobodyLeft
  BY DEF IInv, Calls, Leave
<1>2. /\ Calls' /\ Types'
      /\ \A O \in SUBSET Ops : FlightOf(O) => FlightOf(O)'
  <2>1. Calls' /\ \A O \in SUBSET Ops : FlightOf(O) => FlightOf(O)'
    BY <1>1, StartsCalls
  <2>2. QED BY <2>1 DEF Calls
<1>3. /\ pc = "user" /\ co[c] = "idle" /\ May(op) /\ Begin(c, op) /\ UNCHANGED <<rf, tc>>
      /\ tm' = IF op = "close" THEN TimerCancelled ELSE tm
      /\ sq' \in Seq(Sqe) /\ Grows(sq, sq', X, SqNew)
      /\ X = {op} \cup {r \in {"removeTimer"} : op = "close" /\ tm.initiated}
  BY DEF Starts, Free
<1>4. /\ refs' = refs + 2 /\ pc' = pc
      /\ UNCHANGED <<hasFd, handles, pc, back, work, file, held, armed, cq, adjusts>>
  BY <1>3 DEF Begin
<1>5. /\ tm'.initiated = tm.initiated
      /\ tm'.cancelled <=> tm.cancelled \/ (op = "close" /\ tm.initiated)
  BY <1>1, <1>3 DEF Types, TimerCancelled
<1>6. /\ co'[c] = op /\ \A d \in Coros : d # c => co'[d] = co[d]
      /\ ~Waits(op) /\ \A p \in Ops : Waits(p)' <=> Waits(p) \/ p = op
      /\ \A p \in FrameOps : p # op => fr'[p] = fr[p]
  BY <1>1, <1>3, <1>5, BeginFacts
<1>7. Exact'
  <2>1. Shares(co') + Weight(co[c]) = Shares(co) + Weight(co'[c])
    BY <1>1, <1>6, SharesChange
  <2>2. Weight(co[c]) = 1 /\ Weight(co'[c]) = 2
    BY <1>3, <1>6 DEF Weight, FrameOps
  <2>3. op \in Ops
    BY DEF Ops
  <2>4. Cardinality(Pending') = Cardinality(Pending) + 1
    BY <1>6, <2>3, PendingFacts
  <2>5. /\ Shares(co') \in Nat /\ Shares(co) \in Nat /\ Cardinality(Pending) \in Nat
    BY SharesFacts
  <2>6. refs = Shares(co) + Cardinality(Pending)
    BY <1>1, <1>3 DEF Exact
  <2>7. refs' \in Nat /\ refs' = Shares(co') + Cardinality(Pending')
    BY <1>4, <2>1, <2>2, <2>4, <2>5, <2>6
  <2>8. QED BY <2>7 DEF Exact
<1>8. Clock'
  <2>1. "timer" \notin X
    BY <1>3 DEF FrameOps
  <2>2. tm'.cancelled => tm.cancelled \/ (tm.initiated /\ "removeTimer" \in X)
    BY <1>3, <1>5
  <2>3. Active(fr'["close"]) /\ tm.initiated => Active(fr["close"]) \/ tm'.cancelled
    BY <1>5, <1>6 DEF FrameOps
  <2>4. hasFd' \in BOOLEAN
    BY <1>2 DEF Types
  <2>5. QED BY <1>1, <1>2, <1>3, <1>4, <1>5, <2>1, <2>2, <2>3, <2>4, ClockGrows
<1>9. Slot'
  <2>1. "foreign" \notin X
    BY <1>3 DEF FrameOps
  <2>2. QED BY <1>1, <1>3, <1>4, <2>1, SlotGrows
<1>10. Leave'
  <2>1. ~AllGone'
    <3>1. co'[c] # "gone"
      BY <1>6 DEF FrameOps
    <3>2. QED BY <3>1 DEF AllGone
  <2>2. SendGone'
    <3>1. (\E d \in Coros : co[d] = "send") => \E d \in Coros : co'[d] = "send"
      BY <1>3, <1>6
    <3>2. "send" \in X => co'[c] = "send"
      BY <1>3, <1>6
    <3>3. QED BY <1>1, <1>3, <1>4, <3>1, <3>2, SendGrows
  <2>3. QED BY <1>3, <1>4, <2>1, <2>2 DEF Leave, NobodyLeft
<1>11. QED BY <1>2, <1>7, <1>8, <1>9, <1>10 DEF IInv

LEMMA ReceivesIInv ==
    ASSUME IInv, NEW c \in Coros, NEW X, Receives(c, X)
    PROVE  IInv'
<1>1. Calls /\ Types /\ Control /\ Exact /\ Clock /\ Slot /\ SendGone /\ NobodyLeft
  BY DEF IInv, Calls, Leave
<1>2. /\ Calls' /\ Types'
      /\ \A O \in SUBSET Ops : FlightOf(O) => FlightOf(O)'
  <2>1. Calls' /\ \A O \in SUBSET Ops : FlightOf(O) => FlightOf(O)'
    BY <1>1, ReceivesCalls
  <2>2. QED BY <2>1 DEF Calls
<1>3. /\ pc = "user" /\ co[c] = "idle"
      /\ co' = [co EXCEPT ![c] = "recv"]
      /\ refs' = refs + 1 + One(~rf.initiated) /\ rf'.initiated
      /\ sq' \in Seq(Sqe) /\ Grows(sq, sq', X, SqNew)
      /\ X = {r \in {"recv"} : ~rf.initiated}
      /\ UNCHANGED <<fr, tm, tc, sendAge, hasFd, handles, pc, back, work, file,
                     held, armed, cq, adjusts>>
  BY DEF Receives, Free
<1>4. co'[c] = "recv" /\ \A d \in Coros : d # c => co'[d] = co[d]
  BY <1>1, <1>3 DEF Types
<1>5. \A p \in Ops : Waits(p)' <=> Waits(p) \/ p = "recv"
  BY <1>3 DEF Waits, Ops, FrameOps
<1>6. Exact'
  <2>1. Shares(co') + Weight(co[c]) = Shares(co) + Weight(co'[c])
    BY <1>1, <1>4, SharesChange
  <2>2. Weight(co[c]) = 1 /\ Weight(co'[c]) = 2
    BY <1>3, <1>4 DEF Weight
  <2>3. Cardinality(Pending') = Cardinality(Pending) + One(~rf.initiated)
    <3>1. "recv" \in Ops /\ (Waits("recv") <=> rf.initiated)
      BY DEF Ops, Waits, FrameOps
    <3>2. CASE rf.initiated
      <4>1. Pending' = Pending
        BY <1>5, <3>1, <3>2, PendingFacts
      <4>2. Cardinality(Pending) \in Nat
        BY SharesFacts
      <4>3. QED BY <3>2, <4>1, <4>2 DEF One
    <3>3. CASE ~rf.initiated
      BY <1>5, <3>1, <3>3, PendingFacts DEF One
    <3>4. QED BY <3>2, <3>3
  <2>4. /\ Shares(co') \in Nat /\ Shares(co) \in Nat /\ Cardinality(Pending) \in Nat
        /\ One(~rf.initiated) \in Nat
    BY SharesFacts DEF One
  <2>5. refs = Shares(co) + Cardinality(Pending)
    BY <1>1, <1>3 DEF Exact
  <2>6. refs' \in Nat /\ refs' = Shares(co') + Cardinality(Pending')
    <3> DEFINE n == One(~rf.initiated)
    <3>1. refs' = refs + 1 + n
      BY <1>3
    <3>2. Cardinality(Pending') = Cardinality(Pending) + n /\ n \in Nat
      BY <2>3, <2>4
    <3> HIDE DEF n
    <3>3. QED BY <2>1, <2>2, <2>4, <2>5, <3>1, <3>2
  <2>7. QED BY <2>6 DEF Exact
<1>7. Clock'
  <2>1. "timer" \notin X /\ hasFd' \in BOOLEAN
    BY <1>2, <1>3 DEF Types
  <2>2. QED BY <1>1, <1>2, <1>3, <2>1, ClockGrows
<1>8. Slot'
  <2>1. "foreign" \notin X
    BY <1>3
  <2>2. QED BY <1>1, <1>3, <2>1, SlotGrows
<1>9. Leave'
  <2>1. ~AllGone'
    BY <1>4 DEF AllGone
  <2>2. SendGone'
    <3>1. (\E d \in Coros : co[d] = "send") => \E d \in Coros : co'[d] = "send"
      BY <1>3, <1>4
    <3>2. "send" \notin X
      BY <1>3
    <3>3. QED BY <1>1, <1>3, <3>1, <3>2, SendGrows
  <2>3. QED BY <1>3, <2>1, <2>2 DEF Leave, NobodyLeft
<1>10. QED BY <1>2, <1>6, <1>7, <1>8, <1>9 DEF IInv

\* A step that changes none of what is waited for.
LEMMA ExactSame ==
    ASSUME Exact, UNCHANGED refs, \A c \in Coros : co'[c] = co[c],
           pc' # "end" => pc # "end", \A p \in Ops : Waits(p)' <=> Waits(p)
    PROVE  Exact'
<1>1. Pending' = Pending
  BY PendingFacts
<1>2. \A S : {c \in Coros : co'[c] \in S} = {c \in Coros : co[c] \in S}
  OBVIOUS
<1>3. Shares(co') = Shares(co)
  BY <1>2 DEF Shares, Pop
<1>4. QED BY <1>1, <1>3 DEF Exact

\* The busy send, the timeout, and the socket that gets the slot.
LEMMA QueuesIInv ==
    ASSUME IInv, \/ \E c \in Coros : SendBusy(c) \/ Timeout(c)
                 \/ OtherTakes
    PROVE  IInv'
<1>1. Calls /\ Types /\ Control /\ Exact /\ Clock /\ Slot /\ SendGone /\ NobodyLeft
  BY DEF IInv, Calls, Leave
<1>2. /\ Calls' /\ Types'
      /\ \A O \in SUBSET Ops : FlightOf(O) => FlightOf(O)'
  <2>1. Calls' /\ \A O \in SUBSET Ops : FlightOf(O) => FlightOf(O)'
    BY <1>1, QueuesCalls
  <2>2. QED BY <2>1 DEF Calls
<1>3. PICK op \in {"cancelSend", "removeTimer", "foreign"} :
        /\ Quiet({op}) /\ UNCHANGED <<hasFd, file, refs>> /\ pc = "user"
        /\ pc' \in {"submit", "user"}
        /\ op = "foreign" => ~hasFd
  <2>1. Types /\ (\/ \E c \in Coros : SendBusy(c) \/ Timeout(c)
                  \/ OtherTakes)
    BY <1>1
  <2>2. PICK op \in {"cancelSend", "removeTimer", "foreign"} :
          /\ sq' = Append(sq, Op(op)) /\ Quiet({op})
          /\ UNCHANGED <<hasFd, file, refs>> /\ pc = "user"
          /\ op = "cancelSend" <=> pc' = "submit"
          /\ op # "cancelSend" <=> pc' = "user"
          /\ op = "cancelSend" => back' = "user"
          /\ op # "cancelSend" => back' = back
          /\ op = "foreign" => /\ ~hasFd /\ file # "foreign"
                               /\ ~InQueue(sq, "foreign")
    BY <2>1, QueuesAny
  <2>3. QED BY <2>2
<1>4. /\ UNCHANGED <<fr, co, handles, tm, tc, work, held, armed, cq>>
      /\ rf'.initiated = rf.initiated
      /\ sq' \in Seq(Sqe) /\ Grows(sq, sq', {op}, SqNew)
  BY <1>3 DEF Quiet
<1>5. \A p \in Ops : Waits(p)' <=> Waits(p)
  BY <1>4 DEF Waits
<1>6. Exact'
  BY <1>1, <1>3, <1>4, <1>5, ExactSame
<1>7. Clock'
  <2>1. "timer" \notin {op} /\ hasFd' \in BOOLEAN
    BY <1>2 DEF Types
  <2>2. QED BY <1>1, <1>2, <1>3, <1>4, <2>1, ClockGrows
<1>8. Slot'
  BY <1>1, <1>3, <1>4, SlotGrows
<1>9. SendGone'
  <2>1. "send" \notin {op}
    OBVIOUS
  <2>2. QED BY <1>1, <1>4, <2>1, SendGrows
<1>10. NobodyLeft'
  <2>1. {op} \cap {"timer", "recv", "close"} = {}
    OBVIOUS
  <2>2. AllGone' <=> AllGone
    BY <1>4 DEF AllGone
  <2>3. QED BY <1>1, <1>3, <1>4, <2>1, <2>2, NobodyGrows
<1>11. pc' # "end"
  BY <1>3
<1>12. QED BY <1>2, <1>6, <1>7, <1>8, <1>9, <1>10, <1>11 DEF IInv, Leave

\* Nothing is referred to when the count is zero.
LEMMA NothingPending ==
    ASSUME Types, Exact, refs = 0, pc # "end"
    PROVE  AllGone /\ \A p \in Ops : ~Waits(p)
<1>1. /\ Shares(co) \in Nat /\ Cardinality(Pending) \in Nat
      /\ Shares(co) + Cardinality(Pending) = 0
  BY SharesFacts DEF Exact
<1>2. Shares(co) = 0 /\ Cardinality(Pending) = 0
  BY <1>1
<1>3. (\A c \in Coros : co[c] \notin Alive) /\ Pending = {}
  BY <1>2, SharesFacts
<1>4. \A c \in Coros : co[c] \in Alive \cup {"gone"}
  BY DEF Types, Alive
<1>5. QED BY <1>3, <1>4 DEF AllGone, Pending

\* The stream_impl is destroyed.
LEMMA DestructIInv ==
    ASSUME IInv, Destruct
    PROVE  IInv'
<1>1. Calls /\ Types /\ Control /\ Exact /\ Clock /\ Slot /\ Leave /\ NobodyLeft
  BY DEF IInv, Calls, Leave
<1>2. /\ refs = 0 /\ hasFd /\ file' = "empty" /\ hasFd' = FALSE
      /\ UNCHANGED <<fr, rf, tm, tc, sendAge, refs, co, handles, pc, back, sq, work, held,
                     armed, cq, adjusts>>
  BY DEF Destruct, loopVars
<1>3. Calls' /\ \A O \in SUBSET Ops : FlightOf(O) => FlightOf(O)'
  BY <1>1, TurnsCalls
<1>4. \A p \in Ops : Waits(p)' <=> Waits(p)
  BY <1>2 DEF Waits
<1>5. Exact'
  BY <1>1, <1>2, <1>4, ExactSame
<1>6. sq' \in Seq(Sqe) /\ Grows(sq, sq', {}, SqNew)
  BY <1>1, <1>2, GrowsNone DEF Types
<1>7. Clock'
  <2>1. CASE pc = "end"
    <3>1. pc' = "end"
      BY <1>2, <2>1
    <3>2. /\ \A i \in 1..Len(cq) : OfTimer(cq[i])
          /\ Multi(cq, "timer") => ~tc
          /\ tm.cancelled =>
                /\ tm.initiated
                /\ armed \/ InQueue(sq, "timer") => Covered(sq, "timer", "removeTimer")
          /\ Active(fr["close"]) /\ tm.initiated => tm.cancelled
          /\ InQueue(cq, "close") /\ tm.initiated => Final(cq, "timer")
          /\ Precedes(cq, "timer", "close")
      BY <1>1 DEF Clock
    <3>3. QED BY <1>2, <3>1, <3>2 DEF Clock
  <2>2. CASE pc # "end"
    <3>1. ~tm.initiated
      BY <1>1, <1>2, <2>2, NothingPending DEF Waits, Ops, FrameOps
    <3>2. "timer" \notin {} /\ hasFd' \in BOOLEAN
      BY <1>2
    <3>3. QED BY <1>1, <1>2, <1>3, <1>6, <2>2, <3>1, <3>2, ClockGrows
  <2>3. QED BY <2>1, <2>2
<1>8. Slot'
  <2>1. ~Named(sq, {"close"}) /\ ~Named(work, {"close"})
    <3>1. CASE pc = "end"
      <4>1. sq = <<>> /\ work = <<>>
        BY <1>1, <3>1 DEF Control, NobodyLeft
      <4>2. Len(sq) = 0 /\ Len(work) = 0
        BY <4>1
      <4>3. QED BY <4>2 DEF Named
    <3>2. CASE pc # "end"
      <4>1. ~Waits("close") /\ Place("close")
        <5>1. "close" \in Ops /\ "close" \in CallOps
          BY DEF Ops, CallOps, FrameOps
        <5>2. QED BY <1>1, <1>2, <3>2, <5>1, NothingPending DEF Calls, FlightOf
      <4>2. ~InQueue(sq, "close") /\ ~InQueue(work, "close")
        BY <4>1 DEF Place
      <4>3. QED BY <4>2 DEF Named, InQueue
    <3>3. QED BY <3>1, <3>2
  <2>2. InTime(sq)
    BY <1>1 DEF Slot
  <2>3. ~InQueue(sq, "foreign")
    BY <1>1, <1>2 DEF Slot
  <2>4. QED BY <1>2, <2>1, <2>2, <2>3 DEF Slot
<1>9. Leave'
  BY <1>1, <1>2 DEF Leave, SendGone, NobodyLeft, AllGone
<1>10. QED BY <1>3, <1>5, <1>7, <1>8, <1>9 DEF IInv

\* The loop goes on, the cancels have been submitted, or nothing happens.
LEMMA TurnsIInv ==
    ASSUME IInv, SubmitAndWait \/ SubmitFull \/ SubmitDone \/ ReapDone \/ UNCHANGED vars
    PROVE  IInv'
<1>1. Calls /\ Types /\ Control /\ Exact /\ Clock /\ Slot /\ Leave /\ SendGone /\ NobodyLeft
  BY DEF IInv, Calls, Leave
<1>2. Calls' /\ \A O \in SUBSET Ops : FlightOf(O) => FlightOf(O)'
  BY <1>1, TurnsCalls
<1>3. UNCHANGED <<fr, rf, tm, tc, sendAge, refs, hasFd, co, handles, sq, work, file, held,
                  armed, cq, adjusts>>
  BY DEF SubmitAndWait, SubmitFull, SubmitDone, ReapDone, vars, frameVars, loopVars,
     kernVars
<1>4. /\ pc = "end" <=> pc' = "end"
      /\ \/ pc' = pc /\ back' = back
         \/ pc \in {"user", "reap"} /\ pc' = "submit"
         \/ pc = "reap" /\ pc' = "user"
         \/ SubmitDone
  <2>1. CASE SubmitAndWait \/ SubmitFull
    BY <2>1 DEF SubmitAndWait, SubmitFull
  <2>2. CASE ReapDone
    BY <2>2 DEF ReapDone
  <2>3. CASE UNCHANGED vars
    BY <2>3 DEF vars, loopVars
  <2>4. CASE SubmitDone
    <3>1. pc = "submit" /\ (pc' = back \/ pc' = "abort")
      BY <2>4 DEF SubmitDone
    <3>2. pc' # "end" /\ pc # "end"
      BY <1>1, <3>1 DEF Types
    <3>3. QED BY <2>4, <3>2
  <2>5. QED BY <2>1, <2>2, <2>3, <2>4
<1>5. \A p \in Ops : Waits(p)' <=> Waits(p)
  BY <1>3 DEF Waits
<1>6. Exact'
  BY <1>1, <1>3, <1>4, <1>5, ExactSame
<1>7. sq' \in Seq(Sqe) /\ Grows(sq, sq', {}, SqNew)
  BY <1>1, <1>3, GrowsNone DEF Types
<1>8. Clock'
  <2>1. "timer" \notin {} /\ hasFd' \in BOOLEAN
    BY <1>1, <1>3 DEF Types
  <2>2. QED BY <1>1, <1>2, <1>3, <1>4, <1>7, <2>1, ClockGrows
<1>9. Slot'
  <2>1. "foreign" \notin {}
    OBVIOUS
  <2>2. QED BY <1>1, <1>3, <1>7, <2>1, SlotGrows
<1>10. SendGone'
  BY <1>1, <1>3 DEF SendGone
<1>11. NobodyLeft'
  <2>1. CASE pc' = pc /\ back' = back
    BY <1>1, <1>3, <2>1 DEF NobodyLeft, AllGone
  <2>2. CASE \/ pc \in {"user", "reap"} /\ pc' = "submit"
             \/ pc = "reap" /\ pc' = "user"
    <3>1. pc # "submit"
      BY <2>2
    <3>2. QED BY <1>1, <1>3, <2>2, <3>1 DEF NobodyLeft, AllGone
  <2>3. CASE SubmitDone
    <3>1. pc = "submit" /\ sq = <<>> /\ (work = <<>> \/ back = "clear")
      BY <2>3 DEF SubmitDone
    <3>2. Len(sq) = 0
      BY <3>1
    <3>3. SUFFICES ASSUME AllGone', AllGone
          PROVE  /\ tm'.initiated => tm'.cancelled
                 /\ held'["recv"] # "no" \/ InQueue(sq', "recv")
                      => Covered(sq', "recv", "cancelRecv")
                 /\ pc' # "submit" => /\ ~armed' /\ ~InQueue(sq', "timer")
                                      /\ held'["recv"] = "no" /\ ~InQueue(sq', "recv")
                                      /\ held'["send"] = "no"
                 /\ ~InQueue(sq', "close")
                 /\ work' = <<>> \/ (pc' = "submit" /\ back' = "abort")
      BY <1>3 DEF NobodyLeft, AllGone
    <3>4. \A op : ~InQueue(sq, op)
      BY <3>2 DEF InQueue
    <3>5. \A a, b : ~Covered(sq, a, b)
      BY <3>2 DEF Covered
    <3>6. ~armed
      <4>1. SUFFICES ASSUME armed PROVE FALSE
        BY <1>1 DEF Types
      <4>2. Place("timer")
        BY <1>1, <3>1 DEF Clock, FlightOf, ClockOps
      <4>3. tm.initiated
        BY <4>1, <4>2 DEF Place, Kept, Waits, FrameOps
      <4>4. tm.cancelled
        BY <1>1, <3>3, <4>3 DEF NobodyLeft
      <4>5. QED BY <1>1, <3>5, <4>1, <4>4 DEF Clock
    <3>7. held["recv"] = "no" /\ (tm.initiated => tm.cancelled)
      BY <1>1, <3>3, <3>5 DEF NobodyLeft
    <3>8. held["send"] = "no"
      <4>1. \A c \in Coros : co[c] # "send"
        BY <3>3 DEF AllGone
      <4>2. QED BY <1>1, <3>4, <4>1 DEF SendGone
    <3>9. work = <<>>
      <4>1. back = "clear" => work = <<>>
        BY <1>1, <3>3 DEF NobodyLeft
      <4>2. QED BY <3>1, <4>1
    <3>10. QED BY <1>3, <3>4, <3>6, <3>7, <3>8, <3>9
  <2>4. QED BY <1>4, <2>1, <2>2, <2>3
<1>12. Leave'
  BY <1>1, <1>3, <1>4, <1>10, <1>11 DEF Leave
<1>13. QED BY <1>2, <1>6, <1>8, <1>9, <1>12 DEF IInv

\* A receive that finds something.
LEMMA AtOnceIInv ==
    ASSUME IInv, NEW c \in Coros, RecvAtOnce(c)
    PROVE  IInv'
<1>1. Calls /\ Types /\ Exact /\ Clock /\ Slot /\ Leave /\ SendGone /\ NobodyLeft
  BY DEF IInv, Calls, Leave
<1>2. /\ Calls' /\ \A p : Waits(p)' <=> Waits(p)
      /\ \A O \in SUBSET Ops : FlightOf(O) => FlightOf(O)'
  BY <1>1, AtOnceCalls
<1>3. UNCHANGED <<fr, tm, tc, sendAge, refs, hasFd, co, handles, pc, back, sq, work, file,
                  held, armed, cq, adjusts>>
  BY DEF RecvAtOnce, loopVars, kernVars
<1>4. Exact'
  BY <1>1, <1>2, <1>3, ExactSame
<1>5. sq' \in Seq(Sqe) /\ Grows(sq, sq', {}, SqNew)
  BY <1>1, <1>3, GrowsNone DEF Types
<1>6. Clock'
  <2>1. "timer" \notin {} /\ hasFd' \in BOOLEAN
    BY <1>1, <1>3 DEF Types
  <2>2. QED BY <1>1, <1>2, <1>3, <1>5, <2>1, ClockGrows
<1>7. Slot'
  <2>1. "foreign" \notin {}
    OBVIOUS
  <2>2. QED BY <1>1, <1>3, <1>5, <2>1, SlotGrows
<1>8. Leave'
  BY <1>1, <1>3 DEF Leave, SendGone, NobodyLeft, AllGone
<1>9. QED BY <1>2, <1>4, <1>6, <1>7, <1>8 DEF IInv

\* A step outside of run() that leaves the frames and the queues alone but for a
\* drop of the stream.
LEMMA DropsClock ==
    ASSUME Types, Clock, NEW sending, NEW last, NEW X, Drops(sending, last, X),
           UNCHANGED <<fr, rf, tc, work, held, armed, cq, hasFd>>, pc = "end" => pc' = "end"
    PROVE  /\ Clock' /\ Grows(sq, sq', X, SqNew) /\ sq' \in Seq(Sqe)
           /\ tm'.initiated = tm.initiated
           /\ tm.cancelled => tm'.cancelled
           /\ "removeTimer" \in X => tm'.cancelled
           /\ X \cap {"timer", "recv", "close", "send", "foreign"} = {}
<1>1. /\ sq' \in Seq(Sqe) /\ Grows(sq, sq', X, SqNew)
      /\ X \subseteq {"cancelSend", "removeTimer", "cancelRecv"}
      /\ "cancelSend" \in X <=> sending
      /\ "removeTimer" \in X <=> last /\ tm.initiated
      /\ "cancelRecv" \in X <=> last /\ rf.initiated
      /\ tm' = IF last THEN TimerCancelled ELSE tm
  BY DEF Drops
<1>2. \A O \in SUBSET Ops : FlightOf(O) => FlightOf(O)'
  BY DropsFlight
<1>3. /\ tm'.initiated = tm.initiated
      /\ tm'.cancelled <=> tm.cancelled \/ (last /\ tm.initiated)
  <2>1. CASE last
    BY <1>1, <2>1 DEF Types, TimerCancelled
  <2>2. CASE ~last
    BY <1>1, <2>2
  <2>3. QED BY <2>1, <2>2
<1>4. "timer" \notin X /\ hasFd' \in BOOLEAN
  BY <1>1 DEF Types
<1>5. Clock'
  BY <1>1, <1>2, <1>3, <1>4, ClockGrows
<1>6. QED BY <1>1, <1>3, <1>5

\* A coroutine lets go of the stream.
LEMMA LetGoIInv ==
    ASSUME IInv, NEW c \in Coros, LetGo(c)
    PROVE  IInv'
<1>1. Calls /\ Types /\ Frames /\ Waiters /\ Control /\ Exact /\ Clock /\ Slot /\ SendGone
      /\ NobodyLeft /\ FlightOf(CallOps)
  <2>1. pc # "end"
    BY DEF LetGo, Free
  <2>2. QED BY <2>1 DEF IInv, Calls, Leave
<1>2. Calls' /\ \A p : Waits(p)' <=> Waits(p)
  BY <1>1, LetGoCalls
<1>3. /\ pc = "user" /\ co[c] = "idle" /\ co' = [co EXCEPT ![c] = "gone"]
      /\ refs' = refs - 1
      /\ UNCHANGED <<fr, rf, tc, sendAge, hasFd, handles, work, file, held, armed, cq,
                     adjusts>>
  BY DEF LetGo, Free, DropStream
<1>4. co'[c] = "gone" /\ \A d \in Coros : d # c => co'[d] = co[d]
  BY <1>1, <1>3 DEF Types
<1>5. PICK X : /\ Drops(FALSE, LastHandle(refs), X)
               /\ LastHandle(refs) => pc' = "submit" /\ back' = "user"
               /\ ~LastHandle(refs) => pc' = pc /\ back' = back
  BY <1>1, LetGoAny
<1>6. PICK last \in BOOLEAN : last <=> LastHandle(refs)
  OBVIOUS
<1>7. /\ Drops(FALSE, last, X)
      /\ last => pc' = "submit" /\ back' = "user"
      /\ ~last => pc' = pc /\ back' = back
  <2>1. last = LastHandle(refs)
    BY <1>6 DEF LastHandle
  <2>2. QED BY <1>5, <2>1
<1>8. /\ Clock' /\ Grows(sq, sq', X, SqNew) /\ sq' \in Seq(Sqe)
      /\ tm'.initiated = tm.initiated
      /\ tm.cancelled => tm'.cancelled
      /\ last /\ tm.initiated => tm'.cancelled
      /\ X \cap {"timer", "recv", "close", "send", "foreign"} = {}
      /\ last /\ rf.initiated => "cancelRecv" \in X
  <2>1. /\ last /\ tm.initiated => "removeTimer" \in X
        /\ last /\ rf.initiated => "cancelRecv" \in X
    BY <1>7 DEF Drops
  <2>2. UNCHANGED <<fr, rf, tc, work, held, armed, cq, hasFd>>
    BY <1>3
  <2>3. pc = "end" => pc' = "end"
    BY <1>3
  <2>4. Types /\ Clock /\ Drops(FALSE, last, X)
    BY <1>1, <1>7
  <2>5. /\ Clock' /\ Grows(sq, sq', X, SqNew) /\ sq' \in Seq(Sqe)
        /\ tm'.initiated = tm.initiated
        /\ tm.cancelled => tm'.cancelled
        /\ "removeTimer" \in X => tm'.cancelled
        /\ X \cap {"timer", "recv", "close", "send", "foreign"} = {}
    BY <2>2, <2>3, <2>4, DropsClock
  <2>6. QED BY <2>1, <2>5
<1>9. /\ Shares(co') + 1 = Shares(co) /\ Shares(co') \in Nat /\ Shares(co) \in Nat
      /\ Cardinality(Pending) \in Nat /\ Pending' = Pending
      /\ refs = Shares(co) + Cardinality(Pending)
  <2>1. Shares(co') + Weight(co[c]) = Shares(co) + Weight(co'[c])
    BY <1>1, <1>4, SharesChange
  <2>2. Weight(co[c]) = 1 /\ Weight(co'[c]) = 0
    BY <1>3, <1>4 DEF Weight
  <2>3. Shares(co') \in Nat /\ Shares(co) \in Nat /\ Cardinality(Pending) \in Nat
    BY SharesFacts
  <2>4. Pending' = Pending
    BY <1>2, PendingFacts
  <2>5. refs = Shares(co) + Cardinality(Pending)
    BY <1>1, <1>3 DEF Exact
  <2>6. QED BY <2>1, <2>2, <2>3, <2>4, <2>5
<1>10. Exact'
  <2>1. refs' \in Nat /\ refs' = Shares(co') + Cardinality(Pending)
    BY <1>3, <1>9
  <2>2. QED BY <1>9, <2>1 DEF Exact
<1>11. Slot'
  <2>1. "foreign" \notin X
    BY <1>8
  <2>2. QED BY <1>1, <1>3, <1>8, <2>1, SlotGrows
<1>12. SendGone'
  <2>1. "send" \notin X
    BY <1>8
  <2>2. (\E d \in Coros : co[d] = "send") => \E d \in Coros : co'[d] = "send"
    BY <1>3, <1>4
  <2>3. QED BY <1>1, <1>3, <1>8, <2>1, <2>2, SendGrows
<1>13. NobodyLeft'
  <2>1. SUFFICES ASSUME AllGone'
        PROVE  /\ tm'.initiated => tm'.cancelled
               /\ held'["recv"] # "no" \/ InQueue(sq', "recv")
                    => Covered(sq', "recv", "cancelRecv")
               /\ pc' = "submit"
               /\ ~InQueue(sq', "close")
               /\ work' = <<>>
    BY DEF NobodyLeft
  <2>2. last
    <3>1. Shares(co') = 0
      BY <2>1, SharesFacts DEF AllGone
    <3>2. refs = 1 + Cardinality(Pending)
      BY <1>9, <3>1
    <3>3. ActiveFrames = Cardinality(Pending)
      BY <1>1, FramesCounted
    <3>4. refs - ActiveFrames = 1
      <4> DEFINE n == Cardinality(Pending)
      <4>1. n \in Nat /\ refs = 1 + n /\ ActiveFrames = n
        BY <1>9, <3>2, <3>3
      <4> HIDE DEF n
      <4>2. QED BY <4>1
    <3>5. QED BY <1>6, <3>4 DEF LastHandle
  <2>3. \A op : InQueue(sq', op) <=> InQueue(sq, op) \/ op \in X
    BY <1>1, <1>8, GrowsFacts DEF Types
  <2>4. tm'.initiated => tm'.cancelled
    BY <1>8, <2>2
  <2>5. held'["recv"] # "no" \/ InQueue(sq', "recv") => Covered(sq', "recv", "cancelRecv")
    <3>1. SUFFICES ASSUME held'["recv"] # "no" \/ InQueue(sq', "recv")
          PROVE  Covered(sq', "recv", "cancelRecv")
      OBVIOUS
    <3>2. Place("recv")
      BY <1>1 DEF FlightOf, CallOps
    <3>3. "recv" \notin X
      BY <1>8
    <3>4. rf.initiated
      BY <1>3, <2>3, <3>1, <3>2, <3>3 DEF Place, Kept, Waits, HeldOps, FrameOps
    <3>5. "cancelRecv" \in X
      BY <1>8, <2>2, <3>4
    <3>6. QED BY <1>1, <1>8, <3>3, <3>5, GrowsFacts DEF Types
  <2>6. ~InQueue(sq', "close")
    <3>1. ~Active(fr["close"])
      <4>1. SUFFICES ASSUME Active(fr["close"]) PROVE FALSE
        OBVIOUS
      <4>2. fr["close"].h # None /\ fr["close"].h \in Coros
        BY <1>1, <4>1 DEF Frames, FrameOps, Types, Frame
      <4>3. ~Leaving
        BY <1>1, <1>3, Running
      <4>4. co[fr["close"].h] = "close"
        BY <1>1, <4>2, <4>3 DEF Waiters, FrameOps
      <4>5. QED BY <1>3, <1>4, <2>1, <4>2, <4>4 DEF AllGone
    <3>2. Place("close")
      BY <1>1 DEF FlightOf, CallOps, FrameOps
    <3>3. ~InQueue(sq, "close")
      BY <3>1, <3>2 DEF Place, Waits
    <3>4. QED BY <1>8, <2>3, <3>3
  <2>7. work' = <<>>
    BY <1>1, <1>3 DEF Control
  <2>8. QED BY <1>7, <2>2, <2>4, <2>5, <2>6, <2>7
<1>14. Leave'
  <2>1. pc' # "end"
    BY <1>3, <1>7
  <2>2. QED BY <1>12, <1>13, <2>1 DEF Leave
<1>15. QED BY <1>2, <1>8, <1>10, <1>11, <1>14 DEF IInv

-----------------------------------------------------------------------------
(* run() is left.                                                          *)

LEMMA AbortIInv ==
    ASSUME IInv, Abort
    PROVE  IInv'
<1>1. Calls /\ Types /\ Exact /\ Clock /\ Slot /\ SendGone /\ NobodyLeft
  BY DEF IInv, Calls, Leave
<1>2. /\ Calls' /\ \A p : Waits(p)' <=> Waits(p)
      /\ \A O \in SUBSET Ops : FlightOf(O) => FlightOf(O)'
  BY <1>1, AbortCalls
<1>3. /\ UNCHANGED <<fr, tm, tc, refs, hasFd, co, sq, work, file, held, armed, cq>>
      /\ pc = "user" /\ pc' = "submit"
  BY DEF Abort, kernVars
<1>4. Exact'
  BY <1>1, <1>2, <1>3, ExactSame
<1>5. sq' \in Seq(Sqe) /\ Grows(sq, sq', {}, SqNew)
  BY <1>1, <1>3, GrowsNone DEF Types
<1>6. Clock'
  <2>1. "timer" \notin {} /\ hasFd' \in BOOLEAN
    BY <1>1, <1>3 DEF Types
  <2>2. QED BY <1>1, <1>2, <1>3, <1>5, <2>1, ClockGrows
<1>7. Slot'
  <2>1. "foreign" \notin {}
    OBVIOUS
  <2>2. QED BY <1>1, <1>3, <1>5, <2>1, SlotGrows
<1>8. Leave'
  <2>1. SendGone'
    BY <1>1, <1>3 DEF SendGone
  <2>2. NobodyLeft'
    <3>1. pc # "submit"
      BY <1>3
    <3>2. QED BY <1>1, <1>3, <3>1 DEF NobodyLeft, AllGone
  <2>3. QED BY <1>3, <2>1, <2>2 DEF Leave
<1>9. QED BY <1>2, <1>4, <1>6, <1>7, <1>8 DEF IInv

\* A coroutine is destroyed.
LEMMA DestroyIInv ==
    ASSUME IInv, NEW c \in Coros, DestroyCoro(c)
    PROVE  IInv'
<1>1. Calls /\ Types /\ Control /\ Exact /\ Clock /\ Slot /\ SendGone
      /\ NobodyLeft /\ FlightOf(CallOps)
  <2>1. pc # "end"
    BY DEF DestroyCoro
  <2>2. QED BY <2>1 DEF IInv, Calls, Leave
<1>2. Calls' /\ (\A p : Waits(p)' <=> Waits(p)) /\ FlightOf(CallOps)'
  <2>1. /\ Calls' /\ \A p : Waits(p)' <=> Waits(p)
        /\ \A O \in SUBSET Ops : FlightOf(O) => FlightOf(O)'
    BY <1>1, DestroyCalls
  <2>2. CallOps \in SUBSET Ops
    BY DEF CallOps, Ops
  <2>3. QED BY <1>1, <2>1, <2>2
<1>3. /\ pc = "abort" /\ co[c] # "gone" /\ co' = [co EXCEPT ![c] = "gone"]
      /\ refs' = (refs - One(co[c] # "idle")) - 1
      /\ UNCHANGED <<fr, rf, tc, sendAge, hasFd, handles, work, file, held, armed, cq,
                     adjusts>>
  BY DEF DestroyCoro, DropStream
<1>4. co'[c] = "gone" /\ \A d \in Coros : d # c => co'[d] = co[d]
  BY <1>1, <1>3 DEF Types
<1>5. PICK sending \in BOOLEAN, last \in BOOLEAN : \E X :
        /\ sending <=> co[c] = "send" /\ Active(fr["send"])
        /\ last <=> LastHandle(refs - One(co[c] # "idle"))
        /\ Drops(sending, last, X)
        /\ sending \/ last => pc' = "submit" /\ back' = "abort"
        /\ ~sending /\ ~last => pc' = pc /\ back' = back
  BY <1>1, DestroyAny
<1>6. PICK X : Drops(sending, last, X)
  BY <1>5
<1>7. /\ Clock' /\ Grows(sq, sq', X, SqNew) /\ sq' \in Seq(Sqe)
      /\ tm'.initiated = tm.initiated
      /\ tm.cancelled => tm'.cancelled
      /\ X \cap {"timer", "recv", "close", "send", "foreign"} = {}
      /\ last /\ tm.initiated => tm'.cancelled
      /\ last /\ rf.initiated => "cancelRecv" \in X
      /\ sending => "cancelSend" \in X
  <2>1. /\ last /\ tm.initiated => "removeTimer" \in X
        /\ last /\ rf.initiated => "cancelRecv" \in X
        /\ sending => "cancelSend" \in X
    BY <1>6 DEF Drops
  <2>2. UNCHANGED <<fr, rf, tc, work, held, armed, cq, hasFd>>
    BY <1>3
  <2>3. pc = "end" => pc' = "end"
    BY <1>3
  <2>4. Types /\ Clock /\ Drops(sending, last, X)
    BY <1>1, <1>6
  <2>5. /\ Clock' /\ Grows(sq, sq', X, SqNew) /\ sq' \in Seq(Sqe)
        /\ tm'.initiated = tm.initiated
        /\ tm.cancelled => tm'.cancelled
        /\ "removeTimer" \in X => tm'.cancelled
        /\ X \cap {"timer", "recv", "close", "send", "foreign"} = {}
    BY <2>2, <2>3, <2>4, DropsClock
  <2>6. QED BY <2>1, <2>5
<1>8. sq = <<>> /\ Len(sq) = 0 /\ \A op : InQueue(sq', op) <=> op \in X
  <2>1. sq = <<>> /\ Len(sq) = 0
    BY <1>1, <1>3 DEF Control
  <2>2. \A op : ~InQueue(sq, op)
    BY <2>1 DEF InQueue
  <2>3. \A op : InQueue(sq', op) <=> InQueue(sq, op) \/ op \in X
    BY <1>1, <1>7, GrowsFacts DEF Types
  <2>4. QED BY <2>1, <2>2, <2>3
<1>9. PICK n \in Nat : n = One(co[c] # "idle")
  BY DEF One
<1>10. /\ Shares(co') + (1 + n) = Shares(co) /\ Shares(co') \in Nat /\ Shares(co) \in Nat
      /\ Cardinality(Pending) \in Nat /\ Pending' = Pending
      /\ refs = Shares(co) + Cardinality(Pending)
  <2>1. Shares(co') + Weight(co[c]) = Shares(co) + Weight(co'[c])
    BY <1>1, <1>4, SharesChange
  <2>2. Weight(co[c]) = 1 + n /\ Weight(co'[c]) = 0
    BY <1>3, <1>4, <1>9 DEF Weight, One
  <2>3. Shares(co') \in Nat /\ Shares(co) \in Nat /\ Cardinality(Pending) \in Nat
    BY SharesFacts
  <2>4. Pending' = Pending
    BY <1>2, PendingFacts
  <2>5. refs = Shares(co) + Cardinality(Pending)
    BY <1>1, <1>3 DEF Exact
  <2>6. QED BY <1>9, <2>1, <2>2, <2>3, <2>4, <2>5
<1>11. Exact'
  <2>1. refs' = (refs - n) - 1
    BY <1>3, <1>9
  <2>2. refs' \in Nat /\ refs' = Shares(co') + Cardinality(Pending)
    BY <1>9, <1>10, <2>1
  <2>3. QED BY <1>10, <2>2 DEF Exact
<1>12. Slot'
  <2>1. "foreign" \notin X
    BY <1>7
  <2>2. QED BY <1>1, <1>3, <1>7, <2>1, SlotGrows
<1>13. SendGone'
  <2>1. "send" \in CallOps /\ "send" \in HeldOps /\ "send" \notin X
    BY <1>7 DEF CallOps, FrameOps, HeldOps
  <2>2. CASE sending
    BY <1>7, <1>8, <2>1, <2>2 DEF SendGone
  <2>3. CASE ~sending
    <3>1. CASE ~Waits("send")
      <4>1. ~Waits("send")'
        BY <1>2, <3>1
      <4>2. ~InQueue(sq', "send") /\ held'["send"] = "no"
        BY <1>2, <2>1, <4>1, NowhereThen
      <4>3. QED BY <4>2 DEF SendGone
    <3>2. CASE Waits("send")
      <4>1. co[c] # "send"
        BY <1>5, <2>3, <3>2 DEF Waits
      <4>2. CASE \E d \in Coros : co[d] = "send"
        BY <1>4, <4>1, <4>2 DEF SendGone
      <4>3. CASE ~\E d \in Coros : co[d] = "send"
        <5>1. held["send"] = "no"
          <6>1. ~InQueue(sq, "cancelSend")
            BY <1>8 DEF InQueue
          <6>2. QED BY <1>1, <4>3, <6>1 DEF SendGone
        <5>2. QED BY <1>3, <1>8, <2>1, <5>1 DEF SendGone
      <4>4. QED BY <4>2, <4>3
    <3>3. QED BY <3>1, <3>2
  <2>4. QED BY <2>2, <2>3
<1>14. NobodyLeft'
  <2>1. SUFFICES ASSUME AllGone'
        PROVE  /\ tm'.initiated => tm'.cancelled
               /\ held'["recv"] # "no" \/ InQueue(sq', "recv")
                    => Covered(sq', "recv", "cancelRecv")
               /\ pc' = "submit" /\ back' = "abort"
               /\ ~InQueue(sq', "close")
    BY DEF NobodyLeft
  <2>2. last
    <3>1. Shares(co') = 0
      BY <2>1, SharesFacts DEF AllGone
    <3>2. ActiveFrames = Cardinality(Pending)
      BY <1>1, FramesCounted
    <3>3. (refs - n) - ActiveFrames = 1
      <4> DEFINE k == Cardinality(Pending)
      <4>1. k \in Nat /\ refs = (1 + n) + k /\ ActiveFrames = k
        BY <1>9, <1>10, <3>1, <3>2
      <4> HIDE DEF k
      <4>2. QED BY <1>9, <4>1
    <3>4. QED BY <1>5, <1>9, <3>3 DEF LastHandle
  <2>3. tm'.initiated => tm'.cancelled
    BY <1>7, <2>2
  <2>4. held'["recv"] # "no" \/ InQueue(sq', "recv") => Covered(sq', "recv", "cancelRecv")
    <3>1. SUFFICES ASSUME held'["recv"] # "no" \/ InQueue(sq', "recv")
          PROVE  Covered(sq', "recv", "cancelRecv")
      OBVIOUS
    <3>2. "recv" \in CallOps /\ "recv" \in HeldOps /\ "recv" \notin X
      BY <1>7 DEF CallOps, HeldOps
    <3>3. Waits("recv")'
      BY <1>2, <3>1, <3>2, NowhereThen
    <3>4. rf.initiated
      BY <1>2, <3>3 DEF Waits, FrameOps
    <3>5. "cancelRecv" \in X
      BY <1>7, <2>2, <3>4
    <3>6. QED BY <1>1, <1>7, <3>2, <3>5, GrowsFacts DEF Types
  <2>5. ~InQueue(sq', "close")
    BY <1>7, <1>8
  <2>6. QED BY <1>5, <2>2, <2>3, <2>4, <2>5
<1>15. Leave'
  <2>1. pc' # "end"
    BY <1>3, <1>5
  <2>2. QED BY <1>13, <1>14, <2>1 DEF Leave
<1>16. QED BY <1>2, <1>7, <1>11, <1>12, <1>15 DEF IInv

\* What is left in the completion queue is released.
LEMMA FlushIInv ==
    ASSUME IInv, Flush
    PROVE  IInv'
<1>1. Calls /\ Types /\ Control /\ Exact /\ Clock /\ Slot /\ SendGone
      /\ NobodyLeft /\ FlightOf(CallOps) /\ FlightOf(ClockOps)
  <2>1. pc # "end"
    BY DEF Flush
  <2>2. QED BY <2>1 DEF IInv, Calls, Leave, Clock
<1>2. Calls' /\ \A p : Waits(p)' <=> Waits(p)
  BY <1>1, FlushCalls
<1>3. /\ pc = "abort" /\ AllGone /\ pc' = "end"
      /\ refs' = refs - Cardinality({cq[i].op : i \in 1..Len(cq)}) /\ cq' = <<>>
      /\ UNCHANGED <<fr, rf, tm, tc, hasFd, co, back, sq, work, file, held, armed>>
  BY DEF Flush, AllGone
<1> DEFINE D == {cq[i].op : i \in 1..Len(cq)}
<1>4. \A p \in Ops : Place(p)
  <2>1. Ops = CallOps \cup ClockOps
    BY DEF Ops, CallOps, ClockOps
  <2>2. QED BY <1>1, <2>1 DEF FlightOf
<1>5. \A p : p \in D <=> Final(cq, p) \/ Multi(cq, p)
  <2>1. \A p : p \in D <=> InQueue(cq, p)
    BY DEF InQueue
  <2>2. QED BY <2>1, EitherKind
<1>6. D \subseteq Pending
  <2>1. SUFFICES ASSUME NEW i \in 1..Len(cq) PROVE cq[i].op \in Pending
    OBVIOUS
  <2>2. cq[i].op \in Ops
    <3>1. cq[i] \in Cqe
      BY <1>1 DEF Types
    <3>2. QED BY <3>1 DEF Cqe, Ops
  <2>3. Final(cq, cq[i].op) \/ Multi(cq, cq[i].op)
    BY <1>5
  <2>4. QED BY <1>4, <2>2, <2>3 DEF Place, Pending
<1> HIDE DEF D
<1>7. /\ Cardinality(D) \in Nat /\ Cardinality(Pending) \in Nat
      /\ Cardinality(D) <= Cardinality(Pending)
  <2>1. IsFiniteSet(Pending) /\ Cardinality(Pending) \in Nat
    BY SharesFacts
  <2>2. IsFiniteSet(D)
    BY <1>6, <2>1, FS_Subset
  <2>3. Cardinality(D) <= Cardinality(Pending)
    BY <1>6, <2>1, FS_Subset
  <2>4. QED BY <2>1, <2>2, <2>3, FS_CardinalityType
<1>8. refs = Cardinality(Pending) /\ refs' = refs - Cardinality(D)
  <2>1. Shares(co) = 0
    BY <1>3, SharesFacts DEF AllGone
  <2>2. refs = Shares(co) + Cardinality(Pending)
    BY <1>1, <1>3 DEF Exact
  <2>3. refs' = refs - Cardinality(D)
    BY <1>3 DEF D
  <2>4. QED BY <1>7, <2>1, <2>2, <2>3
<1>9. Exact'
  <2>1. refs' \in Nat
    BY <1>7, <1>8
  <2>2. QED BY <1>3, <2>1 DEF Exact
<1>10. Clock'
  <2>1. Len(cq') = 0
    BY <1>3
  <2>2. /\ \A i \in 1..Len(cq') : OfTimer(cq'[i])
        /\ ~Multi(cq', "timer") /\ ~InQueue(cq', "close") /\ Precedes(cq', "timer", "close")
    BY <2>1 DEF Multi, InQueue, Precedes
  <2>3. /\ tm'.cancelled => /\ tm'.initiated
                            /\ armed' \/ InQueue(sq', "timer")
                                  => Covered(sq', "timer", "removeTimer")
        /\ Active(fr'["close"]) /\ tm'.initiated => tm'.cancelled
    BY <1>1, <1>3 DEF Clock
  <2>4. QED BY <1>3, <2>2, <2>3 DEF Clock
<1>11. Slot'
  BY <1>1, <1>3 DEF Slot
<1>12. SendGone'
  BY <1>1, <1>3 DEF SendGone
<1>13. NobodyLeft'
  <2>1. pc # "submit" /\ pc' # "submit"
    BY <1>3
  <2>2. QED BY <1>1, <1>3, <2>1 DEF NobodyLeft, AllGone
<1>14. held'["shutdown"] = "no" => refs' = 0
  <2>1. SUFFICES ASSUME held["shutdown"] = "no" PROVE Pending \subseteq D
    <3>1. held'["shutdown"] = "no" => Pending = D
      BY <1>3, <1>6, <2>1
    <3>2. QED BY <1>7, <1>8, <3>1
  <2>2. SUFFICES ASSUME NEW p \in Ops, Waits(p) PROVE Final(cq, p)
    BY <1>5 DEF Pending
  <2>3. sq = <<>> /\ work = <<>> /\ ~armed /\ \A op \in HeldOps : held[op] = "no"
    BY <1>1, <1>3, <2>1 DEF Control, NobodyLeft, HeldOps
  <2>4. ~InQueue(sq, p) /\ ~InQueue(work, p)
    <3>1. Len(sq) = 0 /\ Len(work) = 0
      BY <2>3
    <3>2. QED BY <3>1 DEF InQueue
  <2>5. QED BY <1>4, <2>2, <2>3, <2>4 DEF Place, Kept
<1>15. QED BY <1>2, <1>9, <1>10, <1>11, <1>12, <1>13, <1>14 DEF IInv, Leave

\* A coroutine is resumed.
LEMMA ResumeIInv ==
    ASSUME IInv, Resume
    PROVE  IInv'
<1>1. Calls /\ Types /\ Exact /\ Clock /\ Slot /\ SendGone /\ NobodyLeft /\ FlightOf(CallOps)
  <2>1. pc # "end"
    BY DEF Resume
  <2>2. QED BY <2>1 DEF IInv, Calls, Leave
<1>2. /\ Calls' /\ \A p : Waits(p)' <=> Waits(p)
      /\ \A O \in SUBSET Ops : FlightOf(O) => FlightOf(O)'
  BY <1>1, ResumeCalls
<1>3. /\ refs' = refs - 1 /\ pc = "user" /\ pc' = pc
      /\ UNCHANGED <<tm, tc, hasFd, back, sq, work, file, held, armed, cq>>
  BY DEF Resume, kernVars
<1>4. PICK c \in Coros :
        /\ co'[c] = "idle" /\ \A d \in Coros : d # c => co'[d] = co[d]
        /\ \/ co[c] \in FrameOps /\ fr[co[c]].done
           \/ co[c] = "recv"
  <2>1. Calls
    BY <1>1
  <2>2. QED BY <2>1, ResumeFacts
<1>5. Exact'
  <2>1. Shares(co') + Weight(co[c]) = Shares(co) + Weight(co'[c])
    BY <1>1, <1>4, SharesChange
  <2>2. Weight(co[c]) = 2 /\ Weight(co'[c]) = 1
    BY <1>4 DEF Weight, FrameOps
  <2>3. Shares(co') \in Nat /\ Shares(co) \in Nat /\ Cardinality(Pending) \in Nat
    BY SharesFacts
  <2>4. Pending' = Pending
    BY <1>2, PendingFacts
  <2>5. refs = Shares(co) + Cardinality(Pending)
    BY <1>1, <1>3 DEF Exact
  <2>6. refs' \in Nat /\ refs' = Shares(co') + Cardinality(Pending)
    BY <1>3, <2>1, <2>2, <2>3, <2>5
  <2>7. QED BY <2>4, <2>6 DEF Exact
<1>6. sq' \in Seq(Sqe) /\ Grows(sq, sq', {}, SqNew)
  BY <1>1, <1>3, GrowsNone DEF Types
<1>7. Clock'
  <2>1. "timer" \notin {} /\ hasFd' \in BOOLEAN
    BY <1>1, <1>3 DEF Types
  <2>2. Active(fr'["close"]) => Active(fr["close"])
    <3>1. Waits("close")' <=> Waits("close")
      BY <1>2
    <3>2. QED BY <3>1 DEF Waits, FrameOps
  <2>3. QED BY <1>1, <1>2, <1>3, <1>6, <2>1, <2>2, ClockGrows
<1>8. Slot'
  <2>1. "foreign" \notin {}
    OBVIOUS
  <2>2. QED BY <1>1, <1>3, <1>6, <2>1, SlotGrows
<1>9. SendGone'
  <2>1. CASE co[c] = "send"
    <3>1. ~Waits("send")
      BY <1>4, <2>1 DEF Waits, Active
    <3>2. FlightOf(CallOps)' /\ "send" \in CallOps /\ "send" \in HeldOps
      <4>1. CallOps \in SUBSET Ops /\ "send" \in CallOps /\ "send" \in HeldOps
        BY DEF CallOps, Ops, FrameOps, HeldOps
      <4>2. QED BY <1>1, <1>2, <4>1
    <3>3. ~Waits("send")'
      BY <1>2, <3>1
    <3>4. ~InQueue(sq', "send") /\ held'["send"] = "no"
      BY <3>2, <3>3, NowhereThen
    <3>5. QED BY <3>4 DEF SendGone
  <2>2. CASE co[c] # "send"
    BY <1>1, <1>3, <1>4, <2>2 DEF SendGone
  <2>3. QED BY <2>1, <2>2
<1>10. ~AllGone'
  BY <1>4 DEF AllGone
<1>11. Leave'
  BY <1>3, <1>9, <1>10 DEF Leave, NobodyLeft
<1>12. QED BY <1>2, <1>5, <1>7, <1>8, <1>11 DEF IInv

-----------------------------------------------------------------------------
(* The kernel, with the timer and the slot.                                *)

\* What the timer and a close say of each other.
LEMMA TimerPlaces ==
    ASSUME Clock, pc # "end"
    PROVE  /\ armed => tm.initiated /\ ~InQueue(cq, "close") /\ ~Final(cq, "timer")
           /\ InQueue(sq, "timer") => ~armed
           /\ Final(cq, "timer") \/ Multi(cq, "timer") => tm.initiated
           /\ tm.initiated => \/ InQueue(sq, "timer") \/ InQueue(work, "timer")
                              \/ Final(cq, "timer") \/ armed
           /\ Final(cq, "timerCancel") => tc
<1>1. Place("timer") /\ Place("timerCancel")
  BY DEF Clock, FlightOf, ClockOps
<1>2. (Waits("timer") <=> tm.initiated) /\ (Waits("timerCancel") <=> tc)
  BY DEF Waits, FrameOps
<1>3. Kept("timer") <=> armed
  BY DEF Kept, HeldOps
<1>4. InQueue(cq, "close") /\ tm.initiated => Final(cq, "timer")
  BY DEF Clock
<1>5. QED BY <1>1, <1>2, <1>3, <1>4 DEF Place

\* The kernel takes an SQE.
LEMMA TakesIInv ==
    ASSUME IInv, KernelTakes
    PROVE  IInv'
<1>1. Calls /\ Types /\ Exact /\ Clock /\ Slot /\ SendGone /\ NobodyLeft
  BY DEF IInv, Calls, Leave
<1>2. /\ pc = "submit" /\ sq # <<>> /\ sq' = Tail(sq)
      /\ UNCHANGED <<fr, rf, tm, tc, sendAge, refs, hasFd, co, handles, pc, back>>
  BY DEF KernelTakes, frameVars, loopVars
<1>3. Calls'
  BY <1>1, TakesCalls
<1>4. \A p : Waits(p)' <=> Waits(p)
  BY <1>2, WaitsSame
<1>5. Exact'
  BY <1>1, <1>2, <1>4, ExactSame
<1>6. Head(sq) \in Sqe /\ \E X : Taken(Head(sq), X)
  <2>1. Types
    BY <1>1
  <2>2. QED BY <2>1, TakesAny
<1>7. PICK o \in Sqe : o = Head(sq) /\ \E X : Taken(o, X)
  BY <1>6
<1>8. PICK X : Taken(o, X)
  BY <1>7
<1>9. /\ cq' \in Seq(Cqe) /\ Grows(cq, cq', X, CqNew)
      /\ armed' = (o.op = "timer" \/ (armed /\ o.op # "removeTimer"))
      /\ work' = IF o.op = "close" THEN Append(work, o) ELSE work
      /\ file' = IF o.op = "foreign" THEN "foreign" ELSE file
      /\ "timer" \in X <=> o.op = "removeTimer" /\ armed
      /\ "close" \notin X
  BY <1>8 DEF Taken
<1>10. /\ \A op \in HeldOps : o.op # op => held'[op] \in {"no", held[op]}
       /\ o.op = "cancelSend" => held'["send"] = "no"
       /\ o.op = "cancelRecv" => held'["recv"] = "no"
  BY <1>8 DEF Taken
<1>11. /\ sq' \in Seq(Sqe)
       /\ \A op : InQueue(sq, op) <=> InQueue(sq', op) \/ o.op = op
       /\ \A a, b : Covered(sq, a, b) =>
             Covered(sq', a, b) \/ (o.op = b /\ ~InQueue(sq, a))
       /\ \A i \in 1..Len(sq') : \E j \in 1..Len(sq) : sq'[i] = sq[j]
       /\ \E j \in 1..Len(sq) : o = sq[j]
  BY <1>1, <1>2, <1>7, TailFacts DEF Types
<1>12. /\ \A op : InQueue(cq', op) <=> InQueue(cq, op) \/ op \in X
       /\ \A a, b : /\ Precedes(cq, a, b)
                    /\ a \in X => ~InQueue(cq, b) /\ b \notin X
                    => Precedes(cq', a, b)
       /\ \A op : Final(cq', op) <=> Final(cq, op) \/ op \in X
       /\ \A op : Multi(cq', op) <=> Multi(cq, op)
  <2>1. cq \in Seq(Cqe) /\ cq' \in Seq(Cqe) /\ Grows(cq, cq', X, CqNew)
    BY <1>1, <1>9 DEF Types
  <2>2. QED BY <2>1, GrowsFacts, FinalFacts, LastOnes
<1>13. Clock'
  <2>1. FlightOf(ClockOps)'
    <3>1. ClockOps \in SUBSET Ops
      BY DEF ClockOps, Ops
    <3>2. FlightOf(ClockOps)
      BY <1>1, <1>2 DEF Clock
    <3>3. Types
      BY <1>1
    <3>4. QED BY <3>1, <3>2, <3>3, TakesFlight
  <2>2. \A i \in 1..Len(cq') : OfTimer(cq'[i])
    <3>1. SUFFICES ASSUME NEW i \in 1..Len(cq') PROVE OfTimer(cq'[i])
      OBVIOUS
    <3>2. CASE i \in 1..Len(cq)
      BY <1>1, <1>9, <3>2 DEF Grows, Clock
    <3>3. CASE i \notin 1..Len(cq)
      BY <1>9, <3>3 DEF Grows, CqNew
    <3>4. QED BY <3>2, <3>3
  <2>3. Multi(cq', "timer") => ~tc'
    BY <1>1, <1>2, <1>12 DEF Clock
  <2>4. tm'.cancelled => /\ tm'.initiated
                         /\ armed' \/ InQueue(sq', "timer")
                               => Covered(sq', "timer", "removeTimer")
    <3>1. tm.cancelled => /\ tm.initiated
                          /\ armed \/ InQueue(sq, "timer")
                                => Covered(sq, "timer", "removeTimer")
      BY <1>1 DEF Clock
    <3>2. armed' \/ InQueue(sq', "timer") => armed \/ InQueue(sq, "timer")
      BY <1>9, <1>11
    <3>3. o.op = "removeTimer" /\ ~InQueue(sq, "timer")
              => ~armed' /\ ~InQueue(sq', "timer")
      BY <1>9, <1>11
    <3>4. QED BY <1>2, <1>11, <3>1, <3>2, <3>3
  <2>5. Active(fr'["close"]) /\ tm'.initiated => tm'.cancelled
    BY <1>1, <1>2 DEF Clock
  <2>6. InQueue(cq', "close") /\ tm'.initiated => Final(cq', "timer")
    BY <1>1, <1>2, <1>9, <1>12 DEF Clock
  <2>7. Precedes(cq', "timer", "close")
    <3>1. "timer" \in X => ~InQueue(cq, "close")
      BY <1>1, <1>2, <1>9, TimerPlaces
    <3>2. Precedes(cq, "timer", "close")
      BY <1>1 DEF Clock
    <3>3. QED BY <1>9, <1>12, <3>1, <3>2
  <2>8. ~hasFd' /\ pc' # "end" => ~tm'.initiated
    BY <1>1, <1>2 DEF Clock
  <2>9. QED BY <2>1, <2>2, <2>3, <2>4, <2>5, <2>6, <2>7, <2>8 DEF Clock
<1>14. Slot'
  <2>1. \A O : Named(sq', O) => Named(sq, O)
    BY <1>11 DEF Named
  <2>2. Named(work', {"close"}) => Named(work, {"close"}) \/ Named(sq, {"close"})
    <3>1. CASE o.op # "close"
      BY <1>9, <3>1
    <3>2. CASE o.op = "close"
      <4>1. work' = Append(work, o) /\ work \in Seq(Sqe)
        BY <1>1, <1>9, <3>2 DEF Types
      <4>2. \A i \in 1..Len(work') : (i \in 1..Len(work) /\ work'[i] = work[i]) \/ work'[i] = o
        BY <4>1, Entries
      <4>3. o.fd => Named(sq, {"close"})
        BY <1>11, <3>2 DEF Named
      <4>4. QED BY <4>2, <4>3 DEF Named
    <3>3. QED BY <3>1, <3>2
  <2>3. InTime(sq')
    <3>1. sq \in Seq(Sqe) /\ sq # <<>> /\ sq' = Tail(sq)
      BY <1>1, <1>2 DEF Types
    <3>2. \A i \in 1..Len(sq') : i \in Nat /\ i + 1 \in 1..Len(sq) /\ sq'[i] = sq[i + 1]
      BY <3>1, TailEntries
    <3>3. SUFFICES ASSUME NEW i \in 1..Len(sq'), NEW j \in 1..Len(sq'),
                          sq'[i].op \in SlotOps, sq'[i].fd, sq'[j].op = "foreign"
                   PROVE  i < j
      BY DEF InTime
    <3>4. i + 1 < j + 1
      BY <1>1, <3>2, <3>3 DEF Slot, InTime
    <3>5. QED BY <3>2, <3>4
  <2>4. file' = "foreign" => ~Named(sq', SlotOps)
    <3>1. CASE o.op = "foreign"
      <4>1. SUFFICES ASSUME NEW i \in 1..Len(sq'), sq'[i].op \in SlotOps, sq'[i].fd
                     PROVE  FALSE
        BY DEF Named
      <4>2. /\ sq \in Seq(Sqe) /\ sq # <<>> /\ 1 \in 1..Len(sq) /\ sq[1] = o
            /\ i \in Nat /\ i + 1 \in 1..Len(sq) /\ sq'[i] = sq[i + 1] /\ i # 0
        BY <1>1, <1>2, <1>7, TailEntries DEF Types
      <4>3. i + 1 < 1
        BY <1>1, <3>1, <4>1, <4>2 DEF Slot, InTime
      <4>4. QED BY <4>2, <4>3
    <3>2. CASE o.op # "foreign"
      BY <1>1, <1>9, <2>1, <3>2 DEF Slot
    <3>3. QED BY <3>1, <3>2
  <2>5. InQueue(sq', "foreign") \/ file' = "foreign" => ~hasFd'
    BY <1>1, <1>2, <1>9, <1>11 DEF Slot
  <2>6. Named(sq', {"close"}) \/ Named(work', {"close"}) => hasFd'
    BY <1>1, <1>2, <2>1, <2>2 DEF Slot
  <2>7. QED BY <2>3, <2>4, <2>5, <2>6 DEF Slot
<1>15. SendGone'
  <2>1. CASE \E c \in Coros : co[c] = "send"
    BY <1>2, <2>1 DEF SendGone
  <2>2. CASE ~\E c \in Coros : co[c] = "send"
    <3>1. ~InQueue(sq, "send") /\ (held["send"] # "no" => InQueue(sq, "cancelSend"))
      BY <1>1, <2>2 DEF SendGone
    <3>2. ~InQueue(sq', "send") /\ o.op # "send"
      BY <1>11, <3>1
    <3>3. held'["send"] # "no" => held["send"] # "no" /\ o.op # "cancelSend"
      BY <1>10, <3>2 DEF HeldOps
    <3>4. held'["send"] # "no" => InQueue(sq', "cancelSend")
      BY <1>11, <3>1, <3>3
    <3>5. QED BY <3>2, <3>4 DEF SendGone
  <2>3. QED BY <2>1, <2>2
<1>16. NobodyLeft'
  <2>1. SUFFICES ASSUME AllGone', AllGone
        PROVE  /\ tm'.initiated => tm'.cancelled
               /\ held'["recv"] # "no" \/ InQueue(sq', "recv")
                    => Covered(sq', "recv", "cancelRecv")
               /\ pc' = "submit"
               /\ ~InQueue(sq', "close")
               /\ work' = <<>> \/ (pc' = "submit" /\ back' = "abort")
    BY <1>2 DEF NobodyLeft, AllGone
  <2>2. tm'.initiated => tm'.cancelled
    BY <1>1, <1>2, <2>1 DEF NobodyLeft
  <2>3. held'["recv"] # "no" \/ InQueue(sq', "recv") => Covered(sq', "recv", "cancelRecv")
    <3>1. SUFFICES ASSUME held'["recv"] # "no" \/ InQueue(sq', "recv")
                   PROVE  Covered(sq', "recv", "cancelRecv")
      OBVIOUS
    <3>2. held["recv"] # "no" \/ InQueue(sq, "recv")
      BY <1>10, <1>11, <3>1 DEF HeldOps
    <3>3. Covered(sq, "recv", "cancelRecv")
      BY <1>1, <2>1, <3>2 DEF NobodyLeft
    <3>4. ~(o.op = "cancelRecv" /\ ~InQueue(sq, "recv"))
      BY <1>10, <1>11, <3>1
    <3>5. QED BY <1>11, <3>3, <3>4
  <2>4. ~InQueue(sq', "close") /\ o.op # "close"
    BY <1>1, <1>11, <2>1 DEF NobodyLeft
  <2>5. work' = <<>> \/ (pc' = "submit" /\ back' = "abort")
    BY <1>1, <1>2, <1>9, <2>1, <2>4 DEF NobodyLeft
  <2>6. QED BY <1>2, <2>2, <2>3, <2>4, <2>5
<1>17. Leave'
  <2>1. pc' # "end"
    BY <1>2
  <2>2. QED BY <1>15, <1>16, <2>1 DEF Leave
<1>18. QED BY <1>3, <1>5, <1>13, <1>14, <1>17 DEF IInv

\* The close of a chain is done.
LEMMA WorksIInv ==
    ASSUME IInv, KernelWorks
    PROVE  IInv'
<1>1. Calls /\ Types /\ Control /\ Exact /\ Clock /\ Slot /\ SendGone /\ NobodyLeft
      /\ FlightOf(CallOps)
  <2>1. pc # "end"
    BY DEF KernelWorks
  <2>2. QED BY <2>1 DEF IInv, Calls, Leave
<1>2. /\ pc = "submit" /\ sq = <<>> /\ work # <<>>
      /\ UNCHANGED <<fr, rf, tm, tc, sendAge, refs, hasFd, co, handles, pc, back, sq, armed>>
  BY DEF KernelWorks, frameVars, loopVars
<1>3. Calls'
  BY <1>1, WorksCalls
<1>4. \A p : Waits(p)' <=> Waits(p)
  BY <1>2, WaitsSame
<1>5. Exact'
  BY <1>1, <1>2, <1>4, ExactSame
<1>6. /\ cq' \in Seq(Cqe) /\ Grows(cq, cq', {"close"}, CqNew)
      /\ \A op \in HeldOps : held'[op] = "no" <=> held[op] = "no"
      /\ file' \in {file, "empty"}
      /\ work' = Tail(work) /\ work' \in Seq(Sqe)
      /\ Head(work).op = "close"
  BY <1>1, WorksFacts
<1>7. /\ \A op : InQueue(cq', op) <=> InQueue(cq, op) \/ op = "close"
      /\ Precedes(cq, "timer", "close") => Precedes(cq', "timer", "close")
      /\ \A op : Final(cq', op) <=> Final(cq, op) \/ op = "close"
      /\ \A op : Multi(cq', op) <=> Multi(cq, op)
  <2>1. cq \in Seq(Cqe)
    BY <1>1 DEF Types
  <2>2. "timer" \notin {"close"}
    OBVIOUS
  <2>3. QED BY <1>6, <2>1, <2>2, GrowsFacts, FinalFacts, LastOnes
<1>8. /\ \A op : InQueue(work, op) <=> InQueue(work', op) \/ Head(work).op = op
      /\ \A i \in 1..Len(work') : \E j \in 1..Len(work) : work'[i] = work[j]
  BY <1>1, <1>2, <1>6, TailFacts DEF Types
<1>9. Len(sq) = 0
  BY <1>2
<1>10. Clock'
  <2>1. FlightOf(ClockOps)'
    <3>1. ClockOps \in SUBSET Ops
      BY DEF ClockOps, Ops
    <3>2. FlightOf(ClockOps)
      BY <1>1, <1>2 DEF Clock
    <3>3. QED BY <1>1, <3>1, <3>2, WorksFlight
  <2>2. \A i \in 1..Len(cq') : OfTimer(cq'[i])
    <3>1. SUFFICES ASSUME NEW i \in 1..Len(cq') PROVE OfTimer(cq'[i])
      OBVIOUS
    <3>2. CASE i \in 1..Len(cq)
      BY <1>1, <1>6, <3>2 DEF Grows, Clock
    <3>3. CASE i \notin 1..Len(cq)
      BY <1>6, <3>3 DEF Grows, CqNew
    <3>4. QED BY <3>2, <3>3
  <2>3. Multi(cq', "timer") => ~tc'
    BY <1>1, <1>2, <1>7 DEF Clock
  <2>4. tm'.cancelled => /\ tm'.initiated
                         /\ armed' \/ InQueue(sq', "timer")
                               => Covered(sq', "timer", "removeTimer")
    BY <1>1, <1>2 DEF Clock
  <2>5. Active(fr'["close"]) /\ tm'.initiated => tm'.cancelled
    BY <1>1, <1>2 DEF Clock
  <2>6. tm.initiated => Final(cq, "timer")
    <3>1. SUFFICES ASSUME tm.initiated PROVE Final(cq, "timer")
      OBVIOUS
    <3>2. InQueue(work, "close")
      BY <1>6, <1>8
    <3>3. Active(fr["close"])
      <4>1. Place("close")
        BY <1>1 DEF FlightOf, CallOps, FrameOps
      <4>2. QED BY <3>2, <4>1 DEF Place, Waits
    <3>4. tm.cancelled
      BY <1>1, <3>1, <3>3 DEF Clock
    <3>5. ~InQueue(sq, "timer") /\ ~Covered(sq, "timer", "removeTimer")
      BY <1>9 DEF InQueue, Covered
    <3>6. ~armed
      BY <1>1, <3>4, <3>5 DEF Clock
    <3>7. ~InQueue(work, "timer")
      BY <1>1 DEF Control, InQueue
    <3>8. QED BY <1>1, <1>2, <3>1, <3>5, <3>6, <3>7, TimerPlaces
  <2>7. InQueue(cq', "close") /\ tm'.initiated => Final(cq', "timer")
    BY <1>2, <1>7, <2>6
  <2>8. Precedes(cq', "timer", "close")
    BY <1>1, <1>7 DEF Clock
  <2>9. ~hasFd' /\ pc' # "end" => ~tm'.initiated
    BY <1>1, <1>2 DEF Clock
  <2>10. QED BY <2>1, <2>2, <2>3, <2>4, <2>5, <2>7, <2>8, <2>9 DEF Clock
<1>11. Slot'
  <2>1. Named(work', {"close"}) => Named(work, {"close"})
    BY <1>8 DEF Named
  <2>2. file' = "foreign" => file = "foreign"
    BY <1>6
  <2>3. QED BY <1>1, <1>2, <2>1, <2>2 DEF Slot
<1>12. SendGone'
  <2>1. "send" \in HeldOps
    BY DEF HeldOps
  <2>2. QED BY <1>1, <1>2, <1>6, <2>1 DEF SendGone
<1>13. NobodyLeft'
  <2>1. SUFFICES ASSUME AllGone', AllGone
        PROVE  /\ tm'.initiated => tm'.cancelled
               /\ held'["recv"] # "no" \/ InQueue(sq', "recv")
                    => Covered(sq', "recv", "cancelRecv")
               /\ pc' = "submit"
               /\ ~InQueue(sq', "close")
               /\ work' = <<>> \/ (pc' = "submit" /\ back' = "abort")
    BY <1>2 DEF NobodyLeft, AllGone
  <2>2. "recv" \in HeldOps
    BY DEF HeldOps
  <2>3. QED BY <1>1, <1>2, <1>6, <2>1, <2>2 DEF NobodyLeft
<1>14. Leave'
  <2>1. pc' # "end"
    BY <1>2
  <2>2. QED BY <1>12, <1>13, <2>1 DEF Leave
<1>15. QED BY <1>3, <1>5, <1>10, <1>11, <1>14 DEF IInv

\* Steps that complete something and leave all but the kernel's part alone.
LEMMA CompletesRest ==
    ASSUME IInv, pc = "submit",
           UNCHANGED <<fr, rf, tm, tc, sendAge, refs, hasFd, co, handles, pc, back, sq, work,
                       file>>,
           \A op \in HeldOps : held'[op] # "no" => held[op] # "no"
    PROVE  Exact' /\ Slot' /\ Leave'
<1>1. Exact /\ Slot /\ SendGone /\ NobodyLeft
  BY DEF IInv, Leave
<1>2. \A p : Waits(p)' <=> Waits(p)
  BY WaitsSame
<1>3. Exact'
  BY <1>1, <1>2, ExactSame
<1>4. Slot'
  BY <1>1 DEF Slot
<1>5. "send" \in HeldOps /\ "recv" \in HeldOps
  BY DEF HeldOps
<1>6. SendGone'
  BY <1>1, <1>5 DEF SendGone
<1>7. NobodyLeft'
  BY <1>1, <1>5 DEF NobodyLeft, AllGone
<1>8. pc' # "end"
  OBVIOUS
<1>9. QED BY <1>3, <1>4, <1>6, <1>7, <1>8 DEF Leave

\* The peer or a worker completes an operation.
LEMMA CompletesIInv ==
    ASSUME IInv, NEW op \in HeldOps, KernelCompletes(op)
    PROVE  IInv'
<1>1. Calls /\ Types /\ Clock
  BY DEF IInv, Calls
<1>2. /\ pc = "submit"
      /\ UNCHANGED <<fr, rf, tm, tc, sendAge, refs, hasFd, co, handles, pc, back, sq, work,
                     file, armed>>
  BY DEF KernelCompletes, frameVars, loopVars
<1>3. Calls'
  BY <1>1, CompletesCalls
<1>4. /\ cq' \in Seq(Cqe)
      /\ \/ /\ Grows(cq, cq', {op}, CqNew)
            /\ held' = [held EXCEPT ![op] = "no"]
         \/ /\ op = "recv" /\ held' = held
            /\ \E x \in Cqe : /\ x.op = "recv" /\ x.more /\ x.res = "ok"
                              /\ cq' = Append(cq, x)
  BY <1>1, CompletesFacts
<1>5. op # "timer" /\ op # "close" /\ cq \in Seq(Cqe)
  BY <1>1 DEF HeldOps, Types
<1>6. /\ \A p \in {"timer", "close"} : InQueue(cq', p) <=> InQueue(cq, p)
      /\ Precedes(cq, "timer", "close") => Precedes(cq', "timer", "close")
      /\ Final(cq', "timer") <=> Final(cq, "timer")
      /\ Multi(cq', "timer") <=> Multi(cq, "timer")
      /\ \A i \in 1..Len(cq') : OfTimer(cq'[i])
  <2>1. CASE Grows(cq, cq', {op}, CqNew)
    <3>1. "timer" \notin {op} /\ "close" \notin {op}
      BY <1>5
    <3>2. /\ \A p \in {"timer", "close"} : InQueue(cq', p) <=> InQueue(cq, p)
          /\ Precedes(cq, "timer", "close") => Precedes(cq', "timer", "close")
      BY <1>4, <1>5, <2>1, <3>1, GrowsFacts
    <3>3. /\ Final(cq', "timer") <=> Final(cq, "timer")
          /\ Multi(cq', "timer") <=> Multi(cq, "timer")
      BY <1>4, <1>5, <2>1, <3>1, FinalFacts, LastOnes
    <3>4. \A i \in 1..Len(cq') : OfTimer(cq'[i])
      <4>1. SUFFICES ASSUME NEW i \in 1..Len(cq') PROVE OfTimer(cq'[i])
        OBVIOUS
      <4>2. CASE i \in 1..Len(cq)
        BY <1>1, <2>1, <4>2 DEF Grows, Clock
      <4>3. CASE i \notin 1..Len(cq)
        BY <2>1, <4>3 DEF Grows, CqNew
      <4>4. QED BY <4>2, <4>3
    <3>5. QED BY <3>2, <3>3, <3>4
  <2>2. ASSUME NEW x \in Cqe, x.op = "recv", x.more, cq' = Append(cq, x)
        PROVE  /\ \A p \in {"timer", "close"} : InQueue(cq', p) <=> InQueue(cq, p)
               /\ Precedes(cq, "timer", "close") => Precedes(cq', "timer", "close")
               /\ Final(cq', "timer") <=> Final(cq, "timer")
               /\ Multi(cq', "timer") <=> Multi(cq, "timer")
               /\ \A i \in 1..Len(cq') : OfTimer(cq'[i])
    <3>1. /\ Grows(cq, cq', {"recv"}, {x})
          /\ \A p : Final(cq', p) <=> Final(cq, p)
          /\ \A p : Multi(cq', p) <=> Multi(cq, p) \/ p = "recv"
      <4>1. /\ Grows(cq, cq', {x.op}, {x})
            /\ \A p : Final(cq', p) <=> Final(cq, p)
            /\ \A p : Multi(cq', p) <=> Multi(cq, p) \/ p = x.op
        BY <1>5, <2>2, MoreFacts
      <4>2. QED BY <2>2, <4>1
    <3>2. "timer" \notin {"recv"} /\ "close" \notin {"recv"}
      OBVIOUS
    <3>3. /\ \A p \in {"timer", "close"} : InQueue(cq', p) <=> InQueue(cq, p)
          /\ Precedes(cq, "timer", "close") => Precedes(cq', "timer", "close")
      BY <1>4, <1>5, <3>1, <3>2, GrowsFacts
    <3>4. \A i \in 1..Len(cq') : OfTimer(cq'[i])
      <4>1. SUFFICES ASSUME NEW i \in 1..Len(cq') PROVE OfTimer(cq'[i])
        OBVIOUS
      <4>2. CASE i \in 1..Len(cq)
        BY <1>1, <3>1, <4>2 DEF Grows, Clock
      <4>3. CASE i \notin 1..Len(cq)
        <5>1. cq'[i] = x
          BY <3>1, <4>3 DEF Grows
        <5>2. QED BY <2>2, <5>1 DEF OfTimer
      <4>4. QED BY <4>2, <4>3
    <3>5. QED BY <3>1, <3>3, <3>4
  <2>3. QED BY <1>4, <2>1, <2>2
<1>7. Clock'
  <2>1. FlightOf(ClockOps)'
    <3>1. ClockOps \in SUBSET Ops
      BY DEF ClockOps, Ops
    <3>2. FlightOf(ClockOps)
      BY <1>1, <1>2 DEF Clock
    <3>3. QED BY <1>1, <3>1, <3>2, CompletesFlight
  <2>2. Multi(cq', "timer") => ~tc'
    BY <1>1, <1>2, <1>6 DEF Clock
  <2>3. /\ tm'.cancelled => /\ tm'.initiated
                            /\ armed' \/ InQueue(sq', "timer")
                                  => Covered(sq', "timer", "removeTimer")
        /\ Active(fr'["close"]) /\ tm'.initiated => tm'.cancelled
        /\ ~hasFd' /\ pc' # "end" => ~tm'.initiated
    BY <1>1, <1>2 DEF Clock
  <2>4. InQueue(cq', "close") /\ tm'.initiated => Final(cq', "timer")
    BY <1>1, <1>2, <1>6 DEF Clock
  <2>5. Precedes(cq', "timer", "close")
    BY <1>1, <1>6 DEF Clock
  <2>6. QED BY <1>6, <2>1, <2>2, <2>3, <2>4, <2>5 DEF Clock
<1>8. Exact' /\ Slot' /\ Leave'
  <2>1. \A p \in HeldOps : held'[p] # "no" => held[p] # "no"
    BY <1>1, <1>4 DEF Types
  <2>2. QED BY <1>2, <2>1, CompletesRest
<1>9. QED BY <1>3, <1>7, <1>8 DEF IInv

\* The timer expires when the last expiry has been dealt with.
LEMMA ExpireIInv ==
    ASSUME Uses = {}, IInv, Expire
    PROVE  IInv'
<1>1. Calls /\ Types /\ Clock
  BY DEF IInv, Calls
<1>2. /\ pc = "submit"
      /\ UNCHANGED <<fr, rf, tm, tc, sendAge, refs, hasFd, co, handles, pc, back, sq, work,
                     file, held>>
  BY DEF Expire, frameVars, loopVars
<1>3. Calls'
  BY <1>1, ExpireCalls
<1>4. PICK x \in Cqe :
        /\ x.op = "timer" /\ x.res = "ETIME" /\ cq' = Append(cq, x)
        /\ cq' \in Seq(Cqe) /\ armed /\ armed' = x.more
        /\ x.more /\ ~InQueue(cq, "timer") /\ ~tc
  BY <1>1, ExpireFacts
<1>5. cq \in Seq(Cqe) /\ Grows(cq, cq', {"timer"}, {x})
  <2>1. cq \in Seq(Cqe) /\ Grows(cq, cq', {x.op}, {x})
    BY <1>1, <1>4, MoreFacts DEF Types
  <2>2. QED BY <1>4, <2>1
<1>6. tm.initiated /\ ~InQueue(cq, "close")
  BY <1>1, <1>2, <1>4, TimerPlaces
<1>7. /\ \A p : InQueue(cq', p) <=> InQueue(cq, p) \/ p = "timer"
      /\ Precedes(cq, "timer", "close") => Precedes(cq', "timer", "close")
  <2>1. "timer" \in {"timer"} => ~InQueue(cq, "close") /\ "close" \notin {"timer"}
    BY <1>6
  <2>2. QED BY <1>4, <1>5, <2>1, GrowsFacts
<1>8. Clock'
  <2>1. FlightOf(ClockOps)'
    <3>1. ClockOps \in SUBSET Ops
      BY DEF ClockOps, Ops
    <3>2. FlightOf(ClockOps)
      BY <1>1, <1>2 DEF Clock
    <3>3. QED BY <1>1, <3>1, <3>2, ExpireFlight
  <2>2. \A i \in 1..Len(cq') : OfTimer(cq'[i])
    <3>1. SUFFICES ASSUME NEW i \in 1..Len(cq') PROVE OfTimer(cq'[i])
      OBVIOUS
    <3>2. CASE i \in 1..Len(cq)
      BY <1>1, <1>5, <3>2 DEF Grows, Clock
    <3>3. CASE i \notin 1..Len(cq)
      <4>1. cq'[i] = x
        BY <1>5, <3>3 DEF Grows
      <4>2. QED BY <1>4, <4>1 DEF OfTimer
    <3>4. QED BY <3>2, <3>3
  <2>3. ~tc'
    BY <1>2, <1>4
  <2>4. /\ tm'.cancelled => /\ tm'.initiated
                            /\ armed' \/ InQueue(sq', "timer")
                                  => Covered(sq', "timer", "removeTimer")
        /\ Active(fr'["close"]) /\ tm'.initiated => tm'.cancelled
        /\ ~hasFd' /\ pc' # "end" => ~tm'.initiated
    BY <1>1, <1>2, <1>4 DEF Clock
  <2>5. ~InQueue(cq', "close")
    BY <1>6, <1>7
  <2>6. Precedes(cq', "timer", "close")
    BY <1>1, <1>7 DEF Clock
  <2>7. QED BY <2>1, <2>2, <2>3, <2>4, <2>5, <2>6 DEF Clock
<1>9. Exact' /\ Slot' /\ Leave'
  BY <1>2, CompletesRest
<1>10. QED BY <1>3, <1>8, <1>9 DEF IInv

-----------------------------------------------------------------------------
(* Completions, with the timer and the slot.                               *)

\* What the timer's part of the queue loses with its head.
LEMMA ReapClock ==
    ASSUME Types, Frames, Clock, Reap
    PROVE  \E e \in Cqe :
             /\ e = Head(cq) /\ Plain(e) /\ OfTimer(e)
             /\ ~e.more => Final(cq, e.op)
             /\ e.more => Multi(cq, e.op)
             /\ \/ ProcessFrame(e) \/ ProcessClose(e) \/ ProcessRecv(e)
                \/ ProcessTimerCancel(e) \/ ProcessRemoved(e) \/ ProcessExpired(e)
             /\ pc = "reap"
             /\ UNCHANGED <<co, pc, back, work, file, held, armed, adjusts>>
             /\ \A i \in 1..Len(cq') : OfTimer(cq'[i])
             /\ Multi(cq', "timer") => Multi(cq, "timer") /\ e.op # "timer"
             /\ (e.op # "timer" \/ e.more) /\ Final(cq, "timer") => Final(cq', "timer")
             /\ Precedes(cq', "timer", "close")
             /\ InQueue(cq', "close") => InQueue(cq, "close")
             /\ e.op = "close" => ~tm.initiated
<1>1. PICK e \in Cqe :
        /\ e = Head(cq) /\ Plain(e) /\ cq # <<>> /\ cq' = Tail(cq) /\ cq' \in Seq(Cqe)
        /\ ~e.more => Final(cq, e.op)
        /\ e.more => Multi(cq, e.op)
        /\ \A i \in 1..Len(cq') : \E j \in 1..Len(cq) : cq'[i] = cq[j]
        /\ \E j \in 1..Len(cq) : e = cq[j]
        /\ \/ ProcessFrame(e) \/ ProcessClose(e) \/ ProcessRecv(e)
           \/ ProcessTimerCancel(e) \/ ProcessRemoved(e) \/ ProcessExpired(e)
        /\ UNCHANGED <<co, pc, back, work, file, held, armed, adjusts>>
        /\ pc = "reap"
  BY ReapHead
<1>2. /\ \A i \in 1..Len(cq) : OfTimer(cq[i])
      /\ Precedes(cq, "timer", "close")
      /\ InQueue(cq, "close") /\ tm.initiated => Final(cq, "timer")
      /\ FlightOf(ClockOps)
  BY <1>1 DEF Clock
<1>3. cq \in Seq(Cqe)
  BY DEF Types
<1>4. /\ \A op : Final(cq, op) <=> Final(cq', op) \/ (e.op = op /\ ~e.more)
      /\ \A op : Multi(cq, op) <=> Multi(cq', op) \/ (e.op = op /\ e.more)
      /\ \A O : Pairs(cq, O) => (e.op \in O => ~Multi(cq', e.op))
      /\ \A op : InQueue(cq, op) <=> Final(cq, op) \/ Multi(cq, op)
  BY <1>1, <1>3, TailFinal
<1>5. /\ \A op : InQueue(cq, op) <=> InQueue(cq', op) \/ e.op = op
      /\ \A a, b : Precedes(cq, a, b) => /\ Precedes(cq', a, b)
                                         /\ e.op = b => ~InQueue(cq, a)
  BY <1>1, <1>3, TailFacts
<1>6. OfTimer(e) /\ \A i \in 1..Len(cq') : OfTimer(cq'[i])
  BY <1>1, <1>2
<1>7. Multi(cq', "timer") => Multi(cq, "timer") /\ e.op # "timer"
  <2>1. Pairs(cq, ClockOps) /\ "timer" \in ClockOps
    BY <1>2 DEF FlightOf, ClockOps
  <2>2. QED BY <1>4, <2>1
<1>8. e.op = "close" => ~tm.initiated
  BY <1>2, <1>4, <1>5
<1>9. QED BY <1>1, <1>2, <1>4, <1>5, <1>6, <1>7, <1>8

\* The frame of a send, a shutdown, a cancel or a close.
LEMMA FrameDoneIInv ==
    ASSUME IInv, Reap, NEW e \in Cqe, e = Head(cq), ProcessFrame(e) \/ ProcessClose(e)
    PROVE  IInv'
<1>1. Calls /\ Types /\ Frames /\ Exact /\ Clock /\ Slot /\ SendGone /\ NobodyLeft
      /\ FlightOf(CallOps)
  <2>1. pc # "end"
    BY DEF Reap
  <2>2. QED BY <2>1 DEF IInv, Calls, Leave
<1>2. /\ Calls'
      /\ \A O \in SUBSET Ops : FlightOf(O) => FlightOf(O)'
      /\ e.op \in FrameOps /\ ~e.more /\ Waits(e.op)
      /\ \A p \in Ops : Waits(p)' <=> Waits(p) /\ p # e.op
  BY <1>1, FrameDoneCalls
<1>3. /\ pc = "reap"
      /\ UNCHANGED <<co, pc, back, work, file, held, armed, adjusts>>
      /\ Final(cq, e.op)
      /\ \A i \in 1..Len(cq') : OfTimer(cq'[i])
      /\ Multi(cq', "timer") => Multi(cq, "timer")
      /\ e.op # "timer" /\ Final(cq, "timer") => Final(cq', "timer")
      /\ Precedes(cq', "timer", "close")
      /\ InQueue(cq', "close") => InQueue(cq, "close")
      /\ e.op = "close" => ~tm.initiated
  BY <1>1, <1>2, ReapClock
<1>4. /\ refs' = refs - 1 /\ UNCHANGED <<rf, tm, tc, sq>>
      /\ hasFd' = hasFd \/ (hasFd' = FALSE /\ e.op = "close")
  BY DEF ProcessFrame, ProcessClose
<1>5. Exact'
  <2>1. e.op \in Ops
    BY <1>2 DEF Ops
  <2>2. Cardinality(Pending) = Cardinality(Pending') + 1
    BY <1>2, <2>1, PendingFacts
  <2>3. IsFiniteSet(Pending') /\ Cardinality(Pending') \in Nat
    <3>1. Pending' \subseteq Pending
      BY <1>2 DEF Pending
    <3>2. QED BY <3>1, SharesFacts, FS_Subset, FS_CardinalityType
  <2>4. refs = Shares(co) + Cardinality(Pending) /\ Shares(co) \in Nat
    BY <1>1, <1>3, SharesFacts DEF Exact
  <2>5. refs' \in Nat /\ refs' = Shares(co) + Cardinality(Pending')
    BY <1>4, <2>2, <2>3, <2>4
  <2>6. QED BY <1>3, <2>5 DEF Exact
<1>6. Clock'
  <2>1. FlightOf(ClockOps)'
    <3>1. ClockOps \in SUBSET Ops
      BY DEF ClockOps, Ops
    <3>2. FlightOf(ClockOps)
      BY <1>1, <1>3 DEF Clock
    <3>3. QED BY <1>2, <3>1, <3>2
  <2>2. Multi(cq', "timer") => ~tc'
    BY <1>1, <1>3, <1>4 DEF Clock
  <2>3. tm'.cancelled => /\ tm'.initiated
                         /\ armed' \/ InQueue(sq', "timer")
                               => Covered(sq', "timer", "removeTimer")
    BY <1>1, <1>3, <1>4 DEF Clock
  <2>4. Active(fr'["close"]) /\ tm'.initiated => tm'.cancelled
    <3>1. Waits("close")' => Waits("close")
      BY <1>2 DEF Ops, FrameOps
    <3>2. Active(fr'["close"]) => Active(fr["close"])
      BY <3>1 DEF Waits, FrameOps
    <3>3. QED BY <1>1, <1>4, <3>2 DEF Clock
  <2>5. InQueue(cq', "close") /\ tm'.initiated => Final(cq', "timer")
    <3>1. e.op # "timer"
      BY <1>2 DEF FrameOps
    <3>2. QED BY <1>1, <1>3, <1>4, <3>1 DEF Clock
  <2>6. ~hasFd' /\ pc' # "end" => ~tm'.initiated
    BY <1>1, <1>3, <1>4 DEF Clock
  <2>7. QED BY <1>3, <2>1, <2>2, <2>3, <2>4, <2>5, <2>6 DEF Clock
<1>7. Slot'
  <2>1. CASE hasFd' = hasFd
    BY <1>1, <1>3, <1>4, <2>1 DEF Slot
  <2>2. CASE hasFd' = FALSE /\ e.op = "close"
    <3>1. Place("close")
      BY <1>1 DEF FlightOf, CallOps, FrameOps
    <3>2. ~InQueue(sq, "close") /\ ~InQueue(work, "close")
      BY <1>3, <2>2, <3>1 DEF Place
    <3>3. ~Named(sq, {"close"}) /\ ~Named(work, {"close"})
      BY <3>2 DEF Named, InQueue
    <3>4. QED BY <1>1, <1>3, <1>4, <2>2, <3>3 DEF Slot
  <2>3. QED BY <1>4, <2>1, <2>2
<1>8. Leave'
  BY <1>1, <1>3, <1>4 DEF Leave, SendGone, NobodyLeft, AllGone
<1>9. QED BY <1>2, <1>5, <1>6, <1>7, <1>8 DEF IInv

\* The frame of the receive.
LEMMA RecvDoneIInv ==
    ASSUME IInv, Reap, NEW e \in Cqe, e = Head(cq), ProcessRecv(e)
    PROVE  IInv'
<1>1. Calls /\ Types /\ Frames /\ Exact /\ Clock /\ Slot /\ SendGone /\ NobodyLeft
  BY DEF IInv, Calls, Leave
<1>2. /\ Calls'
      /\ \A O \in SUBSET Ops : FlightOf(O) => FlightOf(O)'
      /\ e.op = "recv" /\ Waits(e.op)
      /\ \A p \in Ops : Waits(p)' <=> Waits(p) /\ ~(p = e.op /\ ~e.more)
  BY <1>1, RecvDoneCalls
<1>3. /\ pc = "reap"
      /\ UNCHANGED <<co, pc, back, work, file, held, armed, adjusts>>
      /\ \A i \in 1..Len(cq') : OfTimer(cq'[i])
      /\ Multi(cq', "timer") => Multi(cq, "timer")
      /\ Final(cq, "timer") => Final(cq', "timer")
      /\ Precedes(cq', "timer", "close")
      /\ InQueue(cq', "close") => InQueue(cq, "close")
  BY <1>1, <1>2, ReapClock
<1>4. /\ refs' = IF e.more THEN refs ELSE refs - 1
      /\ UNCHANGED <<fr, tm, tc, sq, hasFd>>
  BY DEF ProcessRecv
<1>5. Exact'
  <2>1. CASE e.more
    <3>1. \A p \in Ops : Waits(p)' <=> Waits(p)
      BY <1>2, <2>1
    <3>2. UNCHANGED refs
      BY <1>4, <2>1
    <3>3. QED BY <1>1, <1>3, <3>1, <3>2, ExactSame
  <2>2. CASE ~e.more
    <3>1. e.op \in Ops /\ \A p \in Ops : Waits(p)' <=> Waits(p) /\ p # e.op
      BY <1>2, <2>2 DEF Ops
    <3>2. Cardinality(Pending) = Cardinality(Pending') + 1
      BY <1>2, <3>1, PendingFacts
    <3>3. IsFiniteSet(Pending') /\ Cardinality(Pending') \in Nat
      <4>1. Pending' \subseteq Pending
        BY <3>1 DEF Pending
      <4>2. QED BY <4>1, SharesFacts, FS_Subset, FS_CardinalityType
    <3>4. refs = Shares(co) + Cardinality(Pending) /\ Shares(co) \in Nat
      BY <1>1, <1>3, SharesFacts DEF Exact
    <3>5. refs' = refs - 1
      BY <1>4, <2>2
    <3>6. refs' \in Nat /\ refs' = Shares(co) + Cardinality(Pending')
      BY <3>2, <3>3, <3>4, <3>5
    <3>7. QED BY <1>3, <3>6 DEF Exact
  <2>3. QED BY <2>1, <2>2
<1>6. Clock'
  <2>1. FlightOf(ClockOps)'
    <3>1. ClockOps \in SUBSET Ops
      BY DEF ClockOps, Ops
    <3>2. FlightOf(ClockOps)
      BY <1>1, <1>3 DEF Clock
    <3>3. QED BY <1>2, <3>1, <3>2
  <2>2. Multi(cq', "timer") => ~tc'
    BY <1>1, <1>3, <1>4 DEF Clock
  <2>3. /\ tm'.cancelled => /\ tm'.initiated
                            /\ armed' \/ InQueue(sq', "timer")
                                  => Covered(sq', "timer", "removeTimer")
        /\ Active(fr'["close"]) /\ tm'.initiated => tm'.cancelled
        /\ ~hasFd' /\ pc' # "end" => ~tm'.initiated
    BY <1>1, <1>3, <1>4 DEF Clock
  <2>4. InQueue(cq', "close") /\ tm'.initiated => Final(cq', "timer")
    BY <1>1, <1>3, <1>4 DEF Clock
  <2>5. QED BY <1>3, <2>1, <2>2, <2>3, <2>4 DEF Clock
<1>7. Slot'
  BY <1>1, <1>3, <1>4 DEF Slot
<1>8. Leave'
  BY <1>1, <1>3, <1>4 DEF Leave, SendGone, NobodyLeft, AllGone
<1>9. QED BY <1>2, <1>5, <1>6, <1>7, <1>8 DEF IInv

\* The frames of the timer and of its cancel.
LEMMA TicksIInv ==
    ASSUME IInv, Reap, NEW e \in Cqe, e = Head(cq), NEW X, Ticks(e, X)
    PROVE  IInv'
<1>1. Calls /\ Types /\ Frames /\ Exact /\ Clock /\ Slot /\ SendGone /\ NobodyLeft
      /\ FlightOf(CallOps) /\ FlightOf(ClockOps) /\ pc # "end"
  <2>1. pc # "end"
    BY DEF Reap
  <2>2. QED BY <2>1 DEF IInv, Calls, Leave, Clock
<1>2. Calls'
  BY <1>1, TicksCalls
<1>3. /\ pc = "reap" /\ Plain(e) /\ OfTimer(e)
      /\ ~e.more => Final(cq, e.op)
      /\ e.more => Multi(cq, e.op)
      /\ UNCHANGED <<co, pc, back, work, file, held, armed, adjusts>>
      /\ \A i \in 1..Len(cq') : OfTimer(cq'[i])
      /\ Multi(cq', "timer") => Multi(cq, "timer") /\ e.op # "timer"
      /\ (e.op # "timer" \/ e.more) /\ Final(cq, "timer") => Final(cq', "timer")
      /\ Precedes(cq', "timer", "close")
      /\ InQueue(cq', "close") => InQueue(cq, "close")
  BY <1>1, ReapClock
<1>4. /\ sq' \in Seq(Sqe) /\ Grows(sq, sq', X, SqNew) /\ X \subseteq ClockOps
      /\ UNCHANGED <<fr, hasFd, handles>> /\ rf'.initiated = rf.initiated
  BY DEF Ticks
<1>5. \/ /\ e.op = "timerCancel" /\ X = {} /\ ~tc' /\ tm' = tm /\ refs' = refs - 1
      \/ /\ e.op = "timer" /\ e.res = "ECANCELED" /\ tm.cancelled /\ X = {}
         /\ ~tm'.initiated /\ ~tm'.cancelled /\ tc' = tc /\ refs' = refs - 1
      \/ /\ e.op = "timer" /\ e.res = "ECANCELED" /\ ~tm.cancelled /\ X = {"timer"}
         /\ tm'.initiated /\ ~tm'.cancelled /\ tc' = tc /\ refs' = refs
      \/ /\ e.op = "timer" /\ e.res = "ETIME"
         /\ \E cancel \in BOOLEAN :
               /\ tc' <=> tc \/ cancel
               /\ refs' = refs + One(cancel)
               /\ "timerCancel" \in X <=> cancel
               /\ "timer" \in X <=> ~e.more
         /\ tm'.initiated <=> tm.initiated \/ ~e.more
         /\ tm'.cancelled = tm.cancelled
  BY DEF Ticks
<1>6. /\ e.op = "timer" => /\ tm.initiated
                           /\ e.more <=> e.res = "ETIME"
                           /\ e.more => ~tc
      /\ e.op = "timerCancel" => tc /\ ~e.more
  <2>1. /\ Final(cq, "timer") \/ Multi(cq, "timer") => tm.initiated
        /\ Final(cq, "timerCancel") => tc
    BY <1>1, TimerPlaces
  <2>2. Multi(cq, "timer") => ~tc
    BY <1>1 DEF Clock
  <2>3. QED BY <1>3, <2>1, <2>2 DEF OfTimer, Plain
<1>7. /\ Waits("timer") <=> tm.initiated
      /\ Waits("timer")' <=> tm'.initiated
      /\ Waits("timerCancel") <=> tc
      /\ Waits("timerCancel")' <=> tc'
      /\ \A p \in CallOps : Waits(p)' <=> Waits(p)
  <2>1. "timer" \notin CallOps /\ "timerCancel" \notin CallOps
    BY DEF CallOps, FrameOps
  <2>2. \A p \in CallOps : Waits(p)' <=> Waits(p)
    BY <1>4, <2>1 DEF Waits
  <2>3. QED BY <2>2 DEF Waits, FrameOps
<1>8. Ops = CallOps \cup ClockOps /\ ClockOps = {"timer", "timerCancel"}
  BY DEF Ops, CallOps, ClockOps
<1>9. FlightOf(ClockOps)'
  <2>1. \A p \in ClockOps :
           Waits(p)' <=> (Waits(p) /\ ~(p = e.op /\ ~e.more)) \/ p \in X
    BY <1>4, <1>5, <1>6, <1>7, <1>8
  <2>2. \A p \in ClockOps : p \in X => ~Waits(p) \/ (p = e.op /\ ~e.more)
    BY <1>4, <1>5, <1>6, <1>7, <1>8
  <2>3. /\ cq # <<>> /\ cq' = Tail(cq) /\ UNCHANGED <<work, held, armed>>
    BY DEF Reap
  <2>4. Types /\ FlightOf(ClockOps)
    BY <1>1
  <2>5. QED BY <1>4, <2>1, <2>2, <2>3, <2>4, FlightReaped
<1>10. Exact'
  <2>1. refs = Shares(co) + Cardinality(Pending) /\ Shares(co) \in Nat
        /\ IsFiniteSet(Pending) /\ Cardinality(Pending) \in Nat
    BY <1>1, SharesFacts DEF Exact
  <2>2. ASSUME NEW op \in Ops, Waits(op), refs' = refs - 1,
               \A p \in Ops : Waits(p)' <=> Waits(p) /\ p # op
        PROVE  Exact'
    <3>1. Cardinality(Pending) = Cardinality(Pending') + 1
      BY <2>2, PendingFacts
    <3>2. IsFiniteSet(Pending') /\ Cardinality(Pending') \in Nat
      <4>1. Pending' \subseteq Pending
        BY <2>2 DEF Pending
      <4>2. QED BY <2>1, <4>1, FS_Subset, FS_CardinalityType
    <3>3. refs' \in Nat /\ refs' = Shares(co) + Cardinality(Pending')
      BY <2>1, <2>2, <3>1, <3>2
    <3>4. QED BY <1>3, <3>3 DEF Exact
  <2>3. ASSUME UNCHANGED refs, \A p \in Ops : Waits(p)' <=> Waits(p)
        PROVE  Exact'
    BY <1>1, <1>3, <2>3, ExactSame
  <2>4. CASE e.op = "timerCancel"
    <3>1. \A p \in Ops : Waits(p)' <=> Waits(p) /\ p # "timerCancel"
      <4>1. "timerCancel" \notin CallOps
        BY DEF CallOps, FrameOps
      <4>2. QED BY <1>5, <1>6, <1>7, <1>8, <2>4, <4>1
    <3>2. QED BY <1>5, <1>6, <1>7, <1>8, <2>2, <2>4, <3>1
  <2>5. CASE e.op = "timer" /\ e.res = "ECANCELED" /\ tm.cancelled
    <3>1. \A p \in Ops : Waits(p)' <=> Waits(p) /\ p # "timer"
      <4>1. "timer" \notin CallOps
        BY DEF CallOps, FrameOps
      <4>2. QED BY <1>5, <1>6, <1>7, <1>8, <2>5, <4>1
    <3>2. QED BY <1>5, <1>6, <1>7, <1>8, <2>2, <2>5, <3>1
  <2>6. CASE e.op = "timer" /\ e.res = "ECANCELED" /\ ~tm.cancelled
    BY <1>5, <1>6, <1>7, <1>8, <2>3, <2>6
  <2>7. CASE e.op = "timer" /\ e.res = "ETIME"
    <3>1. PICK cancel \in BOOLEAN : /\ tc' <=> tc \/ cancel
                                    /\ refs' = refs + One(cancel)
      BY <1>5, <2>7
    <3>2. tm'.initiated /\ tm.initiated /\ ~tc
      BY <1>5, <1>6, <2>7
    <3>3. CASE cancel
      <4>1. \A p \in Ops : Waits(p)' <=> Waits(p) \/ p = "timerCancel"
        BY <1>7, <1>8, <3>1, <3>2, <3>3
      <4>2. Cardinality(Pending') = Cardinality(Pending) + 1
        BY <1>7, <1>8, <3>2, <4>1, PendingFacts
      <4>3. refs' = refs + 1
        BY <3>1, <3>3 DEF One
      <4>4. refs' \in Nat /\ refs' = Shares(co) + Cardinality(Pending')
        BY <2>1, <4>2, <4>3
      <4>5. QED BY <1>3, <4>4 DEF Exact
    <3>4. CASE ~cancel
      <4>1. refs' = refs
        BY <2>1, <3>1, <3>4 DEF One
      <4>2. \A p \in Ops : Waits(p)' <=> Waits(p)
        BY <1>7, <1>8, <3>1, <3>2, <3>4
      <4>3. QED BY <2>3, <4>1, <4>2
    <3>5. QED BY <3>3, <3>4
  <2>8. QED BY <1>5, <2>4, <2>5, <2>6, <2>7
<1>11. /\ \A op : InQueue(sq', op) <=> InQueue(sq, op) \/ op \in X
       /\ \A a, b : Covered(sq, a, b) /\ a \notin X => Covered(sq', a, b)
  BY <1>1, <1>4, GrowsFacts DEF Types
<1>12. e.op = "timer" /\ e.res = "ECANCELED" /\ ~tm.cancelled
          => ~Active(fr["close"]) /\ ~InQueue(cq, "close") /\ hasFd /\ ~AllGone
  <2>1. SUFFICES ASSUME tm.initiated, ~tm.cancelled
        PROVE  ~Active(fr["close"]) /\ ~InQueue(cq, "close") /\ hasFd /\ ~AllGone
    BY <1>6
  <2>2. ~Active(fr["close"])
    BY <1>1, <2>1 DEF Clock
  <2>3. ~InQueue(cq, "close")
    <3>1. Place("close")
      BY <1>1 DEF FlightOf, CallOps, FrameOps
    <3>2. InQueue(cq, "close") <=> Final(cq, "close") \/ Multi(cq, "close")
      BY EitherKind
    <3>3. QED BY <2>2, <3>1, <3>2 DEF Place, Waits
  <2>4. hasFd
    BY <1>1, <2>1 DEF Clock
  <2>5. ~AllGone
    BY <1>1, <2>1 DEF NobodyLeft
  <2>6. QED BY <2>2, <2>3, <2>4, <2>5
<1>13. Clock'
  <2>1. Multi(cq', "timer") => ~tc'
    <3>1. Multi(cq, "timer") => ~tc
      BY <1>1 DEF Clock
    <3>2. QED BY <1>3, <1>5, <3>1
  <2>2. tm'.cancelled => /\ tm'.initiated
                         /\ armed' \/ InQueue(sq', "timer")
                               => Covered(sq', "timer", "removeTimer")
    <3>1. SUFFICES ASSUME tm'.cancelled
          PROVE  /\ tm'.initiated
                 /\ armed' \/ InQueue(sq', "timer") => Covered(sq', "timer", "removeTimer")
      OBVIOUS
    <3>2. tm.cancelled /\ "timer" \notin X /\ (tm.initiated => tm'.initiated)
      BY <1>5, <1>6, <3>1
    <3>3. /\ tm.initiated
          /\ armed \/ InQueue(sq, "timer") => Covered(sq, "timer", "removeTimer")
      BY <1>1, <3>2 DEF Clock
    <3>4. QED BY <1>3, <1>11, <3>2, <3>3
  <2>3. Active(fr'["close"]) /\ tm'.initiated => tm'.cancelled
    <3>1. Active(fr["close"]) /\ tm.initiated => tm.cancelled
      BY <1>1 DEF Clock
    <3>2. QED BY <1>4, <1>5, <1>6, <1>12, <3>1
  <2>4. InQueue(cq', "close") /\ tm'.initiated => Final(cq', "timer")
    <3>1. InQueue(cq, "close") /\ tm.initiated => Final(cq, "timer")
      BY <1>1 DEF Clock
    <3>2. QED BY <1>3, <1>5, <1>6, <1>12, <3>1
  <2>5. ~hasFd' /\ pc' # "end" => ~tm'.initiated
    <3>1. ~hasFd => ~tm.initiated
      BY <1>1 DEF Clock
    <3>2. QED BY <1>4, <1>5, <1>6, <1>12, <3>1
  <2>6. QED BY <1>3, <1>9, <2>1, <2>2, <2>3, <2>4, <2>5 DEF Clock
<1>14. Slot'
  <2>1. "foreign" \notin X
    BY <1>4 DEF ClockOps
  <2>2. QED BY <1>1, <1>3, <1>4, <2>1, SlotGrows
<1>15. SendGone'
  <2>1. "send" \notin X
    BY <1>4 DEF ClockOps
  <2>2. QED BY <1>1, <1>3, <1>4, <2>1, SendGrows
<1>16. NobodyLeft'
  <2>1. AllGone' <=> AllGone
    BY <1>3 DEF AllGone
  <2>2. AllGone => X \cap {"timer", "recv", "close"} = {}
    <3>1. AllGone => "timer" \notin X
      BY <1>5, <1>6, <1>12
    <3>2. "recv" \notin X /\ "close" \notin X
      BY <1>4 DEF ClockOps
    <3>3. QED BY <3>1, <3>2
  <2>3. AllGone /\ tm'.initiated => tm.initiated /\ (tm.cancelled => tm'.cancelled)
    BY <1>5, <1>6, <1>12
  <2>4. QED BY <1>1, <1>3, <1>4, <2>1, <2>2, <2>3, NobodyGrows
<1>17. Leave'
  <2>1. pc' # "end"
    BY <1>3
  <2>2. QED BY <1>15, <1>16, <2>1 DEF Leave
<1>18. QED BY <1>2, <1>10, <1>13, <1>14, <1>17 DEF IInv

\* Whatever completes.
LEMMA ReapIInv ==
    ASSUME IInv, Reap
    PROVE  IInv'
<1>1. Types /\ Frames
  BY DEF IInv, Calls
<1>2. PICK e \in Cqe :
         /\ e = Head(cq)
         /\ \/ ProcessFrame(e) \/ ProcessClose(e) \/ ProcessRecv(e)
            \/ ProcessTimerCancel(e) \/ ProcessRemoved(e) \/ ProcessExpired(e)
  BY <1>1, ReapHead
<1>3. QED BY <1>1, <1>2, FrameDoneIInv, RecvDoneIInv, TicksAny, TicksIInv

-----------------------------------------------------------------------------
(* The whole invariant.                                                    *)

LEMMA InitIInv == Init => IInv
<1>1. SUFFICES ASSUME Init PROVE IInv
  OBVIOUS
<1>2. Calls
  BY <1>1, InitCalls
<1>3. /\ fr = [op \in FrameOps |-> ResetFrame]
      /\ tm = [initiated |-> TRUE, cancelled |-> FALSE]
      /\ refs = Cardinality(Coros) + 1 /\ hasFd = TRUE /\ co = [c \in Coros |-> "idle"]
      /\ pc = "user" /\ work = <<>> /\ file = "own"
      /\ held = [op \in HeldOps |-> "no"] /\ cq = <<>>
  BY <1>1 DEF Init
<1>4. /\ \A p \in Ops : Waits(p) <=> p = "timer"
      /\ \A O : O \subseteq Ops => FlightOf(O)
      /\ Op("timer").op = "timer" /\ sq = <<Op("timer")>>
  BY <1>1, InitFacts
<1>5. Len(sq) = 1 /\ sq[1].op = "timer" /\ Len(cq) = 0 /\ Len(work) = 0
  BY <1>3, <1>4
<1>6. Exact
  <2>1. IsFiniteSet(Coros) /\ \A c \in Coros : co[c] = "idle"
    BY <1>3, StreamAssumption
  <2>2. "idle" \in Alive /\ "idle" \notin CallOps
    BY DEF Alive, CallOps, FrameOps
  <2>3. Pop(co, Coros, Alive) = Cardinality(Coros) /\ Pop(co, Coros, CallOps) = 0
    BY <2>1, <2>2, PopZero
  <2>4. Pending = {"timer"}
    BY <1>4 DEF Pending, Ops
  <2>5. Cardinality(Pending) = 1
    BY <2>4, FS_Singleton
  <2>6. Cardinality(Coros) \in Nat
    BY <2>1, FS_CardinalityType
  <2>7. Shares(co) = Cardinality(Coros)
    BY <2>3, <2>6 DEF Shares
  <2>8. QED BY <1>3, <2>5, <2>6, <2>7 DEF Exact
<1>7. Clock
  <2>1. FlightOf(ClockOps)
    BY <1>4 DEF ClockOps, Ops
  <2>2. /\ \A i \in 1..Len(cq) : OfTimer(cq[i])
        /\ ~Multi(cq, "timer") /\ ~InQueue(cq, "close") /\ Precedes(cq, "timer", "close")
    BY <1>5 DEF Multi, InQueue, Precedes
  <2>3. ~Active(fr["close"])
    BY <1>3 DEF FrameOps, ResetFrame, Active
  <2>4. QED BY <1>3, <2>1, <2>2, <2>3 DEF Clock
<1>8. Slot
  <2>1. ~Named(sq, {"close"}) /\ ~Named(work, {"close"}) /\ ~InQueue(sq, "foreign")
    BY <1>5 DEF Named, InQueue
  <2>2. InTime(sq)
    BY <1>5 DEF InTime
  <2>3. QED BY <1>3, <2>1, <2>2 DEF Slot
<1>9. Leave
  <2>1. SendGone
    BY <1>3, <1>5 DEF SendGone, InQueue, HeldOps
  <2>2. ~AllGone
    BY <1>3, StreamAssumption DEF AllGone
  <2>3. QED BY <1>3, <2>1, <2>2 DEF Leave, NobodyLeft
<1>10. QED BY <1>2, <1>6, <1>7, <1>8, <1>9 DEF IInv

LEMMA IInvStep ==
    ASSUME Uses = {}
    PROVE  IInv /\ [Next]_vars => IInv'
<1>1. SUFFICES ASSUME IInv, [Next]_vars PROVE IInv'
  OBVIOUS
<1>2. Types
  BY <1>1 DEF IInv, Calls
<1>3. ASSUME NEW c \in Coros,
             AsyncSend(c) \/ AsyncShutdown(c) \/ AsyncCancel(c) \/ AsyncClose(c)
      PROVE  IInv'
  BY <1>1, <1>2, <1>3, StartsAny, StartsIInv
<1>4. ASSUME NEW c \in Coros, AsyncRecv(c) PROVE IInv'
  BY <1>1, <1>2, <1>4, ReceivesAny, ReceivesIInv
<1>5. CASE UserStep
  BY <1>1, <1>3, <1>4, <1>5, QueuesIInv, AtOnceIInv, LetGoIInv DEF UserStep
<1>6. CASE LoopStep
  BY <1>1, <1>6, ResumeIInv, TakesIInv, WorksIInv, TurnsIInv, ReapIInv, FlushIInv,
     DestroyIInv, DestructIInv DEF LoopStep
<1>7. CASE KernelStep
  BY <1>1, <1>7, ExpireIInv, CompletesIInv DEF KernelStep
<1>8. QED BY <1>1, <1>5, <1>6, <1>7, QueuesIInv, AbortIInv, TurnsIInv DEF Next

LEMMA Inductive ==
    ASSUME Uses = {}
    PROVE  Spec => []IInv
<1>1. QED BY InitIInv, IInvStep, PTL DEF Spec

\* What the runs check.
LEMMA IInvReferences == IInv => References
<1>1. SUFFICES ASSUME IInv PROVE References
  OBVIOUS
<1>2. Types /\ Exact
  BY <1>1 DEF IInv, Calls
<1>3. TypeOK
  BY <1>2 DEF TypeOK, Types, Exact
<1>4. ASSUME pc # "end" PROVE RefCountExact /\ LastHandleIsLast
  <2>1. Handles = Shares(co)
    <3>1. \A c \in Coros : /\ co[c] # "gone" <=> co[c] \in Alive
                           /\ co[c] \notin {"idle", "gone"} <=> co[c] \in CallOps
      BY <1>2 DEF Types, Alive, CallOps, FrameOps
    <3>2. /\ {c \in Coros : co[c] # "gone"} = {c \in Coros : co[c] \in Alive}
          /\ {c \in Coros : co[c] \notin {"idle", "gone"}}
                = {c \in Coros : co[c] \in CallOps}
      BY <3>1
    <3>3. QED BY <3>2 DEF Handles, Shares, Pop
  <2>2. {op \in Ops : InFlight(op)} = Pending
    <3>1. FlightOf(CallOps) /\ FlightOf(ClockOps)
      BY <1>1, <1>4 DEF IInv, Calls, Clock
    <3>2. \A op \in CallOps : InFlight(op) <=> Waits(op)
      <4>1. CallOps \in SUBSET Ops
        BY DEF CallOps, Ops
      <4>2. QED BY <3>1, <4>1, WaitsInFlight
    <3>3. \A op \in ClockOps : InFlight(op) <=> Waits(op)
      <4>1. ClockOps \in SUBSET Ops
        BY DEF ClockOps, Ops
      <4>2. QED BY <3>1, <4>1, WaitsInFlight
    <3>4. Ops = CallOps \cup ClockOps
      BY DEF Ops, CallOps, ClockOps
    <3>5. QED BY <3>2, <3>3, <3>4 DEF Pending
  <2>3. refs = Shares(co) + Cardinality(Pending)
    BY <1>2, <1>4 DEF Exact
  <2>4. Shares(co) \in Nat /\ Cardinality(Pending) \in Nat
    BY SharesFacts
  <2>5. ActiveFrames = Cardinality(Pending)
    BY <1>2, FramesCounted
  <2>6. RefCountExact
    BY <2>1, <2>2, <2>3 DEF RefCountExact
  <2>7. LastHandleIsLast
    <3> DEFINE n == Cardinality(Pending)
               m == Shares(co)
    <3>1. n \in Nat /\ m \in Nat /\ refs = m + n /\ ActiveFrames = n /\ Handles = m
      BY <2>1, <2>3, <2>4, <2>5
    <3> HIDE DEF n, m
    <3>2. refs - ActiveFrames = Handles
      BY <3>1
    <3>3. QED BY <3>2 DEF LastHandleIsLast
  <2>8. QED BY <2>6, <2>7
<1>5. QED BY <1>3, <1>4 DEF References

LEMMA IInvSlotIsOwn == IInv => SlotIsOwn
<1>1. SUFFICES ASSUME IInv PROVE SlotIsOwn
  OBVIOUS
<1>2. Types /\ Control /\ Clock /\ Slot
  BY <1>1 DEF IInv, Calls
<1>3. TimerFindsSlot
  <2>1. SUFFICES ASSUME pc = "reap", cq # <<>>, Head(cq).op = "timer", Head(cq).res = "ETIME"
                 PROVE  hasFd
    BY DEF TimerFindsSlot
  <2>2. cq \in Seq(Cqe) /\ 1 \in 1..Len(cq) /\ Head(cq) = cq[1]
    BY <1>2, <2>1, TailEntries DEF Types
  <2>3. cq[1].more
    BY <1>2, <2>1, <2>2 DEF Clock, OfTimer
  <2>4. Multi(cq, "timer")
    BY <2>1, <2>2, <2>3 DEF Multi
  <2>5. tm.initiated
    BY <1>2, <2>1, <2>4, TimerPlaces
  <2>6. QED BY <1>2, <2>1, <2>5 DEF Clock
<1>4. ASSUME sq # <<>>, Head(sq).op \in SlotOps, Head(sq).fd
      PROVE  file # "foreign"
  <2>1. 1 \in 1..Len(sq) /\ Head(sq) = sq[1]
    BY <1>2, <1>4, TailEntries DEF Types
  <2>2. Named(sq, SlotOps)
    BY <1>4, <2>1 DEF Named
  <2>3. QED BY <1>2, <2>2 DEF Slot
<1>5. ASSUME work # <<>>, Head(work).fd
      PROVE  file # "foreign"
  <2>1. 1 \in 1..Len(work) /\ Head(work) = work[1]
    BY <1>2, <1>5, TailEntries DEF Types
  <2>2. Named(work, {"close"})
    BY <1>2, <1>5, <2>1 DEF Control, Named
  <2>3. QED BY <1>2, <2>2 DEF Slot
<1>6. QED BY <1>3, <1>4, <1>5 DEF SlotIsOwn

\* The stream_impl has a reference for each handle, each awaitable and each
\* operation of its frames in flight, however often the multishot receive and
\* timer complete; ~stream finds the last handle by it; and run() that is left by
\* an exception releases what it can.
THEOREM ReferencesHold ==
    ASSUME Uses = {}
    PROVE  Spec => []References
<1>1. IInv => References
  BY IInvReferences
<1>2. QED BY <1>1, Inductive, PTL

\* No SQE that was written with fd_, no cancel by the timer and no close that
\* comes late with the task work meets a socket that got the slot afterwards,
\* and the timer's assertion that it has a slot holds.
THEOREM SlotIsOwnHolds ==
    ASSUME Uses = {}
    PROVE  Spec => []SlotIsOwn
<1>1. IInv => SlotIsOwn
  BY IInvSlotIsOwn
<1>2. QED BY <1>1, Inductive, PTL

\* The destructor of the last handle, or of the last coroutine when run() is
\* left, makes the kernel let go of the timer, the receive and the send; after
\* ~guard the stream_impl is freed unless a worker still runs a shutdown.
THEOREM NothingLeftBehindHolds ==
    ASSUME Uses = {}
    PROVE  Spec => []NothingLeftBehind
<1>1. IInv => NothingLeftBehind
  BY DEF IInv, Leave, NobodyLeft, AllGone, NothingLeftBehind
<1>2. QED BY <1>1, Inductive, PTL
=============================================================================

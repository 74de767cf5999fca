----------------------------- MODULE TimerProofs -----------------------------
(***************************************************************************)
(* Proofs about fiona::timer, for any finite set of coroutines that share  *)
(* it and any number of waits.                                             *)
(***************************************************************************)
EXTENDS Timer, Counting

-----------------------------------------------------------------------------
(* The inductive invariant.                                                *)

\* An operation of the cancel_frame is in flight (MustCancel says it of the
\* timeout_frame).
CancelActive == cf.initiated /\ ~cf.done

\* run() is being left.
Leaving == back = "abort"

Control ==
    /\ pc \in {"abort", "flush", "end"} => Leaving /\ sq = <<>>
    /\ Leaving => pc \in {"submit", "abort", "flush", "end"}
    /\ pc \in {"flush", "end"} => \A c \in Coros : co[c] = "gone"
    /\ pc = "end" => cq = <<>>

\* What the two frames say, and that no two coroutines share one.
Frames ==
    /\ tf.wait \in 0..waits /\ (tf.initiated => tf.wait > 0)
    /\ tf.done => tf.initiated
    /\ cf.done => cf.initiated
    /\ tf.h # None <=> MustCancel
    /\ cf.h # None <=> CancelActive
    /\ tf.ec # "ENOENT"
    /\ \A c, d \in Coros : co[c] = "waiting" /\ co[d] = "waiting" => c = d
    /\ \A c, d \in Coros : co[c] = "cancelling" /\ co[d] = "cancelling" => c = d

\* A frame has an operation in flight exactly when it says so, and a timeout
\* in flight is that of the current wait.  ~guard drops completions.
Flight ==
    /\ pc \notin {"flush", "end"} =>
          /\ OfOp(sq, "timeout") + OfOp(cq, "timeout") + Bit(armed # 0)
                = Bit(MustCancel)
          /\ OfOp(sq, "cancel") + OfOp(cq, "cancel") = Bit(CancelActive)
    /\ \A i \in 1..Len(sq) : sq[i].op = "timeout" =>
          MustCancel /\ sq[i].wait = tf.wait
    /\ armed # 0 => MustCancel /\ armed = tf.wait
    /\ \A i \in 1..Len(cq) : cq[i].op = "timeout" =>
          MustCancel /\ cq[i].wait = tf.wait /\ cq[i].ec # "ENOENT"

\* Who waits is in the frame, or its handle has been collected once.
Waiters ==
    ~Leaving =>
      /\ tf.h # None => co[tf.h] = "waiting"
      /\ cf.h # None => co[cf.h] = "cancelling"
      /\ \A c \in Coros :
            /\ co[c] = "waiting" => tf.initiated
            /\ co[c] = "cancelling" => cf.initiated
            /\ Times(handles, c) = Bit(\/ co[c] = "waiting" /\ tf.done
                                       \/ co[c] = "cancelling" /\ cf.done)

\* While run() is being left the timeout goes with the coroutine that waits: as
\* soon as none waits, a cancel is queued for what the kernel holds.
Leave ==
    Leaving => \/ \E c \in Coros : co[c] = "waiting"
               \/ /\ OfOp(sq, "timeout") = 0
                  /\ armed # 0 => OfOp(sq, "drop") > 0

\* A cancel has ended wait w: this was reported, is in the frame, or in a CQE.
Marked(w) ==
    \/ w \in confirmed
    \/ cf.initiated /\ cf.done /\ cf.ec = "ok" /\ cf.wait = w
    \/ \E i \in 1..Len(cq) :
          cq[i].op = "cancel" /\ cq[i].ec = "ok" /\ cq[i].wait = w

\* Such a wait does not expire any more.
Marks ==
    \A w \in 0..MaxWaits : Marked(w) =>
        /\ w \in 1..waits
        /\ result[w] \in {"none", "ECANCELED"}
        /\ tf.initiated /\ tf.wait = w =>
              /\ armed = 0 /\ OfOp(sq, "timeout") = 0
              /\ tf.done => tf.ec = "ECANCELED"
              /\ \A i \in 1..Len(cq) : cq[i].op = "timeout" =>
                    cq[i].ec = "ECANCELED"

\* A wait has no result before it returns.
Results ==
    /\ \A w \in Waits : w > waits => result[w] = "none"
    /\ tf.initiated => result[tf.wait] = "none"

Alive == {"idle", "waiting", "cancelling"}
Busy  == {"waiting", "cancelling"}

\* RefCountExact in terms of the counts the lemmas are about.
Exact ==
    /\ pc = "end" => refs = 0
    /\ refs = Bit(pc # "end")
              + OfOp(sq, "timeout") + OfOp(cq, "timeout") + Bit(armed # 0)
              + OfOp(sq, "cancel") + OfOp(cq, "cancel")
              + Pop(co, Coros, Alive) + Pop(co, Coros, Busy)

IInv == /\ TypeOK /\ Exact /\ Control /\ Frames /\ Flight /\ Waiters
        /\ Leave /\ Marks /\ Results

-----------------------------------------------------------------------------
(* Facts used by several actions.                                          *)

\* Exact is what RefCountExact says.
LEMMA ExactIsRefCount ==
    ASSUME TypeOK, Exact
    PROVE  RefCountExact
<1>1. {c \in Coros : co[c] # "gone"} = {c \in Coros : co[c] \in Alive}
  BY DEF TypeOK, Alive
<1>2. {c \in Coros : co[c] \in {"waiting", "cancelling"}}
         = {c \in Coros : co[c] \in Busy}
  BY DEF Busy
<1>3. /\ InSq("timeout") = OfOp(sq, "timeout") /\ InCq("timeout") = OfOp(cq, "timeout")
      /\ InSq("cancel") = OfOp(sq, "cancel") /\ InCq("cancel") = OfOp(cq, "cancel")
  BY DEF InSq, InCq, OfOp
<1>4. /\ OfOp(sq, "timeout") \in Nat /\ OfOp(cq, "timeout") \in Nat
      /\ OfOp(sq, "cancel") \in Nat /\ OfOp(cq, "cancel") \in Nat
  BY OfOpFacts DEF OpLaws, TypeOK
<1>5. Pop(co, Coros, Alive) \in Nat /\ Pop(co, Coros, Busy) \in Nat
  BY PopNat, TimerAssumption
<1>6. /\ Cardinality({c \in Coros : co[c] # "gone"}) = Pop(co, Coros, Alive)
      /\ Cardinality({c \in Coros : co[c] \in {"waiting", "cancelling"}})
            = Pop(co, Coros, Busy)
  BY <1>1, <1>2 DEF Pop
<1>7. QED
  BY <1>3, <1>4, <1>5, <1>6 DEF Exact, RefCountExact, Timeouts, Cancels, Bit

\* The queues of the timer obey the laws of counting.
LEMMA Laws ==
    /\ OpLaws(Sqe) /\ OpLaws(Cqe) /\ TimesLaws(Coros)
    /\ \A f, S : Pop(f, Coros, S) \in Nat
BY OfOpFacts, TimesFacts, PopNat, TimerAssumption

\* The counts are numbers.
LEMMA NatFacts ==
    ASSUME TypeOK
    PROVE  /\ \A op : OfOp(sq, op) \in Nat /\ OfOp(cq, op) \in Nat
           /\ \A c : Times(handles, c) \in Nat
           /\ \A f, S : Pop(f, Coros, S) \in Nat
BY Laws DEF TypeOK, OpLaws, TimesLaws

\* A coroutine that changes its state.
LEMMA OneMoves ==
    ASSUME NEW c \in Coros, \A d \in Coros \ {c} : co'[d] = co[d]
    PROVE  /\ Pop(co', Coros, Alive) + Bit(co[c] \in Alive)
                 = Pop(co, Coros, Alive) + Bit(co'[c] \in Alive)
           /\ Pop(co', Coros, Busy) + Bit(co[c] \in Busy)
                 = Pop(co, Coros, Busy) + Bit(co'[c] \in Busy)
<1>1. IsFiniteSet(Coros)
  BY TimerAssumption
<1>2. ASSUME NEW S
      PROVE  Pop(co', Coros, S) + Bit(co[c] \in S)
                = Pop(co, Coros, S) + Bit(co'[c] \in S)
  BY <1>1, PopChange DEF Bit
<1>3. QED BY <1>2

\* Initially nothing is in flight and every coroutine has its copy.
LEMMA InitIInv == Init => IInv
<1> SUFFICES ASSUME Init PROVE IInv
  OBVIOUS
<1>1. TypeOK
  <2>1. Cardinality(Coros) \in Nat
    BY TimerAssumption, FS_CardinalityType
  <2>2. NewFrame \in Frame
    BY TimerAssumption DEF NewFrame, Frame, Ecs
  <2>3. refs \in Nat /\ armed \in 0..MaxWaits /\ waits \in 0..MaxWaits
    BY <2>1, TimerAssumption DEF Init
  <2>4. QED BY <2>2, <2>3 DEF Init, TypeOK
<1>2. Exact
  <2>1. \A c \in Coros : co[c] \in Alive /\ co[c] \notin Busy
    BY DEF Init, Alive, Busy
  <2>2. Pop(co, Coros, Alive) = Cardinality(Coros) /\ Pop(co, Coros, Busy) = 0
    BY <2>1, PopZero, TimerAssumption
  <2>3. \A op : OfOp(sq, op) = 0 /\ OfOp(cq, op) = 0
    BY Laws DEF Init, OpLaws
  <2>4. Cardinality(Coros) \in Nat
    BY TimerAssumption, FS_CardinalityType
  <2>5. QED BY <2>2, <2>3, <2>4 DEF Init, Exact, Bit
<1>3. /\ tf.h = None /\ ~tf.initiated /\ ~tf.done /\ tf.ec = "ok" /\ tf.wait = 0
      /\ cf.h = None /\ ~cf.initiated /\ ~cf.done
      /\ \A c \in Coros : co[c] = "idle"
      /\ ~Leaving /\ ~MustCancel /\ ~CancelActive
  BY DEF Init, NewFrame, Leaving, MustCancel, CancelActive
<1>4. Control /\ Leave
  BY <1>3 DEF Init, Control, Leave
<1>5. Frames
  BY <1>3 DEF Init, Frames
<1>6. Flight
  BY <1>3, Laws DEF Init, Flight, OpLaws, Bit
<1>7. Waiters
  BY <1>3, Laws DEF Init, Waiters, TimesLaws, Bit
<1>8. Marks
  BY <1>3 DEF Init, Marks, Marked
<1>9. Results
  BY <1>3 DEF Init, Results
<1>10. QED BY <1>1, <1>2, <1>4, <1>5, <1>6, <1>7, <1>8, <1>9 DEF IInv

-----------------------------------------------------------------------------
(* The steps.                                                              *)

\* async_wait of an idle timer.
LEMMA AsyncWaitIInv ==
    ASSUME IInv, NEW c \in Coros, AsyncWait(c)
    PROVE  IInv'
<1> DEFINE e == [op |-> "timeout", wait |-> waits + 1]
           g == [tf EXCEPT !.h = c, !.initiated = TRUE, !.wait = waits + 1]
<1>1. /\ waits + 1 \in Waits /\ waits' = waits + 1
      /\ sq' = Append(sq, e) /\ tf' = g
      /\ ~tf.initiated /\ ~tf.done /\ tf \in Frame
  BY TimerAssumption DEF IInv, TypeOK, AsyncWait, Waits, Frames
<1>2. e \in Sqe /\ e.op = "timeout" /\ e.wait = waits + 1
  BY <1>1 DEF Sqe, Waits
<1>3. /\ g \in Frame /\ g.h = c /\ g.initiated /\ g.done = FALSE
      /\ g.wait = waits + 1 /\ g.ec = tf.ec
  <2>1. waits + 1 \in 0..MaxWaits
    BY <1>1, TimerAssumption DEF Waits
  <2>2. QED BY <1>1, <2>1 DEF Frame
<1> HIDE DEF e, g
<1>4. TypeOK'
  <2>1. refs' \in Nat /\ sq' \in Seq(Sqe)
    BY <1>1, <1>2 DEF IInv, TypeOK, AsyncWait
  <2>2. waits' \in 0..MaxWaits
    BY <1>1, TimerAssumption DEF Waits
  <2>3. QED BY <1>1, <1>3, <2>1, <2>2 DEF IInv, TypeOK, AsyncWait
<1>5. \A op : OfOp(sq', op) = OfOp(sq, op) + Bit(op = "timeout")
  BY <1>1, <1>2, Laws DEF IInv, TypeOK, OpLaws, Bit
<1>6. /\ \A op : OfOp(sq, op) \in Nat /\ OfOp(cq, op) \in Nat
      /\ \A f, S : Pop(f, Coros, S) \in Nat
  BY NatFacts DEF IInv
<1>7. Exact'
  <2>1. co[c] = "idle" /\ co'[c] = "waiting" /\ \A d \in Coros \ {c} : co'[d] = co[d]
    BY DEF AsyncWait, IInv, TypeOK
  <2>2. /\ Pop(co', Coros, Alive) = Pop(co, Coros, Alive)
        /\ Pop(co', Coros, Busy) = Pop(co, Coros, Busy) + 1
    BY <1>6, <2>1, OneMoves DEF Alive, Busy, Bit
  <2>3. refs' = refs + 2 /\ UNCHANGED <<pc, armed, cq>> /\ pc = "user"
    BY DEF AsyncWait
  <2>4. QED BY <1>5, <1>6, <2>2, <2>3 DEF IInv, Exact, Bit
<1>8. ~Leaving /\ UNCHANGED <<back, cf, armed, cq, handles>>
  BY DEF IInv, Control, AsyncWait, Leaving
<1>9. Control'
  BY <1>8 DEF IInv, Control, AsyncWait, Leaving
<1>10. /\ co'[c] = "waiting" /\ co[c] = "idle"
       /\ \A d \in Coros \ {c} : co'[d] = co[d] /\ co[d] # "waiting"
  BY <1>1, <1>8 DEF IInv, TypeOK, Waiters, AsyncWait
<1>11. ~MustCancel /\ MustCancel' /\ (CancelActive <=> CancelActive')
  BY <1>1, <1>3, <1>8 DEF MustCancel, CancelActive
<1>12. Frames'
  <2>1. tf'.wait \in 0..waits' /\ tf'.wait > 0
    BY <1>1, <1>3 DEF Waits
  <2>2. c # None
    BY TimerAssumption
  <2>3. QED BY <1>1, <1>3, <1>8, <1>10, <1>11, <2>1, <2>2 DEF IInv, Frames
<1>13. Flight'
  <2>1. \A i \in 1..Len(sq) : sq[i].op # "timeout"
    BY <1>11 DEF IInv, Flight
  <2>2. \A i \in 1..Len(sq') : sq'[i].op = "timeout" => sq'[i].wait = tf'.wait
    BY <1>1, <1>2, <1>3, <2>1 DEF IInv, TypeOK
  <2>3. armed = 0 /\ \A i \in 1..Len(cq) : cq[i].op # "timeout"
    BY <1>11 DEF IInv, Flight
  <2>4. pc = "user" /\ pc' = pc
    BY DEF AsyncWait
  <2>5. /\ OfOp(sq', "timeout") + OfOp(cq', "timeout") + Bit(armed' # 0)
              = Bit(MustCancel')
        /\ OfOp(sq', "cancel") + OfOp(cq', "cancel") = Bit(CancelActive')
    <3>1. OfOp(sq', "timeout") + OfOp(cq', "timeout") + Bit(armed' # 0)
             = Bit(MustCancel')
      BY <1>5, <1>6, <1>8, <1>11, <2>4 DEF IInv, Flight, Bit
    <3>2. OfOp(sq', "cancel") + OfOp(cq', "cancel") = Bit(CancelActive')
      <4>1. OfOp(sq, "cancel") + OfOp(cq, "cancel") = Bit(CancelActive)
        BY <2>4 DEF IInv, Flight
      <4>2. OfOp(sq', "cancel") = OfOp(sq, "cancel")
        BY <1>5, <1>6 DEF Bit
      <4>3. Bit(CancelActive') = Bit(CancelActive) /\ cq' = cq
        BY <1>8, <1>11 DEF Bit
      <4>4. QED BY <4>1, <4>2, <4>3
    <3>3. QED BY <3>1, <3>2
  <2>6. QED BY <1>8, <1>11, <2>2, <2>3, <2>5 DEF Flight
<1>14. Waiters'
  <2>1. tf'.h = c /\ tf'.initiated /\ ~tf'.done
    BY <1>1, <1>3
  <2>2. cf.h # None => cf.h \in Coros
    BY DEF IInv, TypeOK, Frame
  <2>3. QED BY <1>8, <1>10, <2>1, <2>2 DEF IInv, Waiters, Leaving, Bit
<1>15. Leave'
  BY <1>8 DEF Leave, Leaving
<1>16. Marks'
  BY <1>1, <1>3, <1>8 DEF IInv, TypeOK, Marks, Marked, AsyncWait
<1>17. Results'
  <2>1. UNCHANGED result /\ waits' = waits + 1 /\ tf'.wait = waits + 1 /\ waits \in Nat
    BY <1>1, <1>3, TimerAssumption DEF AsyncWait, IInv, TypeOK
  <2>2. QED BY <1>1, <2>1 DEF IInv, Results, Waits
<1>18. QED
  BY <1>4, <1>7, <1>9, <1>12, <1>13, <1>14, <1>15, <1>16, <1>17 DEF IInv

\* async_cancel.
LEMMA AsyncCancelIInv ==
    ASSUME IInv, NEW c \in Coros, AsyncCancel(c)
    PROVE  IInv'
<1> DEFINE e == [op |-> "cancel", wait |-> 0]
           g == [cf EXCEPT !.h = c, !.initiated = TRUE]
<1>1. /\ sq' = Append(sq, e) /\ cf' = g /\ ~cf.initiated /\ ~cf.done
      /\ cf \in Frame /\ refs' = refs + 2
      /\ UNCHANGED <<tf, handles, pc, back, armed, cq, waits, result, confirmed>>
      /\ pc = "user" /\ ~Leaving
  BY DEF IInv, TypeOK, AsyncCancel, Frames, histVars, Control, Leaving
<1>2. e \in Sqe /\ e.op = "cancel" /\ e.wait = 0
  BY TimerAssumption DEF Sqe
<1>3. /\ g \in Frame /\ g.h = c /\ g.initiated /\ g.done = FALSE
      /\ g.wait = cf.wait /\ g.ec = cf.ec
  BY <1>1 DEF Frame
<1> HIDE DEF e, g
<1>4. TypeOK'
  <2>1. refs' \in Nat /\ sq' \in Seq(Sqe)
    BY <1>1, <1>2 DEF IInv, TypeOK
  <2>2. co' \in [Coros -> {"idle", "waiting", "cancelling", "gone"}]
    BY DEF IInv, TypeOK, AsyncCancel
  <2>3. QED BY <1>1, <1>3, <2>1, <2>2 DEF IInv, TypeOK
<1>5. \A op : OfOp(sq', op) = OfOp(sq, op) + Bit(op = "cancel")
  BY <1>1, <1>2, Laws DEF IInv, TypeOK, OpLaws, Bit
<1>6. /\ \A op : OfOp(sq, op) \in Nat /\ OfOp(cq, op) \in Nat
      /\ \A f, S : Pop(f, Coros, S) \in Nat
  BY NatFacts DEF IInv
<1>7. /\ co'[c] = "cancelling" /\ co[c] = "idle"
      /\ \A d \in Coros \ {c} : co'[d] = co[d] /\ co[d] # "cancelling"
  BY <1>1 DEF IInv, TypeOK, Waiters, AsyncCancel
<1>8. Exact'
  <2>1. /\ Pop(co', Coros, Alive) = Pop(co, Coros, Alive)
        /\ Pop(co', Coros, Busy) = Pop(co, Coros, Busy) + 1
    BY <1>6, <1>7, OneMoves DEF Alive, Busy, Bit
  <2>2. refs' = refs + 2 /\ UNCHANGED <<pc, armed, cq>> /\ pc = "user"
    BY DEF AsyncCancel
  <2>3. QED BY <1>5, <1>6, <2>1, <2>2 DEF IInv, Exact, Bit
<1>9. Control' /\ Leave'
  BY <1>1 DEF IInv, Control, Leave, Leaving
<1>10. ~CancelActive /\ CancelActive' /\ (MustCancel <=> MustCancel')
  BY <1>1, <1>3 DEF MustCancel, CancelActive
<1>11. Frames'
  <2>1. c # None
    BY TimerAssumption
  <2>2. QED BY <1>1, <1>3, <1>7, <1>10, <2>1 DEF IInv, Frames
<1>12. Flight'
  <2>1. \A i \in 1..Len(sq') : sq'[i].op = "timeout" =>
           i \in 1..Len(sq) /\ sq'[i] = sq[i]
    BY <1>1, <1>2 DEF IInv, TypeOK
  <2>2. /\ OfOp(sq', "timeout") + OfOp(cq', "timeout") + Bit(armed' # 0)
              = Bit(MustCancel')
        /\ OfOp(sq', "cancel") + OfOp(cq', "cancel") = Bit(CancelActive')
    <3>1. UNCHANGED <<pc, armed, cq>> /\ pc = "user"
      BY DEF AsyncCancel
    <3>2. QED BY <3>1, <1>5, <1>6, <1>10 DEF IInv, Flight, Bit
  <2>3. QED BY <1>1, <1>10, <2>1, <2>2 DEF IInv, Flight
<1>13. Waiters'
  <2>1. cf'.h = c /\ cf'.initiated /\ ~cf'.done
    BY <1>1, <1>3
  <2>2. tf.h # None => tf.h \in Coros
    BY DEF IInv, TypeOK, Frame
  <2>3. QED BY <1>1, <1>7, <2>1, <2>2 DEF IInv, Waiters, Leaving, Bit
<1>14. Marks'
  <2>1. \A w : Marked(w)' => Marked(w)
    BY <1>1, <1>3 DEF Marked
  <2>2. OfOp(sq', "timeout") = OfOp(sq, "timeout")
    BY <1>5, <1>6 DEF Bit
  <2>3. QED BY <1>1, <2>1, <2>2 DEF IInv, Marks
<1>15. Results'
  BY <1>1 DEF IInv, Results
<1>16. QED
  BY <1>4, <1>8, <1>9, <1>11, <1>12, <1>13, <1>14, <1>15 DEF IInv

\* A step of the thread: only where it is changes.
LEMMA ThreadMoves ==
    ASSUME IInv, UNCHANGED <<frameVars, co, handles, kernVars, histVars>>,
           pc \in {"user", "submit", "reap"},
           pc' \in {"user", "submit", "reap", "abort"},
           back' \in {"user", "reap", "abort"},
           Control', Leave', Leaving => Leaving'
    PROVE  IInv'
<1>1. UNCHANGED <<tf, cf, refs, co, handles, sq, armed, cq, waits, result, confirmed>>
  BY DEF frameVars, kernVars, histVars
<1>2. TypeOK'
  BY <1>1 DEF IInv, TypeOK
<1>3. Exact'
  BY <1>1 DEF IInv, Exact, Bit
<1>4. Frames' /\ Flight'
  BY <1>1 DEF IInv, Frames, Flight, MustCancel, CancelActive
<1>5. Waiters'
  BY <1>1 DEF IInv, Waiters
<1>6. Marks' /\ Results'
  BY <1>1 DEF IInv, Marks, Marked, Results
<1>7. QED BY <1>2, <1>3, <1>4, <1>5, <1>6 DEF IInv

\* The loop goes to submit and comes back, full queue or not.
LEMMA LoopMovesIInv ==
    ASSUME IInv, SubmitAndWait \/ SubmitFull \/ SubmitDone \/ ReapDone
    PROVE  IInv'
<1>1. /\ UNCHANGED <<frameVars, co, handles, kernVars, histVars>>
      /\ pc \in {"user", "submit", "reap"}
      /\ pc' \in {"user", "submit", "reap", "abort"}
      /\ back' \in {"user", "reap", "abort"}
      /\ Leaving => back' = back
      /\ ~Leaving => back' # "abort"
      /\ pc' = "abort" => sq = <<>> /\ back' = "abort"
      /\ back' = "abort" => pc' = "abort"
  BY DEF IInv, TypeOK, Control, Leaving, SubmitAndWait, SubmitFull, SubmitDone,
         ReapDone
<1>2. Control'
  BY <1>1 DEF IInv, Control, Leaving, kernVars
<1>3. Leave'
  BY <1>1 DEF IInv, Leave, Leaving, kernVars
<1>4. QED BY <1>1, <1>2, <1>3, ThreadMoves DEF Leaving

\* run() begins to be left: who has a timeout in flight waits for it.
LEMMA AbortIInv ==
    ASSUME IInv, Abort
    PROVE  IInv'
<1>1. /\ UNCHANGED <<frameVars, co, handles, kernVars, histVars>>
      /\ pc = "user" /\ pc' = "submit" /\ back' = "abort" /\ ~Leaving
  BY DEF IInv, Control, Leaving, Abort
<1>2. Control'
  BY <1>1 DEF Control, Leaving
<1>3. Leave'
  <2>1. CASE tf.h = None
    <3>1. ~MustCancel
      BY <2>1 DEF IInv, Frames
    <3>2. armed = 0 /\ OfOp(sq, "timeout") = 0
      BY <1>1, <3>1, NatFacts DEF IInv, Flight, Bit
    <3>3. QED BY <1>1, <3>2 DEF Leave, kernVars
  <2>2. CASE tf.h # None
    <3>1. tf.h \in Coros /\ co[tf.h] = "waiting"
      BY <1>1, <2>2 DEF IInv, TypeOK, Frame, Waiters
    <3>2. QED BY <1>1, <3>1 DEF Leave
  <2>3. QED BY <2>1, <2>2
<1>4. QED BY <1>1, <1>2, <1>3, ThreadMoves DEF Leaving

\* The cancel that ~timer_awaitable queues has no completion of its own.
LEMMA DropFacts ==
    ASSUME TypeOK, sq' = Append(sq, [op |-> "drop", wait |-> 0])
    PROVE  /\ sq' \in Seq(Sqe)
           /\ OfOp(sq', "timeout") = OfOp(sq, "timeout")
           /\ OfOp(sq', "cancel") = OfOp(sq, "cancel")
           /\ OfOp(sq', "drop") > 0
           /\ \A i \in 1..Len(sq') : sq'[i].op = "timeout" =>
                 i \in 1..Len(sq) /\ sq'[i] = sq[i]
<1> DEFINE e == [op |-> "drop", wait |-> 0]
<1>1. e \in Sqe /\ e.op = "drop" /\ sq' = Append(sq, e) /\ sq \in Seq(Sqe)
  BY TimerAssumption DEF Sqe, TypeOK
<1> HIDE DEF e
<1>2. \A op : OfOp(sq', op) = OfOp(sq, op) + Bit(e.op = op)
  BY <1>1, Laws DEF OpLaws
<1>3. \A op : OfOp(sq, op) \in Nat
  BY NatFacts
<1>4. /\ OfOp(sq', "timeout") = OfOp(sq, "timeout")
      /\ OfOp(sq', "cancel") = OfOp(sq, "cancel")
      /\ OfOp(sq', "drop") > 0
  <2>1. e.op = "drop"
    BY <1>1
  <2>2. QED BY <1>2, <1>3, <2>1 DEF Bit
<1>5. /\ sq' \in Seq(Sqe)
      /\ \A i \in 1..Len(sq') : sq'[i].op = "timeout" =>
            i \in 1..Len(sq) /\ sq'[i] = sq[i]
  BY <1>1
<1>6. QED BY <1>4, <1>5

\* async_wait of a busy timer: who waits keeps waiting, for its cancellation.
LEMMA AsyncWaitBusyIInv ==
    ASSUME IInv, NEW c \in Coros, AsyncWaitBusy(c)
    PROVE  IInv'
<1>1. /\ UNCHANGED <<tf, cf, refs, co, handles, armed, cq, waits, result, confirmed>>
      /\ pc = "user" /\ DropCancel("user")
  BY DEF AsyncWaitBusy, frameVars, histVars
<1>2. CASE ~MustCancel
  <2>1. UNCHANGED <<sq, pc, back>>
    BY <1>1, <1>2 DEF DropCancel
  <2>2. TypeOK' /\ Exact' /\ Control'
    BY <1>1, <2>1 DEF IInv, TypeOK, Exact, Control, Leaving
  <2>3. Frames' /\ Flight'
    BY <1>1, <2>1 DEF IInv, Frames, Flight, MustCancel, CancelActive
  <2>4. Waiters' /\ Leave'
    BY <1>1, <2>1 DEF IInv, Waiters, Leave, Leaving
  <2>5. Marks' /\ Results'
    BY <1>1, <2>1 DEF IInv, Marks, Marked, Results
  <2>6. QED BY <2>2, <2>3, <2>4, <2>5 DEF IInv
<1>3. CASE MustCancel
  <2>1. /\ sq' = Append(sq, [op |-> "drop", wait |-> 0])
        /\ pc' = "submit" /\ back' = "user"
    BY <1>1, <1>3 DEF DropCancel
  <2>2. /\ sq' \in Seq(Sqe)
        /\ OfOp(sq', "timeout") = OfOp(sq, "timeout")
        /\ OfOp(sq', "cancel") = OfOp(sq, "cancel")
        /\ \A i \in 1..Len(sq') : sq'[i].op = "timeout" =>
              i \in 1..Len(sq) /\ sq'[i] = sq[i]
    BY <2>1, DropFacts DEF IInv
  <2>3. pc' = "submit" /\ back' = "user" /\ ~Leaving /\ ~Leaving'
    BY <1>1, <2>1 DEF IInv, Control, Leaving
  <2>4. TypeOK'
    BY <1>1, <2>2, <2>3 DEF IInv, TypeOK
  <2>5. Exact' /\ Control' /\ Leave'
    BY <1>1, <2>2, <2>3 DEF IInv, Exact, Control, Leave, Bit
  <2>6. Frames' /\ Flight'
    BY <1>1, <2>2, <2>3 DEF IInv, Frames, Flight, MustCancel, CancelActive
  <2>7. Waiters'
    BY <1>1, <2>3 DEF IInv, Waiters
  <2>8. Marks'
    <3>1. ASSUME NEW w PROVE Marked(w)' <=> Marked(w)
      BY <1>1 DEF Marked
    <3>2. QED BY <1>1, <2>2, <3>1 DEF IInv, Marks
  <2>9. Results'
    BY <1>1 DEF IInv, Results
  <2>10. QED BY <2>4, <2>5, <2>6, <2>7, <2>8, <2>9 DEF IInv
<1>4. QED BY <1>2, <1>3

\* A coroutine whose handle was collected is resumed and its awaitable goes.
LEMMA ResumeFacts ==
    ASSUME IInv, Resume
    PROVE  /\ Head(handles) \in Coros /\ co[Head(handles)] \in Busy
           /\ co[Head(handles)] = "waiting" => tf.done
           /\ co[Head(handles)] = "cancelling" => cf.done
           /\ co' \in [Coros -> {"idle", "waiting", "cancelling", "gone"}]
           /\ co'[Head(handles)] = "idle"
           /\ \A d \in Coros \ {Head(handles)} : co'[d] = co[d]
           /\ handles' \in Seq(Coros)
           /\ Times(handles, Head(handles)) = 1 /\ Times(handles', Head(handles)) = 0
           /\ \A d \in Coros \ {Head(handles)} : Times(handles', d) = Times(handles, d)
           /\ refs' \in Nat
           /\ Exact'
<1> DEFINE c == Head(handles)
<1>1. c \in Coros /\ handles # <<>> /\ handles \in Seq(Coros) /\ handles' = Tail(handles)
      /\ handles' \in Seq(Coros)
  BY DEF IInv, TypeOK, Resume
<1>2. /\ co[c] \in Busy /\ pc = "user" /\ co' = [co EXCEPT ![c] = "idle"]
      /\ ~Leaving /\ co \in [Coros -> {"idle", "waiting", "cancelling", "gone"}]
  BY DEF IInv, TypeOK, Resume, WaitReturns, CancelReturns, Busy, Control, Leaving
<1> HIDE DEF c
<1>3. /\ co' \in [Coros -> {"idle", "waiting", "cancelling", "gone"}]
      /\ co'[c] = "idle" /\ \A d \in Coros \ {c} : co'[d] = co[d]
  BY <1>1, <1>2
<1>4. \A d : Times(handles, d) = Times(handles', d) + Bit(c = d)
  BY <1>1, Laws DEF TimesLaws, c
<1>5. \A d : Times(handles, d) \in Nat /\ Times(handles', d) \in Nat
  BY <1>1, Laws DEF TimesLaws
<1>6. Times(handles, c) = Bit(\/ co[c] = "waiting" /\ tf.done
                              \/ co[c] = "cancelling" /\ cf.done)
  BY <1>1, <1>2 DEF IInv, Waiters
<1>7. /\ Times(handles, c) = 1 /\ Times(handles', c) = 0
      /\ \A d \in Coros \ {c} : Times(handles', d) = Times(handles, d)
      /\ \/ co[c] = "waiting" /\ tf.done
         \/ co[c] = "cancelling" /\ cf.done
  BY <1>4, <1>5, <1>6 DEF Bit
<1>8. /\ \A op : OfOp(sq, op) \in Nat /\ OfOp(cq, op) \in Nat
      /\ \A f, S : Pop(f, Coros, S) \in Nat
  BY NatFacts DEF IInv
<1>9. /\ Pop(co', Coros, Alive) = Pop(co, Coros, Alive)
      /\ Pop(co', Coros, Busy) + 1 = Pop(co, Coros, Busy)
  <2>1. co[c] \in Alive /\ co[c] \in Busy /\ co'[c] \in Alive /\ co'[c] \notin Busy
    BY <1>2, <1>3 DEF Alive, Busy
  <2>2. QED BY <1>1, <1>3, <1>8, <2>1, OneMoves DEF Bit
<1>10. refs' = refs - 1 /\ UNCHANGED <<pc, armed, cq, sq>> /\ pc = "user"
  BY DEF Resume, kernVars
<1>11. refs' \in Nat /\ Exact'
  BY <1>8, <1>9, <1>10 DEF IInv, Exact, Bit
<1>12. QED BY <1>1, <1>2, <1>3, <1>7, <1>11 DEF c

\* await_resume of a wait.
LEMMA WaitReturnsIInv ==
    ASSUME IInv, Resume, WaitReturns(Head(handles))
    PROVE  IInv'
<1> DEFINE c == Head(handles)
<1>1. /\ c \in Coros /\ co[c] = "waiting" /\ tf.done /\ co'[c] = "idle"
      /\ co' \in [Coros -> {"idle", "waiting", "cancelling", "gone"}]
      /\ \A d \in Coros \ {c} : co'[d] = co[d]
      /\ handles' \in Seq(Coros) /\ Times(handles', c) = 0
      /\ \A d \in Coros \ {c} : Times(handles', d) = Times(handles, d)
      /\ refs' \in Nat /\ Exact'
  BY ResumeFacts DEF WaitReturns
<1>2. /\ UNCHANGED <<cf, confirmed, sq, armed, cq, pc, back, waits>>
      /\ pc = "user" /\ ~Leaving
      /\ result' = [result EXCEPT ![tf.wait] = IF tf.ec = "ok" THEN "expired" ELSE tf.ec]
      /\ tf' = NewFrame
  BY DEF Resume, WaitReturns, kernVars, IInv, Control, Leaving
<1>3. /\ tf' \in Frame /\ tf'.h = None /\ ~tf'.initiated /\ ~tf'.done
      /\ tf'.wait = 0 /\ tf'.ec = "ok"
  BY <1>2, TimerAssumption DEF NewFrame, Frame, Ecs
<1>4. tf.initiated /\ tf.wait \in Waits /\ tf.ec \in {"ok", "ECANCELED"}
  BY <1>1 DEF IInv, Frames, TypeOK, Frame, Waits, Ecs
<1>5. /\ result' \in [Waits -> {"none", "expired", "ECANCELED"}]
      /\ \A w \in Waits : w # tf.wait => result'[w] = result[w]
      /\ tf.ec = "ECANCELED" => result'[tf.wait] = "ECANCELED"
  BY <1>2, <1>4 DEF IInv, TypeOK
<1>6. UNCHANGED <<cf, confirmed, sq, armed, cq, pc, back, waits>> /\ pc = "user"
      /\ ~Leaving /\ ~Leaving'
  BY <1>2 DEF Leaving
<1> HIDE DEF c
<1>7. TypeOK'
  BY <1>1, <1>3, <1>5, <1>6 DEF IInv, TypeOK
<1>8. Control' /\ Leave'
  BY <1>6 DEF IInv, Control, Leave
<1>9. ~MustCancel /\ ~MustCancel' /\ (CancelActive' <=> CancelActive)
  BY <1>1, <1>3, <1>6 DEF MustCancel, CancelActive
<1>10. Frames'
  <2>1. \A d \in Coros : co'[d] = "waiting" => co[d] = "waiting"
    BY <1>1
  <2>2. \A d \in Coros : co'[d] = "cancelling" => co[d] = "cancelling"
    BY <1>1
  <2>3. 0 \in 0..waits
    BY TimerAssumption DEF IInv, TypeOK
  <2>4. QED BY <1>3, <1>6, <1>9, <2>1, <2>2, <2>3 DEF IInv, Frames
<1>11. Flight'
  BY <1>6, <1>9 DEF IInv, Flight, Bit
<1>12. Waiters'
  <2>1. cf.h # None => cf.h \in Coros /\ co[cf.h] = "cancelling"
    BY <1>6 DEF IInv, Waiters, TypeOK, Frame
  <2>2. ASSUME NEW d \in Coros
        PROVE  /\ co'[d] # "waiting"
               /\ co'[d] = "cancelling" => co[d] = "cancelling"
               /\ d # c => co'[d] = co[d] /\ co[d] # "waiting"
    BY <1>1 DEF IInv, Frames
  <2>3. QED BY <1>1, <1>3, <1>6, <2>1, <2>2 DEF IInv, Waiters, Bit
<1>13. Marks'
  <2>1. \A w : Marked(w)' <=> Marked(w)
    BY <1>6 DEF Marked
  <2>2. Marked(tf.wait) => tf.ec = "ECANCELED"
    BY <1>1, <1>4 DEF IInv, Marks, Waits
  <2>3. ASSUME NEW w \in 0..MaxWaits, Marked(w)
        PROVE  w \in 1..waits /\ result'[w] \in {"none", "ECANCELED"}
    <3>1. w \in 1..waits /\ result[w] \in {"none", "ECANCELED"}
      BY <2>3 DEF IInv, Marks
    <3>2. w \in Waits
      BY <3>1, <2>3 DEF Waits, IInv, TypeOK
    <3>3. QED BY <3>1, <3>2, <2>2, <2>3, <1>5
  <2>4. QED BY <1>3, <1>6, <2>1, <2>3 DEF Marks
<1>14. Results'
  <2>1. tf.wait <= waits
    BY DEF IInv, Frames
  <2>2. ASSUME NEW w \in Waits, w > waits PROVE w # tf.wait
    BY <2>1, <2>2, <1>4 DEF Waits, IInv, TypeOK
  <2>3. QED BY <1>3, <1>5, <1>6, <2>2 DEF IInv, Results
<1>15. QED
  BY <1>1, <1>7, <1>8, <1>10, <1>11, <1>12, <1>13, <1>14 DEF IInv

\* await_resume of a cancel: what it reports is recorded.
LEMMA CancelReturnsIInv ==
    ASSUME IInv, Resume, CancelReturns(Head(handles))
    PROVE  IInv'
<1> DEFINE c == Head(handles)
<1>1. /\ c \in Coros /\ co[c] = "cancelling" /\ cf.done /\ co'[c] = "idle"
      /\ co' \in [Coros -> {"idle", "waiting", "cancelling", "gone"}]
      /\ \A d \in Coros \ {c} : co'[d] = co[d]
      /\ handles' \in Seq(Coros) /\ Times(handles', c) = 0
      /\ \A d \in Coros \ {c} : Times(handles', d) = Times(handles, d)
      /\ refs' \in Nat /\ Exact'
  BY ResumeFacts DEF CancelReturns
<1>2. /\ UNCHANGED <<tf, result, sq, armed, cq, pc, back, waits>>
      /\ pc = "user" /\ ~Leaving /\ ~Leaving'
      /\ confirmed' = IF cf.ec = "ok" THEN confirmed \cup {cf.wait} ELSE confirmed
      /\ cf' = CancelReset /\ cf.initiated
  BY DEF Resume, CancelReturns, kernVars, IInv, Control, Leaving
<1>3. cf.h = None
  BY <1>1 DEF IInv, Frames, CancelActive
<1>4. /\ cf' \in Frame /\ cf'.h = None /\ ~cf'.initiated /\ ~cf'.done
  <2> DEFINE g == [NewFrame EXCEPT !.h = cf.h]
  <2>1. NewFrame \in Frame /\ ~NewFrame.initiated /\ ~NewFrame.done
    BY TimerAssumption DEF NewFrame, Frame, Ecs
  <2>2. g \in Frame /\ g.h = None /\ g.initiated = NewFrame.initiated
        /\ g.done = NewFrame.done
    BY <1>3, <2>1 DEF Frame
  <2>3. QED BY <1>2, <2>1, <2>2 DEF CancelReset
<1>5. cf.ec = "ok" => Marked(cf.wait) /\ cf.wait \in 0..MaxWaits
  BY <1>1, <1>2 DEF Marked, IInv, TypeOK, Frame
<1>6. confirmed' \subseteq Waits
  <2>1. cf.ec = "ok" => cf.wait \in 1..waits
    BY <1>5 DEF IInv, Marks
  <2>2. 1..waits \subseteq Waits /\ confirmed \subseteq Waits
    BY TimerAssumption DEF IInv, TypeOK, Waits
  <2>3. QED BY <1>2, <2>1, <2>2
<1>7. \A w \in 0..MaxWaits : Marked(w)' => Marked(w)
  BY <1>1, <1>2, <1>4, <1>5 DEF Marked
<1>8. /\ UNCHANGED <<tf, result, sq, armed, cq, pc, back, waits>>
      /\ pc = "user" /\ ~Leaving /\ ~Leaving'
  BY <1>2
<1> HIDE DEF c
<1>9. TypeOK'
  BY <1>1, <1>4, <1>6, <1>8 DEF IInv, TypeOK
<1>10. Control' /\ Leave'
  BY <1>8 DEF IInv, Control, Leave
<1>11. ~CancelActive /\ ~CancelActive' /\ (MustCancel' <=> MustCancel)
  BY <1>1, <1>4, <1>8 DEF MustCancel, CancelActive
<1>12. Frames'
  <2>1. \A d \in Coros : co'[d] = "waiting" => co[d] = "waiting"
    BY <1>1
  <2>2. \A d \in Coros : co'[d] = "cancelling" => co[d] = "cancelling"
    BY <1>1
  <2>3. QED BY <1>4, <1>8, <1>11, <2>1, <2>2 DEF IInv, Frames
<1>13. Flight'
  BY <1>8, <1>11 DEF IInv, Flight, Bit
<1>14. Waiters'
  <2>1. tf.h # None => tf.h \in Coros /\ co[tf.h] = "waiting"
    BY <1>8 DEF IInv, Waiters, TypeOK, Frame
  <2>2. ASSUME NEW d \in Coros
        PROVE  /\ co'[d] # "cancelling"
               /\ co'[d] = "waiting" => co[d] = "waiting"
               /\ d # c => co'[d] = co[d] /\ co[d] # "cancelling"
    BY <1>1 DEF IInv, Frames
  <2>3. QED BY <1>1, <1>4, <1>8, <2>1, <2>2 DEF IInv, Waiters, Bit
<1>15. Marks' /\ Results'
  BY <1>7, <1>8 DEF IInv, Marks, Results
<1>16. QED
  BY <1>1, <1>9, <1>10, <1>12, <1>13, <1>14, <1>15 DEF IInv

\* The references are not touched when operations move between the queues.
LEMMA ExactMoves ==
    ASSUME Exact, UNCHANGED <<refs, pc, co>>,
           \A op : OfOp(sq, op) \in Nat /\ OfOp(cq, op) \in Nat,
           \A op : OfOp(sq', op) \in Nat /\ OfOp(cq', op) \in Nat,
           \A f, S : Pop(f, Coros, S) \in Nat,
           OfOp(sq', "timeout") + OfOp(cq', "timeout") + Bit(armed' # 0)
              = OfOp(sq, "timeout") + OfOp(cq, "timeout") + Bit(armed # 0),
           OfOp(sq', "cancel") + OfOp(cq', "cancel")
              = OfOp(sq, "cancel") + OfOp(cq, "cancel")
    PROVE  Exact'
BY DEF Exact, Bit

\* A step of the kernel moves operations between its queues.
LEMMA KernelMoves ==
    ASSUME IInv, UNCHANGED <<frameVars, loopVars, histVars>>,
           sq' \in Seq(Sqe), armed' \in 0..MaxWaits, cq' \in Seq(Cqe),
           OfOp(sq', "timeout") + OfOp(cq', "timeout") + Bit(armed' # 0)
              = OfOp(sq, "timeout") + OfOp(cq, "timeout") + Bit(armed # 0),
           OfOp(sq', "cancel") + OfOp(cq', "cancel")
              = OfOp(sq, "cancel") + OfOp(cq, "cancel"),
           \A i \in 1..Len(sq') : sq'[i].op = "timeout" =>
              \E j \in 1..Len(sq) : sq'[i] = sq[j],
           armed' # 0 => MustCancel /\ armed' = tf.wait,
           \A i \in 1..Len(cq') : cq'[i].op = "timeout" =>
              MustCancel /\ cq'[i].wait = tf.wait /\ cq'[i].ec # "ENOENT",
           Control', Leave', Marks'
    PROVE  IInv'
<1>1. UNCHANGED <<tf, cf, refs, co, handles, pc, back, waits, result, confirmed>>
  BY DEF frameVars, loopVars, histVars
<1>2. TypeOK'
  BY <1>1 DEF IInv, TypeOK
<1>3. /\ \A op : OfOp(sq, op) \in Nat /\ OfOp(cq, op) \in Nat
      /\ \A op : OfOp(sq', op) \in Nat /\ OfOp(cq', op) \in Nat
      /\ \A f, S : Pop(f, Coros, S) \in Nat
  BY Laws, NatFacts DEF IInv, OpLaws
<1>4. Exact'
  <2>1. UNCHANGED <<refs, pc, co>>
    BY <1>1
  <2>2. QED BY <1>3, <2>1, ExactMoves DEF IInv
<1>5. UNCHANGED <<MustCancel, CancelActive, Leaving>>
  BY <1>1 DEF MustCancel, CancelActive, Leaving
<1>6. Frames' /\ Waiters' /\ Results'
  BY <1>1, <1>5 DEF IInv, Frames, Waiters, Results
<1>7. Flight'
  <2>1. /\ pc' \notin {"flush", "end"} =>
             /\ OfOp(sq', "timeout") + OfOp(cq', "timeout") + Bit(armed' # 0)
                   = Bit(MustCancel')
             /\ OfOp(sq', "cancel") + OfOp(cq', "cancel") = Bit(CancelActive')
    BY <1>1, <1>5 DEF IInv, Flight, Bit
  <2>2. \A i \in 1..Len(sq') : sq'[i].op = "timeout" =>
           MustCancel' /\ sq'[i].wait = tf'.wait
    BY <1>1, <1>5 DEF IInv, Flight
  <2>3. QED BY <1>1, <1>5, <2>1, <2>2 DEF Flight
<1>8. QED BY <1>2, <1>4, <1>6, <1>7 DEF IInv

\* The timeout the kernel holds expires.
LEMMA KernelExpiresIInv ==
    ASSUME IInv, KernelExpires
    PROVE  IInv'
<1> DEFINE e == TimeoutCqe("ok")
<1>1. /\ armed # 0 /\ armed' = 0 /\ UNCHANGED sq /\ pc # "end"
      /\ UNCHANGED <<frameVars, loopVars, histVars>> /\ cq' = Append(cq, e)
      /\ armed = tf.wait /\ MustCancel /\ armed \in 0..MaxWaits
  BY DEF KernelExpires, IInv, Flight, TypeOK
<1>2. e \in Cqe /\ e.op = "timeout" /\ e.ec = "ok" /\ e.wait = tf.wait
  BY <1>1 DEF Cqe, TimeoutCqe, Ecs
<1> HIDE DEF e
<1>3. /\ cq \in Seq(Cqe) /\ cq' \in Seq(Cqe)
      /\ \A i \in 1..Len(cq') : (i \in 1..Len(cq) /\ cq'[i] = cq[i]) \/ cq'[i] = e
  BY <1>1, <1>2, Entries DEF IInv, TypeOK
<1>4. \A op : OfOp(cq', op) = OfOp(cq, op) + Bit(op = "timeout")
  BY <1>1, <1>2, <1>3, Laws DEF OpLaws, Bit
<1>5. /\ OfOp(sq', "timeout") + OfOp(cq', "timeout") + Bit(armed' # 0)
            = OfOp(sq, "timeout") + OfOp(cq, "timeout") + Bit(armed # 0)
      /\ OfOp(sq', "cancel") + OfOp(cq', "cancel")
            = OfOp(sq, "cancel") + OfOp(cq, "cancel")
  <2>1. \A op : OfOp(sq, op) \in Nat /\ OfOp(cq, op) \in Nat
    BY NatFacts DEF IInv
  <2>2. armed # 0 /\ armed' = 0 /\ UNCHANGED sq
    BY <1>1
  <2>3. QED BY <1>4, <2>1, <2>2 DEF Bit
<1>6. \A i \in 1..Len(cq') : cq'[i].op = "timeout" =>
          MustCancel /\ cq'[i].wait = tf.wait /\ cq'[i].ec # "ENOENT"
  BY <1>1, <1>2, <1>3 DEF IInv, Flight
<1>7. Control' /\ Leave'
  BY <1>1 DEF IInv, Control, Leave, Leaving, loopVars
<1>8. Marks'
  <2>1. UNCHANGED <<tf, cf, confirmed, sq, waits, result>> /\ armed # 0 /\ armed = tf.wait
    BY <1>1 DEF frameVars, histVars
  <2>2. \A w : Marked(w)' => Marked(w)
    BY <1>2, <1>3, <2>1 DEF Marked
  <2>3. \A w \in 0..MaxWaits : Marked(w) => ~(tf.initiated /\ tf.wait = w)
    BY <2>1 DEF IInv, Marks
  <2>4. QED BY <2>1, <2>2, <2>3 DEF IInv, Marks
<1>9. 0 \in 0..MaxWaits /\ sq' \in Seq(Sqe)
      /\ \A i \in 1..Len(sq') : sq'[i].op = "timeout" =>
              \E j \in 1..Len(sq) : sq'[i] = sq[j]
  BY <1>1, TimerAssumption DEF IInv, TypeOK
<1>10. QED BY <1>1, <1>3, <1>5, <1>6, <1>7, <1>8, <1>9, KernelMoves

\* What every SQE the kernel takes leaves behind.
LEMMA TakeFacts ==
    ASSUME IInv, KernelTakes
    PROVE  /\ UNCHANGED <<frameVars, loopVars, histVars>>
           /\ UNCHANGED <<tf, cf, confirmed, waits, result, co, back>>
           /\ pc = "submit" /\ sq' \in Seq(Sqe) /\ cq \in Seq(Cqe)
           /\ armed \in 0..MaxWaits
           /\ Head(sq).op \in {"timeout", "cancel", "drop"}
           /\ \A op : OfOp(sq, op) = OfOp(sq', op) + Bit(Head(sq).op = op)
           /\ \A op : OfOp(sq, op) \in Nat /\ OfOp(sq', op) \in Nat /\ OfOp(cq, op) \in Nat
           /\ \A i \in 1..Len(sq') : sq'[i].op = "timeout" =>
                 \E j \in 1..Len(sq) : sq'[i] = sq[j]
           /\ Head(sq).op = "timeout" => MustCancel /\ Head(sq).wait = tf.wait
           /\ Control'
<1>1. /\ UNCHANGED <<frameVars, loopVars, histVars>> /\ pc = "submit"
      /\ sq # <<>> /\ sq' = Tail(sq) /\ sq \in Seq(Sqe) /\ cq \in Seq(Cqe)
      /\ armed \in 0..MaxWaits
  BY DEF IInv, TypeOK, KernelTakes
<1>2. /\ sq' \in Seq(Sqe) /\ Head(sq) \in Sqe
      /\ 1 \in 1..Len(sq) /\ Head(sq) = sq[1]
      /\ \A i \in 1..Len(sq') : i + 1 \in 1..Len(sq) /\ sq'[i] = sq[i + 1]
  BY <1>1, TailEntries
<1>3. \A op : OfOp(sq, op) = OfOp(sq', op) + Bit(Head(sq).op = op)
  BY <1>1, Laws DEF OpLaws
<1>4. \A op : OfOp(sq, op) \in Nat /\ OfOp(sq', op) \in Nat /\ OfOp(cq, op) \in Nat
  BY <1>1, <1>2, Laws DEF OpLaws
<1>5. Head(sq).op = "timeout" => MustCancel /\ Head(sq).wait = tf.wait
  BY <1>2 DEF IInv, Flight
<1>6. Head(sq).op \in {"timeout", "cancel", "drop"}
  BY <1>2 DEF Sqe
<1>7. Control' /\ UNCHANGED <<tf, cf, confirmed, waits, result, co, back>>
  BY <1>1 DEF IInv, Control, Leaving, frameVars, loopVars, histVars
<1>8. QED BY <1>1, <1>2, <1>3, <1>4, <1>5, <1>6, <1>7

\* A timeout is armed.
LEMMA TakeTimeoutIInv ==
    ASSUME IInv, KernelTakes, Head(sq).op = "timeout"
    PROVE  IInv'
<1>1. armed' = Head(sq).wait /\ cq' = cq
  BY DEF KernelTakes
<1>2. MustCancel /\ armed' = tf.wait /\ pc = "submit"
  BY <1>1, TakeFacts
<1>3. armed' # 0 /\ armed' \in 0..MaxWaits
  BY <1>2 DEF IInv, Frames, MustCancel, TypeOK, Frame
<1>4. /\ \A op : OfOp(sq, op) = OfOp(sq', op) + Bit(op = "timeout")
      /\ \A op : OfOp(sq, op) \in Nat /\ OfOp(sq', op) \in Nat /\ OfOp(cq, op) \in Nat
  BY TakeFacts DEF Bit
<1>5. /\ OfOp(sq, "timeout") + OfOp(cq, "timeout") + Bit(armed # 0) = 1
      /\ OfOp(sq, "timeout") = OfOp(sq', "timeout") + 1
      /\ OfOp(sq, "cancel") = OfOp(sq', "cancel")
      /\ OfOp(sq, "drop") = OfOp(sq', "drop")
  BY <1>2, <1>4 DEF IInv, Flight, Bit
<1>6. OfOp(sq, "timeout") = 1 /\ OfOp(sq', "timeout") = 0 /\ armed = 0
  BY <1>4, <1>5 DEF Bit
<1>7. /\ OfOp(sq', "timeout") + OfOp(cq', "timeout") + Bit(armed' # 0)
            = OfOp(sq, "timeout") + OfOp(cq, "timeout") + Bit(armed # 0)
      /\ OfOp(sq', "cancel") + OfOp(cq', "cancel")
            = OfOp(sq, "cancel") + OfOp(cq, "cancel")
  BY <1>1, <1>3, <1>4, <1>5, <1>6 DEF Bit
<1>8. UNCHANGED <<tf, cf, confirmed, waits, result, co, back>> /\ cq' = cq
  BY <1>1, TakeFacts
<1>9. Leave'
  BY <1>6, <1>8 DEF IInv, Leave, Leaving
<1>10. Marks'
  <2>1. \A w : Marked(w)' => Marked(w)
    BY <1>8 DEF Marked
  <2>2. \A w \in 0..MaxWaits : Marked(w) => ~(tf.initiated /\ tf.wait = w)
    BY <1>6 DEF IInv, Marks
  <2>3. QED BY <1>8, <2>1, <2>2 DEF IInv, Marks
<1>11. /\ cq' \in Seq(Cqe)
       /\ \A i \in 1..Len(cq') : cq'[i].op = "timeout" =>
              MustCancel /\ cq'[i].wait = tf.wait /\ cq'[i].ec # "ENOENT"
  BY <1>8 DEF IInv, Flight, TypeOK
<1>12. QED BY <1>2, <1>3, <1>7, <1>9, <1>10, <1>11, TakeFacts, KernelMoves

\* async_cancel finds no timeout.
LEMMA TakeCancelMissIInv ==
    ASSUME IInv, KernelTakes, Head(sq).op = "cancel", armed = 0
    PROVE  IInv'
<1> DEFINE e == CancelCqe("ENOENT")
<1>1. armed' = 0 /\ cq' = Append(cq, e)
  BY DEF KernelTakes
<1>2. e \in Cqe /\ e.op = "cancel" /\ e.ec = "ENOENT"
  BY TakeFacts DEF Cqe, CancelCqe, Ecs
<1> HIDE DEF e
<1>3. /\ cq \in Seq(Cqe) /\ cq' \in Seq(Cqe)
      /\ \A i \in 1..Len(cq') : (i \in 1..Len(cq) /\ cq'[i] = cq[i]) \/ cq'[i] = e
  BY <1>1, <1>2, Entries DEF IInv, TypeOK
<1>4. \A op : OfOp(cq', op) = OfOp(cq, op) + Bit(op = "cancel")
  BY <1>1, <1>2, <1>3, Laws DEF OpLaws, Bit
<1>5. /\ \A op : OfOp(sq, op) = OfOp(sq', op) + Bit(op = "cancel")
      /\ \A op : OfOp(sq, op) \in Nat /\ OfOp(sq', op) \in Nat /\ OfOp(cq, op) \in Nat
  BY TakeFacts DEF Bit
<1>6. /\ OfOp(sq', "timeout") = OfOp(sq, "timeout")
      /\ OfOp(cq', "timeout") = OfOp(cq, "timeout")
      /\ OfOp(sq', "cancel") + 1 = OfOp(sq, "cancel")
      /\ OfOp(cq', "cancel") = OfOp(cq, "cancel") + 1
  BY <1>4, <1>5 DEF Bit
<1>7. /\ OfOp(sq', "timeout") + OfOp(cq', "timeout") + Bit(armed' # 0)
            = OfOp(sq, "timeout") + OfOp(cq, "timeout") + Bit(armed # 0)
      /\ OfOp(sq', "cancel") + OfOp(cq', "cancel")
            = OfOp(sq, "cancel") + OfOp(cq, "cancel")
  BY <1>1, <1>5, <1>6 DEF Bit
<1>8. UNCHANGED <<tf, cf, confirmed, waits, result, co, back>>
  BY TakeFacts
<1>9. Leave'
  BY <1>1, <1>6, <1>8 DEF IInv, Leave, Leaving
<1>10. \A i \in 1..Len(cq') : cq'[i].op = "timeout" =>
          i \in 1..Len(cq) /\ cq'[i] = cq[i]
  BY <1>2, <1>3
<1>11. Marks'
  <2>1. \A w : Marked(w)' => Marked(w)
    BY <1>2, <1>3, <1>8 DEF Marked
  <2>2. armed' = armed
    BY <1>1
  <2>3. QED BY <1>6, <1>8, <1>10, <2>1, <2>2 DEF IInv, Marks
<1>12. \A i \in 1..Len(cq') : cq'[i].op = "timeout" =>
          MustCancel /\ cq'[i].wait = tf.wait /\ cq'[i].ec # "ENOENT"
  BY <1>10 DEF IInv, Flight
<1>13. armed' \in 0..MaxWaits /\ armed' = 0
  BY <1>1, TakeFacts
<1>14. QED BY <1>3, <1>7, <1>9, <1>11, <1>12, <1>13, TakeFacts, KernelMoves

\* A cancel ends the timeout the kernel holds: no other one is in flight.
LEMMA CancelledFacts ==
    ASSUME IInv, KernelTakes, armed # 0, armed' = 0,
           Head(sq).op # "timeout",
           NEW new, cq' \in Seq(Cqe),
           \A i \in 1..Len(cq') :
              \/ i \in 1..Len(cq) /\ cq'[i] = cq[i]
              \/ cq'[i] = TimeoutCqe("ECANCELED")
              \/ cq'[i] = new,
           new.op = "cancel", new.ec = "ok" => new.wait = armed,
           OfOp(cq', "timeout") = OfOp(cq, "timeout") + 1,
           OfOp(cq', "cancel") = OfOp(cq, "cancel") + Bit(Head(sq).op = "cancel")
    PROVE  IInv'
<1> DEFINE e == TimeoutCqe("ECANCELED")
<1>1. armed = tf.wait /\ MustCancel /\ armed \in 1..waits /\ tf.initiated /\ ~tf.done
  BY DEF IInv, Flight, Frames, MustCancel
<1>2. e.op = "timeout" /\ e.ec = "ECANCELED" /\ e.wait = tf.wait
  BY <1>1 DEF TimeoutCqe
<1>3. /\ \A op : OfOp(sq, op) = OfOp(sq', op) + Bit(Head(sq).op = op)
      /\ \A op : OfOp(sq, op) \in Nat /\ OfOp(sq', op) \in Nat /\ OfOp(cq, op) \in Nat
  BY TakeFacts
<1>4. OfOp(sq', "timeout") = OfOp(sq, "timeout")
  BY <1>3 DEF Bit
<1>5. pc = "submit"
  BY TakeFacts
<1>6. OfOp(sq, "timeout") + OfOp(cq, "timeout") + Bit(armed # 0) = 1
  BY <1>1, <1>5 DEF IInv, Flight, Bit
<1>7. OfOp(sq, "timeout") = 0 /\ OfOp(cq, "timeout") = 0
  BY <1>3, <1>6 DEF Bit
<1>8. \A i \in 1..Len(cq) : cq[i].op # "timeout"
  BY <1>7, TakeFacts, Laws DEF OpLaws
<1>9. /\ OfOp(sq', "timeout") + OfOp(cq', "timeout") + Bit(armed' # 0)
            = OfOp(sq, "timeout") + OfOp(cq, "timeout") + Bit(armed # 0)
      /\ OfOp(sq', "cancel") + OfOp(cq', "cancel")
            = OfOp(sq, "cancel") + OfOp(cq, "cancel")
  BY <1>3, <1>4, <1>7 DEF Bit
<1> HIDE DEF e
<1>10. \A i \in 1..Len(cq') : cq'[i].op = "timeout" => cq'[i] = e
  BY <1>8 DEF e
<1>11. \A i \in 1..Len(cq') : cq'[i].op = "timeout" =>
          MustCancel /\ cq'[i].wait = tf.wait /\ cq'[i].ec # "ENOENT"
  BY <1>1, <1>2, <1>10
<1>12. UNCHANGED <<tf, cf, confirmed, waits, result, co, back>>
  BY TakeFacts
<1>13. Leave'
  BY <1>4, <1>7, <1>12 DEF Leave, Leaving
<1>14. Marks'
  <2>1. ASSUME NEW w, Marked(w)', w # armed PROVE Marked(w)
    <3>1. CASE \E i \in 1..Len(cq') :
                  cq'[i].op = "cancel" /\ cq'[i].ec = "ok" /\ cq'[i].wait = w
      <4>1. PICK i \in 1..Len(cq') :
                  cq'[i].op = "cancel" /\ cq'[i].ec = "ok" /\ cq'[i].wait = w
        BY <3>1
      <4>2. i \in 1..Len(cq) /\ cq'[i] = cq[i]
        BY <1>2, <2>1, <4>1 DEF e
      <4>3. QED BY <4>1, <4>2 DEF Marked
    <3>2. QED BY <1>12, <2>1, <3>1 DEF Marked
  <2>2. result[armed] = "none"
    BY <1>1 DEF IInv, Results
  <2>3. ASSUME NEW w \in 0..MaxWaits, Marked(w)'
        PROVE  w \in 1..waits /\ result[w] \in {"none", "ECANCELED"}
    BY <1>1, <2>1, <2>2, <2>3 DEF IInv, Marks
  <2>4. /\ armed' = 0 /\ OfOp(sq', "timeout") = 0 /\ ~tf.done
        /\ \A i \in 1..Len(cq') : cq'[i].op = "timeout" => cq'[i].ec = "ECANCELED"
    BY <1>1, <1>2, <1>4, <1>7, <1>10
  <2>5. QED BY <1>12, <2>3, <2>4 DEF Marks
<1>15. armed' \in 0..MaxWaits
  BY TimerAssumption
<1>16. QED BY <1>9, <1>11, <1>13, <1>14, <1>15, TakeFacts, KernelMoves

\* async_cancel finds the timeout; the two complete in either order.
LEMMA TakeCancelHitIInv ==
    ASSUME IInv, KernelTakes, Head(sq).op = "cancel", armed # 0
    PROVE  IInv'
<1> DEFINE x == CancelCqe("ok")
           y == TimeoutCqe("ECANCELED")
<1>1. armed' = 0 /\ (cq' = cq \o <<x, y>> \/ cq' = cq \o <<y, x>>)
  BY DEF KernelTakes
<1>2. cq \in Seq(Cqe) /\ armed \in 0..MaxWaits
  BY TakeFacts
<1>3. /\ x \in Cqe /\ x.op = "cancel" /\ x.wait = armed
      /\ y \in Cqe /\ y.op = "timeout"
  BY <1>2 DEF Cqe, CancelCqe, TimeoutCqe, Ecs
<1> HIDE DEF x, y
<1>4. /\ cq' \in Seq(Cqe)
      /\ \A i \in 1..Len(cq') :
            \/ i \in 1..Len(cq) /\ cq'[i] = cq[i]
            \/ cq'[i] = y
            \/ cq'[i] = x
      /\ \A op : OfOp(cq', op) = OfOp(cq, op) + Bit(x.op = op) + Bit(y.op = op)
  <2>1. \A op : OfOp(cq, op) \in Nat
    BY TakeFacts
  <2>2. CASE cq' = cq \o <<x, y>>
    BY <1>2, <1>3, <2>2, TwoEntries
  <2>3. CASE cq' = cq \o <<y, x>>
    <3>1. /\ cq' \in Seq(Cqe)
          /\ \A i \in 1..Len(cq') :
                \/ i \in 1..Len(cq) /\ cq'[i] = cq[i]
                \/ cq'[i] = y
                \/ cq'[i] = x
          /\ \A op : OfOp(cq', op) = OfOp(cq, op) + Bit(y.op = op) + Bit(x.op = op)
      BY <1>2, <1>3, <2>3, TwoEntries
    <3>2. ASSUME NEW op
          PROVE  OfOp(cq', op) = OfOp(cq, op) + Bit(x.op = op) + Bit(y.op = op)
      <4>1. OfOp(cq', op) = OfOp(cq, op) + Bit(y.op = op) + Bit(x.op = op)
        BY <3>1
      <4>2. Bit(x.op = op) \in Nat /\ Bit(y.op = op) \in Nat /\ OfOp(cq, op) \in Nat
        BY <2>1 DEF Bit
      <4>3. QED BY <4>1, <4>2
    <3>3. QED BY <3>1, <3>2
  <2>4. QED BY <1>1, <2>2, <2>3
<1>5. /\ OfOp(cq', "timeout") = OfOp(cq, "timeout") + 1
      /\ OfOp(cq', "cancel") = OfOp(cq, "cancel") + Bit(Head(sq).op = "cancel")
  <2>1. \A op : OfOp(cq, op) \in Nat
    BY TakeFacts
  <2>2. QED BY <1>3, <1>4, <2>1 DEF Bit
<1>6. QED BY <1>1, <1>3, <1>4, <1>5, CancelledFacts DEF y

\* The cancel of ~timer_awaitable: only the timeout completes.
LEMMA TakeDropIInv ==
    ASSUME IInv, KernelTakes, Head(sq).op = "drop"
    PROVE  IInv'
<1>1. armed' = 0 /\ cq' = IF armed = 0 THEN cq
                          ELSE Append(cq, TimeoutCqe("ECANCELED"))
  BY DEF KernelTakes
<1>2. cq \in Seq(Cqe) /\ armed \in 0..MaxWaits
  BY TakeFacts
<1>3. /\ \A op : OfOp(sq, op) = OfOp(sq', op) + Bit(op = "drop")
      /\ \A op : OfOp(sq, op) \in Nat /\ OfOp(sq', op) \in Nat /\ OfOp(cq, op) \in Nat
  BY TakeFacts DEF Bit
<1>4. CASE armed # 0
  <2> DEFINE y == TimeoutCqe("ECANCELED")
             x == CancelCqe("ok")
  <2>1. y \in Cqe /\ y.op = "timeout" /\ x.op = "cancel" /\ x.wait = armed
    BY <1>2 DEF Cqe, CancelCqe, TimeoutCqe, Ecs
  <2>2. cq' = Append(cq, y)
    BY <1>1, <1>4
  <2> HIDE DEF x, y
  <2>3. /\ cq' \in Seq(Cqe)
        /\ \A i \in 1..Len(cq') : (i \in 1..Len(cq) /\ cq'[i] = cq[i]) \/ cq'[i] = y
    BY <1>2, <2>1, <2>2, Entries
  <2>4. \A op : OfOp(cq', op) = OfOp(cq, op) + Bit(y.op = op)
    BY <1>2, <2>1, <2>2, Laws DEF OpLaws
  <2>5. /\ OfOp(cq', "timeout") = OfOp(cq, "timeout") + 1
        /\ OfOp(cq', "cancel") = OfOp(cq, "cancel") + Bit(Head(sq).op = "cancel")
    BY <1>3, <2>1, <2>4 DEF Bit
  <2>6. \A i \in 1..Len(cq') :
              \/ i \in 1..Len(cq) /\ cq'[i] = cq[i]
              \/ cq'[i] = TimeoutCqe("ECANCELED")
              \/ cq'[i] = x
    BY <2>3 DEF y
  <2>7. QED BY <1>1, <1>4, <2>1, <2>3, <2>5, <2>6, CancelledFacts
<1>5. CASE armed = 0
  <2>1. UNCHANGED <<tf, cf, confirmed, waits, result, co, back, cq, armed>>
    BY <1>1, <1>5, TakeFacts
  <2>2. /\ OfOp(sq', "timeout") = OfOp(sq, "timeout")
        /\ OfOp(sq', "cancel") = OfOp(sq, "cancel")
    BY <1>3 DEF Bit
  <2>3. Leave'
    BY <1>5, <2>1, <2>2 DEF IInv, Leave, Leaving
  <2>4. Marks'
    <3>1. \A w : Marked(w)' => Marked(w)
      BY <2>1 DEF Marked
    <3>2. QED BY <2>1, <2>2, <3>1 DEF IInv, Marks
  <2>5. \A i \in 1..Len(cq') : cq'[i].op = "timeout" =>
           MustCancel /\ cq'[i].wait = tf.wait /\ cq'[i].ec # "ENOENT"
    BY <2>1 DEF IInv, Flight
  <2>6. /\ OfOp(sq', "timeout") + OfOp(cq', "timeout") + Bit(armed' # 0)
              = OfOp(sq, "timeout") + OfOp(cq, "timeout") + Bit(armed # 0)
        /\ OfOp(sq', "cancel") + OfOp(cq', "cancel")
              = OfOp(sq, "cancel") + OfOp(cq, "cancel")
    BY <2>1, <2>2
  <2>7. cq' \in Seq(Cqe) /\ armed' \in 0..MaxWaits /\ armed' = 0
    BY <1>2, <1>5, <2>1
  <2>8. QED BY <2>3, <2>4, <2>5, <2>6, <2>7, TakeFacts, KernelMoves
<1>6. QED BY <1>4, <1>5

\* An operation less, a reference less.
LEMMA ExactGives ==
    ASSUME Exact, refs \in Nat, pc # "end", refs' = refs - 1,
           UNCHANGED <<pc, sq, armed, co>>,
           \A op : OfOp(sq, op) \in Nat /\ OfOp(cq, op) \in Nat /\ OfOp(cq', op) \in Nat,
           \A f, S : Pop(f, Coros, S) \in Nat,
           OfOp(cq, "timeout") + OfOp(cq, "cancel")
             = OfOp(cq', "timeout") + OfOp(cq', "cancel") + 1
    PROVE  refs' \in Nat /\ Exact'
BY DEF Exact, Bit

\* A CQE is taken and the reference of its operation given back.
LEMMA CqeFacts ==
    ASSUME IInv, cq # <<>>, cq' = Tail(cq), refs' = refs - 1,
           UNCHANGED <<pc, sq, armed, co>>
    PROVE  /\ cq' \in Seq(Cqe) /\ Head(cq) \in Cqe
           /\ 1 \in 1..Len(cq) /\ Head(cq) = cq[1]
           /\ \A i \in 1..Len(cq') : i + 1 \in 1..Len(cq) /\ cq'[i] = cq[i + 1]
           /\ \A op : OfOp(cq, op) = OfOp(cq', op) + Bit(Head(cq).op = op)
           /\ \A op : OfOp(sq, op) \in Nat /\ OfOp(cq, op) \in Nat /\ OfOp(cq', op) \in Nat
           /\ refs' \in Nat /\ Exact'
<1>1. cq \in Seq(Cqe)
  BY DEF IInv, TypeOK
<1>2. /\ cq' \in Seq(Cqe) /\ Head(cq) \in Cqe
      /\ 1 \in 1..Len(cq) /\ Head(cq) = cq[1]
      /\ \A i \in 1..Len(cq') : i + 1 \in 1..Len(cq) /\ cq'[i] = cq[i + 1]
  BY <1>1, TailEntries
<1>3. \A op : OfOp(cq, op) = OfOp(cq', op) + Bit(Head(cq).op = op)
  BY <1>1, Laws DEF OpLaws
<1>4. /\ \A op : OfOp(sq, op) \in Nat /\ OfOp(cq, op) \in Nat /\ OfOp(cq', op) \in Nat
      /\ \A f, S : Pop(f, Coros, S) \in Nat
  BY <1>2, NatFacts, Laws DEF IInv, OpLaws
<1>5. Head(cq).op \in {"timeout", "cancel"}
  BY <1>2 DEF Cqe
<1>6. pc # "end"
  BY DEF IInv, Control
<1>7. OfOp(cq, "timeout") + OfOp(cq, "cancel")
         = OfOp(cq', "timeout") + OfOp(cq', "cancel") + 1
  <2> DEFINE t == OfOp(cq', "timeout")
             k == OfOp(cq', "cancel")
  <2>1. /\ OfOp(cq, "timeout") = t + Bit(Head(cq).op = "timeout")
        /\ OfOp(cq, "cancel") = k + Bit(Head(cq).op = "cancel")
        /\ t \in Nat /\ k \in Nat
    BY <1>3, <1>4
  <2> HIDE DEF t, k
  <2>2. QED BY <1>5, <2>1 DEF Bit, t, k
<1>8. refs' \in Nat /\ Exact'
  BY <1>4, <1>6, <1>7, ExactGives DEF IInv, TypeOK
<1>9. QED BY <1>2, <1>3, <1>4, <1>8

\* What the kernel reported stays reported.
LEMMA MarkedTail ==
    ASSUME IInv, cq # <<>>, cq' = Tail(cq), NEW w,
           \E i \in 1..Len(cq') :
              cq'[i].op = "cancel" /\ cq'[i].ec = "ok" /\ cq'[i].wait = w
    PROVE  Marked(w)
<1>1. cq \in Seq(Cqe)
  BY DEF IInv, TypeOK
<1>2. \A i \in 1..Len(cq') : i + 1 \in 1..Len(cq) /\ cq'[i] = cq[i + 1]
  BY <1>1, TailEntries
<1>3. QED BY <1>2 DEF Marked

\* The timeout completes: the handle of who waits is collected.
LEMMA ReapTimeoutIInv ==
    ASSUME IInv, Reap, Head(cq).op = "timeout"
    PROVE  IInv'
<1> DEFINE e == Head(cq)
           g == [tf EXCEPT !.done = TRUE, !.ec = e.ec, !.h = None]
           c == tf.h
<1>1. /\ pc = "reap" /\ cq # <<>> /\ cq' = Tail(cq) /\ refs' = refs - 1
      /\ UNCHANGED <<co, pc, back, sq, armed, cf, waits, result, confirmed>>
      /\ tf' = g /\ handles' = Collect(c)
  BY DEF Reap, Process, histVars
<1>2. /\ cq' \in Seq(Cqe) /\ e \in Cqe /\ 1 \in 1..Len(cq) /\ e = cq[1]
      /\ \A i \in 1..Len(cq') : i + 1 \in 1..Len(cq) /\ cq'[i] = cq[i + 1]
      /\ \A op : OfOp(cq, op) = OfOp(cq', op) + Bit(op = "timeout")
      /\ \A op : OfOp(sq, op) \in Nat /\ OfOp(cq, op) \in Nat /\ OfOp(cq', op) \in Nat
      /\ refs' \in Nat /\ Exact'
  BY <1>1, CqeFacts DEF Bit
<1>3. MustCancel /\ e.wait = tf.wait /\ e.ec # "ENOENT" /\ e.ec \in Ecs
  BY <1>2 DEF IInv, Flight, Cqe
<1>4. ~Leaving /\ ~Leaving'
  BY <1>1 DEF IInv, Control, Leaving
<1>5. c \in Coros /\ co[c] = "waiting" /\ c # None
  BY <1>3, <1>4 DEF IInv, Frames, Waiters, TypeOK, Frame
<1>6. /\ g \in Frame /\ g.h = None /\ g.initiated = tf.initiated /\ g.done
      /\ g.ec = e.ec /\ g.wait = tf.wait
  <2>1. tf \in Frame
    BY DEF IInv, TypeOK
  <2>2. QED BY <1>3, <2>1 DEF Frame
<1>7. /\ handles' \in Seq(Coros)
      /\ \A d : Times(handles', d) = Times(handles, d) + Bit(c = d)
      /\ \A d : Times(handles, d) \in Nat
  <2>1. handles \in Seq(Coros) /\ handles' = Append(handles, c)
    BY <1>1, <1>5 DEF IInv, TypeOK, Collect
  <2>2. QED BY <1>5, <2>1, Laws DEF TimesLaws
<1>8. /\ UNCHANGED <<co, pc, back, sq, armed, cf, waits, result, confirmed>>
      /\ pc = "reap"
  BY <1>1
<1>9. /\ tf' \in Frame /\ tf'.h = None /\ tf'.initiated /\ tf.initiated /\ tf'.done
      /\ tf'.ec = e.ec /\ tf'.wait = tf.wait /\ ~tf.done
  BY <1>1, <1>3, <1>6 DEF MustCancel
<1> HIDE DEF e, g, c
<1>10. TypeOK'
  BY <1>2, <1>7, <1>8, <1>9 DEF IInv, TypeOK
<1>11. Control' /\ Leave'
  BY <1>4, <1>8 DEF IInv, Control, Leave
<1>12. ~MustCancel' /\ (CancelActive' <=> CancelActive)
  BY <1>8, <1>9 DEF MustCancel, CancelActive
<1>13. Frames'
  BY <1>3, <1>8, <1>9, <1>12 DEF IInv, Frames
<1>14. /\ OfOp(sq, "timeout") = 0 /\ OfOp(cq', "timeout") = 0 /\ armed = 0
       /\ OfOp(cq', "cancel") = OfOp(cq, "cancel")
  <2>1. OfOp(sq, "timeout") + OfOp(cq, "timeout") + Bit(armed # 0) = 1
    BY <1>3, <1>8 DEF IInv, Flight, Bit
  <2>2. OfOp(cq, "timeout") = OfOp(cq', "timeout") + 1
        /\ OfOp(cq, "cancel") = OfOp(cq', "cancel")
    BY <1>2 DEF Bit
  <2>3. QED BY <1>2, <2>1, <2>2 DEF Bit
<1>15. /\ \A i \in 1..Len(sq) : sq[i].op # "timeout"
       /\ \A i \in 1..Len(cq') : cq'[i].op # "timeout"
  BY <1>2, <1>14, Laws DEF IInv, TypeOK, OpLaws
<1>16. Flight'
  <2>1. /\ OfOp(sq', "timeout") + OfOp(cq', "timeout") + Bit(armed' # 0) = 0
        /\ OfOp(sq', "cancel") + OfOp(cq', "cancel") = Bit(CancelActive')
    BY <1>8, <1>12, <1>14 DEF IInv, Flight, Bit
  <2>2. QED BY <1>8, <1>12, <1>14, <1>15, <2>1 DEF Flight, Bit
<1>17. Waiters'
  <2>1. \A d \in Coros \ {c} : co[d] # "waiting"
    BY <1>5 DEF IInv, Frames
  <2>2. QED BY <1>4, <1>5, <1>7, <1>8, <1>9, <2>1 DEF IInv, Waiters, Bit
<1>18. Marks'
  <2>1. ASSUME NEW w, Marked(w)' PROVE Marked(w)
    BY <1>1, <1>8, <2>1, MarkedTail DEF Marked
  <2>2. Marked(tf.wait) /\ tf.wait \in 0..MaxWaits => e.ec = "ECANCELED"
    BY <1>2, <1>9 DEF IInv, Marks, e
  <2>3. QED BY <1>8, <1>9, <1>14, <1>15, <2>1, <2>2 DEF IInv, Marks
<1>19. Results'
  BY <1>8, <1>9 DEF IInv, Results
<1>20. QED
  BY <1>2, <1>10, <1>11, <1>13, <1>16, <1>17, <1>18, <1>19 DEF IInv

\* The cancel completes.
LEMMA ReapCancelIInv ==
    ASSUME IInv, Reap, Head(cq).op # "timeout"
    PROVE  IInv'
<1> DEFINE e == Head(cq)
           g == [cf EXCEPT !.done = TRUE, !.ec = e.ec, !.h = None, !.wait = e.wait]
           c == cf.h
<1>1. /\ pc = "reap" /\ cq # <<>> /\ cq' = Tail(cq) /\ refs' = refs - 1
      /\ UNCHANGED <<co, pc, back, sq, armed, tf, waits, result, confirmed>>
      /\ cf' = g /\ handles' = Collect(c)
  BY DEF Reap, Process, histVars
<1>2. /\ cq' \in Seq(Cqe) /\ e \in Cqe /\ 1 \in 1..Len(cq) /\ e = cq[1]
      /\ \A i \in 1..Len(cq') : i + 1 \in 1..Len(cq) /\ cq'[i] = cq[i + 1]
      /\ \A op : OfOp(cq, op) = OfOp(cq', op) + Bit(e.op = op)
      /\ \A op : OfOp(sq, op) \in Nat /\ OfOp(cq, op) \in Nat /\ OfOp(cq', op) \in Nat
      /\ refs' \in Nat /\ Exact'
  BY <1>1, CqeFacts
<1>3. e.op = "cancel" /\ e.ec \in Ecs /\ e.wait \in 0..MaxWaits
  BY <1>2 DEF Cqe
<1>4. ~Leaving /\ ~Leaving'
  BY <1>1 DEF IInv, Control, Leaving
<1>5. /\ OfOp(cq, "timeout") = OfOp(cq', "timeout")
      /\ OfOp(cq, "cancel") = OfOp(cq', "cancel") + 1
  BY <1>2, <1>3 DEF Bit
<1>6. CancelActive /\ OfOp(sq, "cancel") = 0 /\ OfOp(cq', "cancel") = 0
  <2>1. OfOp(sq, "cancel") + OfOp(cq, "cancel") = Bit(CancelActive)
    BY <1>1 DEF IInv, Flight
  <2>2. QED BY <1>2, <1>5, <2>1 DEF Bit
<1>7. c \in Coros /\ co[c] = "cancelling" /\ c # None
  BY <1>4, <1>6 DEF IInv, Frames, Waiters, TypeOK, Frame
<1>8. /\ g \in Frame /\ g.h = None /\ g.initiated = cf.initiated /\ g.done
      /\ g.ec = e.ec /\ g.wait = e.wait
  <2>1. cf \in Frame
    BY DEF IInv, TypeOK
  <2>2. QED BY <1>3, <2>1 DEF Frame
<1>9. /\ handles' \in Seq(Coros)
      /\ \A d : Times(handles', d) = Times(handles, d) + Bit(c = d)
      /\ \A d : Times(handles, d) \in Nat
  <2>1. handles \in Seq(Coros) /\ handles' = Append(handles, c)
    BY <1>1, <1>7 DEF IInv, TypeOK, Collect
  <2>2. QED BY <1>7, <2>1, Laws DEF TimesLaws
<1>10. /\ UNCHANGED <<co, pc, back, sq, armed, tf, waits, result, confirmed>>
       /\ pc = "reap"
  BY <1>1
<1>11. /\ cf' \in Frame /\ cf'.h = None /\ cf'.initiated /\ cf.initiated /\ cf'.done
       /\ cf'.ec = e.ec /\ cf'.wait = e.wait /\ ~cf.done
  BY <1>1, <1>6, <1>8 DEF CancelActive
<1> HIDE DEF e, g, c
<1>12. TypeOK'
  BY <1>2, <1>9, <1>10, <1>11 DEF IInv, TypeOK
<1>13. Control' /\ Leave'
  BY <1>4, <1>10 DEF IInv, Control, Leave
<1>14. ~CancelActive' /\ (MustCancel' <=> MustCancel)
  BY <1>10, <1>11 DEF MustCancel, CancelActive
<1>15. Frames'
  BY <1>10, <1>11, <1>14 DEF IInv, Frames
<1>16. Flight'
  <2>1. /\ OfOp(sq', "timeout") + OfOp(cq', "timeout") + Bit(armed' # 0) = Bit(MustCancel')
        /\ OfOp(sq', "cancel") + OfOp(cq', "cancel") = Bit(CancelActive')
    BY <1>5, <1>6, <1>10, <1>14 DEF IInv, Flight, Bit
  <2>2. \A i \in 1..Len(cq') : cq'[i].op = "timeout" =>
          MustCancel' /\ cq'[i].wait = tf'.wait /\ cq'[i].ec # "ENOENT"
    <3>1. \A i \in 1..Len(cq') : \E j \in 1..Len(cq) : cq'[i] = cq[j]
      BY <1>2
    <3>2. UNCHANGED tf
      BY <1>10
    <3>3. QED BY <1>14, <3>1, <3>2 DEF IInv, Flight
  <2>3. QED BY <1>10, <1>14, <2>1, <2>2 DEF IInv, Flight
<1>17. Waiters'
  <2>1. \A d \in Coros \ {c} : co[d] # "cancelling"
    BY <1>7 DEF IInv, Frames
  <2>2. QED BY <1>4, <1>7, <1>9, <1>10, <1>11, <2>1 DEF IInv, Waiters, Bit
<1>18. Marks'
  <2>1. e.ec = "ok" => Marked(e.wait)
    BY <1>2, <1>3 DEF Marked
  <2>2. ASSUME NEW w, Marked(w)' PROVE Marked(w)
    BY <1>1, <1>10, <1>11, <2>1, <2>2, MarkedTail DEF Marked
  <2>3. \A i \in 1..Len(cq') : \E j \in 1..Len(cq) : cq'[i] = cq[j]
    BY <1>2
  <2>4. QED BY <1>10, <2>2, <2>3 DEF IInv, Marks
<1>19. Results'
  BY <1>10 DEF IInv, Results
<1>20. QED
  BY <1>2, <1>12, <1>13, <1>15, <1>16, <1>17, <1>18, <1>19 DEF IInv

\* A coroutine is destroyed with its awaitable: who waited cancels its timeout.
LEMMA DestroyCoroIInv ==
    ASSUME IInv, NEW c \in Coros, DestroyCoro(c)
    PROVE  IInv'
<1>1. /\ pc = "abort" /\ co[c] \in Alive /\ Leaving /\ sq = <<>>
      /\ UNCHANGED <<tf, cf, handles, armed, cq, waits, result, confirmed>>
      /\ refs' = refs - (IF co[c] = "idle" THEN 1 ELSE 2)
  BY DEF DestroyCoro, IInv, TypeOK, Alive, Control, histVars
<1>2. /\ co' \in [Coros -> {"idle", "waiting", "cancelling", "gone"}]
      /\ co'[c] = "gone" /\ \A d \in Coros \ {c} : co'[d] = co[d]
  BY DEF DestroyCoro, IInv, TypeOK
<1>3. OfOp(sq, "timeout") = 0 /\ OfOp(sq, "cancel") = 0
  BY <1>1, Laws DEF OpLaws
<1>4. /\ sq' \in Seq(Sqe) /\ back' = "abort" /\ pc' \in {"abort", "submit"}
      /\ pc' = "abort" => sq' = <<>>
      /\ OfOp(sq', "timeout") = 0 /\ OfOp(sq', "cancel") = 0
      /\ \A i \in 1..Len(sq') : sq'[i].op # "timeout"
      /\ co[c] = "waiting" /\ MustCancel => OfOp(sq', "drop") > 0
  <2>1. CASE co[c] = "waiting" /\ MustCancel
    <3>1. /\ sq' = Append(sq, [op |-> "drop", wait |-> 0])
          /\ pc' = "submit" /\ back' = "abort"
      BY <2>1 DEF DestroyCoro, DropCancel
    <3>2. /\ sq' \in Seq(Sqe) /\ OfOp(sq', "timeout") = 0 /\ OfOp(sq', "cancel") = 0
          /\ OfOp(sq', "drop") > 0
      BY <1>3, <3>1, DropFacts DEF IInv
    <3>3. \A i \in 1..Len(sq') : sq'[i].op # "timeout"
      BY <3>2, Laws DEF OpLaws
    <3>4. QED BY <3>1, <3>2, <3>3
  <2>2. CASE ~(co[c] = "waiting" /\ MustCancel)
    <3>1. UNCHANGED <<sq, pc, back>>
      BY <2>2 DEF DestroyCoro, DropCancel
    <3>2. \A i \in 1..Len(sq) : sq[i].op # "timeout"
      BY <1>1
    <3>3. QED BY <1>1, <1>3, <2>2, <3>1, <3>2 DEF IInv, TypeOK, Leaving
  <2>3. QED BY <2>1, <2>2
<1>5. /\ \A op : OfOp(sq, op) \in Nat /\ OfOp(cq, op) \in Nat
      /\ \A f, S : Pop(f, Coros, S) \in Nat
  BY NatFacts DEF IInv
<1>6. refs' \in Nat /\ Exact'
  <2>1. /\ Pop(co', Coros, Alive) + 1 = Pop(co, Coros, Alive)
        /\ Pop(co', Coros, Busy) + Bit(co[c] \in Busy) = Pop(co, Coros, Busy)
    <3>1. co[c] \in Alive /\ co'[c] \notin Alive /\ co'[c] \notin Busy
      BY <1>1, <1>2 DEF Alive, Busy
    <3>2. QED BY <1>2, <1>5, <3>1, OneMoves DEF Bit
  <2>2. co[c] \in Busy <=> co[c] # "idle"
    BY <1>1 DEF Alive, Busy
  <2>3. /\ refs' = refs - (IF co[c] = "idle" THEN 1 ELSE 2)
        /\ UNCHANGED <<cq, armed>> /\ pc # "end" /\ pc' # "end"
    BY <1>1, <1>4
  <2>4. refs' = refs - 1 - Bit(co[c] \in Busy) /\ refs \in Nat
    BY <2>2, <2>3 DEF Bit, IInv, TypeOK
  <2>5. /\ OfOp(sq', "timeout") = OfOp(sq, "timeout")
        /\ OfOp(sq', "cancel") = OfOp(sq, "cancel")
    BY <1>3, <1>4
  <2>6. QED BY <1>5, <2>1, <2>3, <2>4, <2>5 DEF IInv, Exact, Bit
<1>7. UNCHANGED <<tf, cf, handles, armed, cq, waits, result, confirmed>>
  BY <1>1
<1>8. TypeOK'
  BY <1>2, <1>4, <1>6, <1>7 DEF IInv, TypeOK
<1>9. Leaving' /\ UNCHANGED <<MustCancel, CancelActive>>
  BY <1>4, <1>7 DEF Leaving, MustCancel, CancelActive
<1>10. Control'
  BY <1>4, <1>9 DEF Control
<1>11. Frames'
  <2>1. \A d \in Coros : /\ co'[d] = "waiting" => co[d] = "waiting"
                         /\ co'[d] = "cancelling" => co[d] = "cancelling"
    BY <1>2
  <2>2. QED BY <1>7, <1>9, <2>1 DEF IInv, Frames
<1>12. Flight'
  <2>1. pc \notin {"flush", "end"}
    BY <1>1
  <2>2. /\ OfOp(sq', "timeout") + OfOp(cq', "timeout") + Bit(armed' # 0)
              = Bit(MustCancel')
        /\ OfOp(sq', "cancel") + OfOp(cq', "cancel") = Bit(CancelActive')
    BY <1>3, <1>4, <1>7, <1>9, <2>1 DEF IInv, Flight
  <2>3. QED BY <1>4, <1>7, <1>9, <2>2 DEF IInv, Flight
<1>13. Waiters'
  BY <1>9 DEF Waiters
<1>14. Leave'
  <2>1. CASE co[c] = "waiting"
    <3>1. armed # 0 => MustCancel
      BY DEF IInv, Flight
    <3>2. QED BY <1>4, <1>7, <2>1, <3>1 DEF Leave
  <2>2. CASE co[c] # "waiting"
    <3>1. CASE \E d \in Coros : co[d] = "waiting"
      <4>1. PICK d \in Coros : co[d] = "waiting"
        BY <3>1
      <4>2. co'[d] = "waiting"
        BY <1>2, <2>2, <4>1
      <4>3. QED BY <4>2 DEF Leave
    <3>2. CASE ~\E d \in Coros : co[d] = "waiting"
      <4>1. OfOp(sq, "drop") = 0
        BY <1>1, Laws DEF OpLaws
      <4>2. armed = 0
        BY <1>1, <3>2, <4>1 DEF IInv, Leave
      <4>3. QED BY <1>4, <1>7, <4>2 DEF Leave
    <3>3. QED BY <3>1, <3>2
  <2>3. QED BY <2>1, <2>2
<1>15. Marks'
  <2>1. \A w : Marked(w)' => Marked(w)
    BY <1>7 DEF Marked
  <2>2. OfOp(sq', "timeout") = OfOp(sq, "timeout")
    BY <1>3, <1>4
  <2>3. QED BY <1>7, <2>1, <2>2 DEF IInv, Marks
<1>16. Results'
  BY <1>7 DEF IInv, Results
<1>17. QED
  BY <1>6, <1>8, <1>10, <1>11, <1>12, <1>13, <1>14, <1>15, <1>16 DEF IInv

\* Once nobody waits the kernel holds no timeout.
LEMMA NothingArmed ==
    ASSUME IInv, sq = <<>>, Leaving, \A c \in Coros : co[c] = "gone"
    PROVE  armed = 0 /\ \A op : OfOp(sq, op) = 0
<1>1. \A op : OfOp(sq, op) = 0
  BY Laws DEF OpLaws
<1>2. QED BY <1>1 DEF IInv, Leave

\* The coroutines are gone; the handles collected are forgotten.
LEMMA FlushStartIInv ==
    ASSUME IInv, FlushStart
    PROVE  IInv'
<1>1. /\ UNCHANGED <<tf, cf, refs, co, back, sq, armed, cq, waits, result, confirmed>>
      /\ pc = "abort" /\ pc' = "flush" /\ handles' = <<>>
      /\ \A c \in Coros : co[c] = "gone"
  BY DEF FlushStart, frameVars, kernVars, histVars
<1>2. Leaving /\ Leaving' /\ sq = <<>> /\ UNCHANGED <<MustCancel, CancelActive>>
  BY <1>1 DEF IInv, Control, Leaving, MustCancel, CancelActive
<1>3. TypeOK'
  BY <1>1 DEF IInv, TypeOK
<1>4. Exact'
  BY <1>1 DEF IInv, Exact, Bit
<1>5. Control' /\ Waiters'
  BY <1>1, <1>2 DEF Control, Waiters
<1>6. Frames' /\ Flight'
  BY <1>1, <1>2 DEF IInv, Frames, Flight
<1>7. Leave' /\ Results'
  BY <1>1, <1>2 DEF IInv, Leave, Results
<1>8. Marks'
  BY <1>1 DEF IInv, Marks, Marked
<1>9. QED BY <1>3, <1>4, <1>5, <1>6, <1>7, <1>8 DEF IInv

\* ~guard releases what completed.
LEMMA FlushIInv ==
    ASSUME IInv, Flush
    PROVE  IInv'
<1>1. /\ UNCHANGED <<tf, cf, co, handles, pc, back, sq, armed, waits, result, confirmed>>
      /\ pc = "flush" /\ cq # <<>> /\ cq' = Tail(cq) /\ refs' = refs - 1
  BY DEF Flush, loopVars, histVars
<1>2. /\ cq' \in Seq(Cqe) /\ refs' \in Nat /\ Exact'
      /\ \A i \in 1..Len(cq') : i + 1 \in 1..Len(cq) /\ cq'[i] = cq[i + 1]
  BY <1>1, CqeFacts
<1>3. \A i \in 1..Len(cq') : \E j \in 1..Len(cq) : cq'[i] = cq[j]
  BY <1>2
<1>4. ASSUME NEW w, Marked(w)' PROVE Marked(w)
  BY <1>1, <1>4, MarkedTail DEF Marked
<1>5. /\ UNCHANGED <<tf, cf, co, handles, pc, back, sq, armed, waits, result, confirmed>>
      /\ pc = "flush" /\ UNCHANGED <<MustCancel, CancelActive, Leaving>>
  BY <1>1 DEF MustCancel, CancelActive, Leaving
<1>6. TypeOK'
  BY <1>2, <1>5 DEF IInv, TypeOK
<1>7. Control' /\ Waiters'
  BY <1>5 DEF IInv, Control, Waiters
<1>8. Frames' /\ Flight'
  BY <1>3, <1>5 DEF IInv, Frames, Flight
<1>9. Leave' /\ Results'
  BY <1>5 DEF IInv, Leave, Results
<1>10. Marks'
  BY <1>3, <1>4, <1>5 DEF IInv, Marks
<1>11. QED BY <1>2, <1>6, <1>7, <1>8, <1>9, <1>10 DEF IInv

\* The owner lets go of the timer, which is freed.
LEMMA FlushDoneIInv ==
    ASSUME IInv, FlushDone
    PROVE  IInv'
<1>1. /\ UNCHANGED <<tf, cf, co, handles, back, sq, armed, cq, waits, result, confirmed>>
      /\ pc = "flush" /\ cq = <<>> /\ pc' = "end" /\ refs' = refs - 1
  BY DEF FlushDone, kernVars, histVars
<1>2. /\ Leaving /\ sq = <<>> /\ \A c \in Coros : co[c] = "gone"
      /\ UNCHANGED <<MustCancel, CancelActive, Leaving>>
  BY <1>1 DEF IInv, Control, MustCancel, CancelActive, Leaving
<1>3. armed = 0 /\ \A op : OfOp(sq, op) = 0
  BY <1>2, NothingArmed
<1>4. \A op : OfOp(cq, op) = 0
  BY <1>1, Laws DEF OpLaws
<1>5. Pop(co, Coros, Alive) = 0 /\ Pop(co, Coros, Busy) = 0
  <2>1. \A c \in Coros : co[c] \notin Alive /\ co[c] \notin Busy
    BY <1>2 DEF Alive, Busy
  <2>2. QED BY <2>1, PopZero, TimerAssumption
<1>6. refs = 1 /\ refs' = 0
  <2>1. refs = Bit(pc # "end")
    BY <1>3, <1>4, <1>5 DEF IInv, Exact, Bit
  <2>2. QED BY <1>1, <2>1 DEF Bit
<1>7. Exact'
  <2>1. UNCHANGED <<sq, armed, cq, co>> /\ pc' = "end"
    BY <1>1
  <2>2. QED BY <1>3, <1>4, <1>5, <1>6, <2>1 DEF Exact, Bit
<1>8. TypeOK'
  BY <1>1, <1>6 DEF IInv, TypeOK
<1>9. Control' /\ Waiters'
  BY <1>1, <1>2 DEF Control, Waiters
<1>10. Frames' /\ Flight'
  BY <1>1, <1>2 DEF IInv, Frames, Flight
<1>11. Leave' /\ Results'
  BY <1>1, <1>2 DEF IInv, Leave, Results
<1>12. Marks'
  BY <1>1 DEF IInv, Marks, Marked
<1>13. QED
  BY <1>7, <1>8, <1>9, <1>10, <1>11, <1>12 DEF IInv

-----------------------------------------------------------------------------
(* The theorems.                                                           *)

\* Every step keeps the invariant.
LEMMA NextIInv ==
    ASSUME IInv, [Next]_vars
    PROVE  IInv'
<1>1. CASE UserStep
  <2>1. PICK c \in Coros : AsyncWait(c) \/ AsyncWaitBusy(c) \/ AsyncCancel(c)
    BY <1>1 DEF UserStep
  <2>2. QED BY <2>1, AsyncWaitIInv, AsyncWaitBusyIInv, AsyncCancelIInv
<1>2. CASE LoopStep
  <2>1. CASE Resume
    <3>1. WaitReturns(Head(handles)) \/ CancelReturns(Head(handles))
      BY <2>1 DEF Resume
    <3>2. QED BY <2>1, <3>1, WaitReturnsIInv, CancelReturnsIInv
  <2>2. CASE SubmitAndWait \/ SubmitDone \/ ReapDone
    BY <2>2, LoopMovesIInv
  <2>3. CASE KernelTakes
    <3>1. Head(sq).op \in {"timeout", "cancel", "drop"}
      BY <2>3, TakeFacts
    <3>2. QED BY <2>3, <3>1, TakeTimeoutIInv, TakeCancelMissIInv,
                 TakeCancelHitIInv, TakeDropIInv
  <2>4. CASE Reap
    BY <2>4, ReapTimeoutIInv, ReapCancelIInv
  <2>5. CASE FlushStart \/ Flush \/ FlushDone
    BY <2>5, FlushStartIInv, FlushIInv, FlushDoneIInv
  <2>6. CASE \E c \in Coros : DestroyCoro(c)
    BY <2>6, DestroyCoroIInv
  <2>7. QED BY <1>2, <2>1, <2>2, <2>3, <2>4, <2>5, <2>6 DEF LoopStep
<1>3. CASE KernelExpires
  BY <1>3, KernelExpiresIInv
<1>4. CASE SubmitFull
  BY <1>4, LoopMovesIInv
<1>5. CASE Abort
  BY <1>5, AbortIInv
<1>6. CASE UNCHANGED vars
  <2>1. /\ UNCHANGED <<tf, cf, refs, co, handles, pc, back>>
        /\ UNCHANGED <<sq, armed, cq, waits, result, confirmed>>
    BY <1>6 DEF vars, frameVars, loopVars, kernVars, histVars
  <2>2. UNCHANGED <<MustCancel, CancelActive, Leaving>>
    BY <2>1 DEF MustCancel, CancelActive, Leaving
  <2>3. TypeOK' /\ Exact'
    BY <2>1 DEF IInv, TypeOK, Exact
  <2>4. Control' /\ Frames' /\ Flight'
    BY <2>1, <2>2 DEF IInv, Control, Frames, Flight
  <2>5. Waiters' /\ Leave' /\ Results'
    BY <2>1, <2>2 DEF IInv, Waiters, Leave, Results
  <2>6. Marks'
    BY <2>1 DEF IInv, Marks, Marked
  <2>7. QED BY <2>3, <2>4, <2>5, <2>6 DEF IInv
<1>7. QED BY <1>1, <1>2, <1>3, <1>4, <1>5, <1>6 DEF Next

\* The invariant holds of every behaviour of the timer.
THEOREM Inductive == Spec => []IInv
<1>1. Init => IInv
  BY InitIInv
<1>2. IInv /\ [Next]_vars => IInv'
  BY NextIInv
<1>3. QED BY <1>1, <1>2, PTL DEF Spec

\* References: the count of the timer_impl is exact at every moment, for any
\* number of coroutines and waits, and 0 at the end: the timer is freed when,
\* and only when, neither a coroutine nor the kernel knows of it any more.
THEOREM ReferencesHold == Spec => []References
<1>1. IInv => References
  BY ExactIsRefCount DEF IInv, References
<1>2. QED BY <1>1, Inductive, PTL

\* The counts of the invariant are those ResumedOnce speaks of.
LEMMA FlightCounts ==
    ASSUME IInv, pc \notin {"flush", "end"}
    PROVE  Timeouts = Bit(MustCancel) /\ Cancels = Bit(CancelActive)
<1>1. /\ InSq("timeout") = OfOp(sq, "timeout") /\ InCq("timeout") = OfOp(cq, "timeout")
      /\ InSq("cancel") = OfOp(sq, "cancel") /\ InCq("cancel") = OfOp(cq, "cancel")
  BY DEF InSq, InCq, OfOp
<1>2. \A op : OfOp(sq, op) \in Nat /\ OfOp(cq, op) \in Nat
  BY NatFacts DEF IInv
<1>3. QED BY <1>1, <1>2 DEF Timeouts, Cancels, IInv, Flight, Bit

\* Resumption: who waits or cancels is resumed exactly once, by the completion
\* of its own operation; a late completion never meets the next wait.
THEOREM ResumptionHolds == Spec => []Resumption
<1>1. IInv => CompletionsAreOfThisWait
  BY DEF IInv, Flight, CompletionsAreOfThisWait, MustCancel
<1>2. IInv => ResumedOnce
  <2> SUFFICES ASSUME IInv, pc \in {"user", "submit", "reap"}, back # "abort",
                      NEW c \in Coros
               PROVE  Times(handles, c) =
                        CASE co[c] = "waiting"    -> IF tf.h = c THEN 1 - Timeouts ELSE 1
                          [] co[c] = "cancelling" -> IF cf.h = c THEN 1 - Cancels ELSE 1
                          [] OTHER                -> 0
    BY DEF ResumedOnce, Times
  <2>1. ~Leaving /\ Timeouts = Bit(MustCancel) /\ Cancels = Bit(CancelActive)
    BY FlightCounts DEF Leaving
  <2>2. c # None
    BY TimerAssumption
  <2>3. CASE co[c] = "waiting"
    <3>1. Times(handles, c) = Bit(tf.done) /\ tf.initiated
      BY <2>1, <2>3 DEF IInv, Waiters, Bit
    <3>2. tf.h = c => MustCancel
      BY <2>2 DEF IInv, Frames
    <3>3. tf.h # c => ~MustCancel
      BY <2>1, <2>3 DEF IInv, Frames, Waiters, TypeOK, Frame
    <3>4. tf.h = c => Times(handles, c) = 1 - Timeouts
      BY <2>1, <3>1, <3>2 DEF MustCancel, Bit
    <3>5. tf.h # c => Times(handles, c) = 1
      BY <3>1, <3>3 DEF MustCancel, Bit
    <3>6. QED BY <2>3, <3>4, <3>5
  <2>4. CASE co[c] = "cancelling"
    <3>1. Times(handles, c) = Bit(cf.done) /\ cf.initiated
      BY <2>1, <2>4 DEF IInv, Waiters, Bit
    <3>2. cf.h = c => CancelActive
      BY <2>2 DEF IInv, Frames
    <3>3. cf.h # c => ~CancelActive
      BY <2>1, <2>4 DEF IInv, Frames, Waiters, TypeOK, Frame
    <3>4. cf.h = c => Times(handles, c) = 1 - Cancels
      BY <2>1, <3>1, <3>2 DEF CancelActive, Bit
    <3>5. cf.h # c => Times(handles, c) = 1
      BY <3>1, <3>3 DEF CancelActive, Bit
    <3>6. QED BY <2>4, <3>4, <3>5
  <2>5. CASE co[c] \notin {"waiting", "cancelling"}
    <3>1. Times(handles, c) = 0
      BY <2>1, <2>5 DEF IInv, Waiters, Bit
    <3>2. QED BY <2>5, <3>1
  <2>6. QED BY <2>3, <2>4, <2>5
<1>3. IInv => Resumption
  BY <1>1, <1>2 DEF Resumption
<1>4. QED BY <1>3, Inductive, PTL

\* CancelIsTruthful: a wait that async_cancel reported as cancelled never
\* returns success, in whichever order the two completions arrive.
THEOREM CancelIsTruthfulHolds == Spec => []CancelIsTruthful
<1>1. IInv => CancelIsTruthful
  <2> SUFFICES ASSUME IInv, NEW w \in confirmed
               PROVE  result[w] \in {"none", "ECANCELED"}
    BY DEF CancelIsTruthful
  <2>1. w \in 0..MaxWaits /\ Marked(w)
    BY TimerAssumption DEF IInv, TypeOK, Waits, Marked
  <2>2. QED BY <2>1 DEF IInv, Marks
<1>2. QED BY <1>1, Inductive, PTL
=============================================================================

--------------------------- MODULE ExecutorProofs ---------------------------
(***************************************************************************)
(* Proofs about the event loop of Executor, for any set of tasks and any   *)
(* capacity of the pipe.                                                   *)
(***************************************************************************)
EXTENDS Executor, FiniteSetTheorems, TLAPS

-----------------------------------------------------------------------------
(* Sequences as sets: the elements of a queue and that none occurs twice.  *)

Elem(s) == {s[i] : i \in 1..Len(s)}
Inj(s)  == \A i, j \in 1..Len(s) : s[i] = s[j] => i = j

\* Appending an element adds it to the elements; a queue without duplicates
\* stays one when the element is new.
LEMMA AppendElem ==
    ASSUME NEW S, NEW s \in Seq(S), NEW x \in S
    PROVE  /\ Append(s, x) \in Seq(S)
           /\ Elem(Append(s, x)) = Elem(s) \cup {x}
           /\ Inj(s) /\ x \notin Elem(s) => Inj(Append(s, x))
<1> DEFINE a == Append(s, x)
<1>1. /\ a \in Seq(S) /\ Len(a) = Len(s) + 1 /\ Len(s) \in Nat
      /\ \A i \in 1..Len(s) : a[i] = s[i]
      /\ a[Len(s) + 1] = x
  OBVIOUS
<1>2. Elem(a) = Elem(s) \cup {x}
  <2>1. ASSUME NEW e \in Elem(a) PROVE e \in Elem(s) \cup {x}
    <3>1. PICK i \in 1..Len(a) : e = a[i]
      BY <2>1 DEF Elem
    <3>2. i \in 1..Len(s) \/ i = Len(s) + 1
      BY <1>1
    <3>3. QED BY <3>1, <3>2, <1>1 DEF Elem
  <2>2. ASSUME NEW e \in Elem(s) \cup {x} PROVE e \in Elem(a)
    <3>1. CASE e = x
      <4>1. Len(s) + 1 \in 1..Len(a) /\ a[Len(s) + 1] = e
        BY <1>1, <3>1
      <4>2. QED BY <4>1 DEF Elem
    <3>2. CASE e \in Elem(s)
      <4>1. PICK i \in 1..Len(s) : e = s[i]
        BY <3>2 DEF Elem
      <4>2. i \in 1..Len(a) /\ a[i] = e
        BY <4>1, <1>1
      <4>3. QED BY <4>2 DEF Elem
    <3>3. QED BY <2>2, <3>1, <3>2
  <2>3. QED BY <2>1, <2>2
<1>3. ASSUME Inj(s), x \notin Elem(s) PROVE Inj(a)
  <2>1. SUFFICES ASSUME NEW i \in 1..Len(a), NEW j \in 1..Len(a), a[i] = a[j]
                 PROVE  i = j
    BY DEF Inj
  <2>2. \A k \in 1..Len(s) : s[k] # x
    BY <1>3 DEF Elem
  <2>3. QED BY <1>1, <1>3, <2>1, <2>2 DEF Inj
<1>4. QED BY <1>1, <1>2, <1>3

\* Taking the head of a queue without duplicates removes exactly that element.
LEMMA TailElem ==
    ASSUME NEW S, NEW s \in Seq(S), s # <<>>
    PROVE  /\ Tail(s) \in Seq(S) /\ Head(s) \in S
           /\ Head(s) \in Elem(s)
           /\ Elem(Tail(s)) \subseteq Elem(s)
           /\ Inj(s) => Inj(Tail(s)) /\ Elem(Tail(s)) = Elem(s) \ {Head(s)}
<1> DEFINE u == Tail(s)
<1>1. /\ u \in Seq(S) /\ Len(u) = Len(s) - 1 /\ Len(s) \in Nat \ {0}
      /\ \A i \in 1..Len(u) : u[i] = s[i + 1]
      /\ Head(s) = s[1] /\ s[1] \in S
  OBVIOUS
<1>2. Head(s) \in Elem(s)
  <2>1. 1 \in 1..Len(s)
    BY <1>1
  <2>2. QED BY <1>1, <2>1 DEF Elem
<1>3. ASSUME NEW e \in Elem(u)
      PROVE  \E i \in 1..Len(s) : e = s[i] /\ i # 1
  <2>1. PICK i \in 1..Len(u) : e = u[i]
    BY DEF Elem
  <2>2. i + 1 \in 1..Len(s) /\ e = s[i + 1] /\ i + 1 # 1
    BY <1>1, <2>1
  <2>3. QED BY <2>2
<1>4. Elem(u) \subseteq Elem(s)
  BY <1>3 DEF Elem
<1>5. ASSUME Inj(s) PROVE Inj(u)
  <2>1. SUFFICES ASSUME NEW i \in 1..Len(u), NEW j \in 1..Len(u), u[i] = u[j]
                 PROVE  i = j
    BY DEF Inj
  <2>2. i + 1 \in 1..Len(s) /\ j + 1 \in 1..Len(s) /\ s[i + 1] = s[j + 1]
    BY <1>1, <2>1
  <2>3. i + 1 = j + 1
    BY <1>5, <2>2 DEF Inj
  <2>4. QED BY <2>3
<1>6. ASSUME Inj(s) PROVE Elem(u) = Elem(s) \ {Head(s)}
  <2>1. ASSUME NEW e \in Elem(u) PROVE e # Head(s)
    <3>1. PICK i \in 1..Len(s) : e = s[i] /\ i # 1
      BY <1>3
    <3>2. 1 \in 1..Len(s)
      BY <1>1
    <3>3. QED BY <3>1, <3>2, <1>1, <1>6 DEF Inj
  <2>2. ASSUME NEW e \in Elem(s), e # Head(s) PROVE e \in Elem(u)
    <3>1. PICK i \in 1..Len(s) : e = s[i]
      BY DEF Elem
    <3>2. i - 1 \in 1..Len(u) /\ u[i - 1] = e
      BY <1>1, <2>2, <3>1
    <3>3. QED BY <3>2 DEF Elem
  <2>3. QED BY <1>4, <2>1, <2>2
<1>7. QED BY <1>1, <1>2, <1>4, <1>5, <1>6

\* The empty queue.
LEMMA EmptyElem == Elem(<<>>) = {} /\ Inj(<<>>)
BY DEF Elem, Inj

-----------------------------------------------------------------------------
(***************************************************************************)
(* The inductive invariant.  Reference counts are exact in every state;    *)
(* what is known of queues, completions and continuations is known as long *)
(* as run() is not being left by an exception or by ~io_context, after     *)
(* which nothing is resumed any more.                                      *)
(***************************************************************************)

Healthy == outcome = "return"

WakeWord(t) == [kind |-> "wake", task |-> t]

\* The entries of run_queue_ that the loop has yet to resume.
Pending == IF pc = "inDrain" THEN Elem(Tail(runQueue)) ELSE Elem(runQueue)

Control ==
    /\ pc \in InLoop \cup {"idle"} => Healthy
    /\ cur # None => pc \in {"inDrain", "resume"}
    /\ pc = "inDrain" => runQueue # <<>>
    /\ pc = "process" => ready <= Len(cq)
    /\ pc = "final" \/ (pc = "leave" /\ Healthy) => tasks = {}
    /\ pc \in {"drain", "wait", "process"} => excPtr = None
    /\ pc = "leave" /\ Healthy => excPtr = None
    /\ pc \in {"idle", "leave"} => reader # "armed"

QueueInv ==
    /\ Inj(runQueue)
    /\ \A t \in Elem(runQueue) : st[t] \notin {"none", "posted"}
    /\ \A t \in Pending : t \in tasks /\ st[t] = "ready"

\* At most one notification of each task, and what it names is a live task.
NoteInv ==
    /\ Inj(handles) /\ Inj(cq) /\ Inj(pipe)
    /\ \A t \in Elem(handles) :
          /\ t \in tasks /\ st[t] = "signalled"
          /\ t \notin Elem(cq) /\ WakeWord(t) \notin Elem(pipe)
          /\ rdBuf # WakeWord(t)
    /\ \A t \in Elem(cq) : t # PipeRead =>
          /\ t \in tasks /\ st[t] = "signalled"
          /\ WakeWord(t) \notin Elem(pipe) /\ rdBuf # WakeWord(t)

WordInv(w) ==
    /\ w.kind = "post" => st[w.task] = "posted"
    /\ w.kind = "wake" => w.task \in tasks /\ st[w.task] = "signalled"

PipeInv ==
    /\ \A w \in Elem(pipe) : w # rdBuf /\ WordInv(w)
    /\ rdBuf # None => WordInv(rdBuf)
    /\ PipeRead \in Elem(cq) <=> rdBuf # None
    /\ reader = "armed" \/ pc = "idle" => rdBuf = None

\* The coroutine that runs, the ones that wait for a task, and who holds what.
AwaitInv ==
    /\ cur # None => cur \in tasks /\ st[cur] = "running"
    /\ \A t \in tasks : cont[t] # None =>
          /\ cont[t] \in tasks /\ st[cont[t]] = "awaiting"
          /\ holder[t] = cont[t]
    /\ \A t, u \in tasks : cont[t] = cont[u] /\ cont[t] # None => t = u
    /\ \A c \in Tasks : holder[c] \in Tasks => holder[c] \in tasks
    /\ \A t \in Tasks : st[t] = "awaiting" =>
          \E c \in tasks : holder[c] = t /\ cont[c] = t
    /\ \A t \in Tasks : Exists(t) /\ t \notin tasks => st[t] = "final"

\* A failed task has ended and its exception is somewhere.
FailInv ==
    /\ \A t \in Tasks : st[t] \in {"none", "posted"} =>
          cont[t] = None /\ t \notin failed
    /\ \A t \in failed :
          /\ t \notin tasks
          /\ \/ wasAwaited[t]
             \/ rt[t] = "error" /\ holder[t] # None
             \/ excPtr # None

HealthyInv == QueueInv /\ NoteInv /\ PipeInv /\ AwaitInv /\ FailInv

IInv == TypeOK /\ RefCountExact /\ Control /\ (Healthy => HealthyInv)

-----------------------------------------------------------------------------
(* Facts used by several actions.                                          *)

\* What the queues hold.
LEMMA ElemTypes ==
    ASSUME TypeOK
    PROVE  /\ Elem(runQueue) \subseteq Tasks /\ Elem(handles) \subseteq Tasks
           /\ Elem(cq) \subseteq Tasks \cup {PipeRead}
           /\ Elem(pipe) \subseteq Word
BY DEF TypeOK, Elem

\* A wake word is determined by its task.
LEMMA WakeWords ==
    /\ \A t \in Tasks : /\ WakeWord(t) \in Word
                        /\ WakeWord(t).kind = "wake" /\ WakeWord(t).task = t
    /\ \A w \in Word : w.kind = "wake" => w = WakeWord(w.task)
    /\ \A w \in Word : w.task \in Tasks /\ w.kind \in {"post", "wake"}
BY DEF WakeWord, Word

\* A task of the map has a frame, and only there can it be running or waiting.
LEMMA MapFacts ==
    ASSUME TypeOK, RefCountExact
    PROVE  \A t \in Tasks :
              /\ t \in tasks \/ holder[t] # None <=> Exists(t)
              /\ t \in tasks \/ holder[t] # None => count[t] \in {1, 2}
              /\ t \in tasks => count[t] = 1 + One(holder[t] # None)
BY DEF TypeOK, RefCountExact, One, Exists

\* As long as nothing was torn down no awaitable outlives the frame it is in.
LEMMA NoOrphans ==
    ASSUME IInv, Healthy
    PROVE  Orphans = {}
<1>1. SUFFICES ASSUME NEW c \in Tasks, holder[c] \in Tasks,
                      st[holder[c]] = "destroyed"
               PROVE  FALSE
  BY DEF Orphans
<1>2. holder[c] \in tasks
  BY <1>1 DEF IInv, HealthyInv, AwaitInv
<1>3. Exists(holder[c])
  BY <1>1, <1>2, MapFacts DEF IInv
<1>4. QED BY <1>1, <1>3 DEF Exists

\* Dropping an awaitable keeps the types and the counts.
LEMMA DropKeepsCounts ==
    ASSUME TypeOK, RefCountExact, NEW c \in Tasks, holder[c] # None, Drop(c)
    PROVE  /\ count' \in [Tasks -> Nat] /\ st' \in [Tasks -> TaskStates]
           /\ holder' \in [Tasks -> Tasks \cup {Main, None}]
           /\ excPtr' \in Tasks \cup {None}
           /\ RefCountExact'
           /\ \A t \in Tasks : st'[t] # st[t] =>
                 t = c /\ st'[t] = "destroyed" /\ t \notin tasks
<1>1. count[c] = One(c \in tasks) + 1 /\ Exists(c)
  BY DEF RefCountExact, One, TypeOK
<1>2. count' \in [Tasks -> Nat] /\ st' \in [Tasks -> TaskStates]
  BY <1>1 DEF TypeOK, Drop, One, TaskStates
<1>3. /\ holder' \in [Tasks -> Tasks \cup {Main, None}]
      /\ excPtr' \in Tasks \cup {None}
  BY DEF TypeOK, Drop, KeepFirst
<1>4. RefCountExact'
  BY <1>1 DEF TypeOK, RefCountExact, One, Exists, Drop
<1>5. \A t \in Tasks : st'[t] # st[t] =>
         t = c /\ st'[t] = "destroyed" /\ t \notin tasks
  BY <1>1 DEF TypeOK, Drop, One
<1>6. QED BY <1>2, <1>3, <1>4, <1>5

\* A step that touches no notification and no task that is signalled or
\* posted keeps what is known of the notifications.
LEMMA NotesKept ==
    ASSUME TypeOK, NoteInv, PipeInv, UNCHANGED <<handles, cq, pipe, rdBuf>>,
           \A t \in tasks : st[t] = "signalled" =>
               t \in tasks' /\ st'[t] = "signalled",
           \A t \in Tasks : st[t] = "posted" => st'[t] = "posted",
           reader' = "armed" \/ pc' = "idle" => rdBuf = None
    PROVE  NoteInv' /\ PipeInv'
<1>1. NoteInv'
  BY ElemTypes DEF NoteInv
<1>2. ASSUME NEW w \in Word, WordInv(w) PROVE WordInv(w)'
  BY <1>2, WakeWords DEF WordInv
<1>3. PipeInv'
  BY <1>2, ElemTypes DEF PipeInv, TypeOK
<1>4. QED BY <1>1, <1>3

\* A step that leaves the run queue and the loop's place alone and touches no
\* task that is ready keeps what is known of the run queue.
LEMMA QueueKept ==
    ASSUME TypeOK, QueueInv, UNCHANGED <<runQueue, pc>>,
           \A t \in tasks : st[t] = "ready" => t \in tasks' /\ st'[t] = "ready",
           \A t \in Tasks : st[t] \notin {"none", "posted"} =>
                            st'[t] \notin {"none", "posted"}
    PROVE  QueueInv'
BY ElemTypes DEF QueueInv, Pending

\* Appending a task to the run queue appends it to what is left to resume.
LEMMA PendingAppend ==
    ASSUME TypeOK, Inj(runQueue), NEW c \in Tasks, c \notin Elem(runQueue),
           runQueue' = Append(runQueue, c), pc' = pc,
           pc = "inDrain" => runQueue # <<>>
    PROVE  /\ Inj(runQueue')
           /\ Elem(runQueue') = Elem(runQueue) \cup {c}
           /\ Pending' = Pending \cup {c}
<1>1. Inj(runQueue') /\ Elem(runQueue') = Elem(runQueue) \cup {c}
  BY AppendElem DEF TypeOK
<1>2. CASE pc # "inDrain"
  BY <1>1, <1>2 DEF Pending
<1>3. CASE pc = "inDrain"
  <2>1. /\ runQueue \in Seq(Tasks) /\ runQueue # <<>>
        /\ runQueue' \in Seq(Tasks) /\ runQueue' # <<>>
        /\ Head(runQueue') = Head(runQueue)
    BY <1>3 DEF TypeOK
  <2>2. Elem(Tail(runQueue)) = Elem(runQueue) \ {Head(runQueue)}
    BY <2>1, TailElem
  <2>3. Elem(Tail(runQueue')) = Elem(runQueue') \ {Head(runQueue)}
    BY <1>1, <2>1, TailElem
  <2>4. Head(runQueue) # c
    BY <2>1, TailElem
  <2>5. Elem(Tail(runQueue')) = Elem(Tail(runQueue)) \cup {c}
    BY <1>1, <2>2, <2>3, <2>4
  <2>6. QED BY <1>1, <1>3, <2>5 DEF Pending
<1>4. QED BY <1>2, <1>3

-----------------------------------------------------------------------------
(* Each action keeps the invariant.                                        *)

\* The initial state.
LEMMA InitInv == Init => IInv
<1> SUFFICES ASSUME Init PROVE IInv
  OBVIOUS
<1> USE NamesAssumption DEF Init
<1>1. TypeOK
  BY DEF TypeOK, TaskStates, Results, InLoop, Outside, Word
<1>2. RefCountExact
  BY DEF RefCountExact, One, Exists
<1>3. Control
  BY DEF Control, Healthy, InLoop
<1>4. HealthyInv
  BY EmptyElem DEF HealthyInv, QueueInv, Pending, NoteInv, PipeInv, AwaitInv,
                   FailInv, Exists
<1>5. QED BY <1>1, <1>2, <1>3, <1>4 DEF IInv

\* spawn(), from a coroutine or from outside of run().
LEMMA SpawnKeeps ==
    ASSUME IInv, Healthy, NEW c \in Tasks, NEW h \in Tasks \cup {Main},
           h = Main \/ h = cur, SpawnFor(h, c), UNCHANGED <<loopVars, ioVars>>,
           pc # "final", pc # "leave"
    PROVE  IInv'
<1> USE NamesAssumption DEF IInv, loopVars, ioVars
<1>0. /\ QueueInv /\ NoteInv /\ PipeInv /\ AwaitInv /\ FailInv /\ TypeOK
      /\ st[c] = "none" /\ c \notin tasks /\ holder[c] = None /\ count[c] = 0
      /\ cont[c] = None /\ c \notin failed /\ h # None
      /\ h \in Tasks => h \in tasks /\ st[h] = "running"
  <2>1. st[c] = "none" /\ ~Exists(c)
    BY DEF SpawnFor, Exists
  <2>2. HealthyInv
    OBVIOUS
  <2>3. c \notin tasks /\ holder[c] = None /\ count[c] = 0
    BY <2>1 DEF RefCountExact, One, TypeOK
  <2>4. QED BY <2>1, <2>2, <2>3 DEF HealthyInv, FailInv, AwaitInv
<1>1. TypeOK'
  BY DEF TypeOK, SpawnFor, TaskStates
<1>2. RefCountExact'
  BY <1>0 DEF TypeOK, RefCountExact, One, Exists, SpawnFor
<1>3. Control'
  <2>1. pc = "inDrain" => runQueue' # <<>>
    <3>1. runQueue \in Seq(Tasks) /\ runQueue' = Append(runQueue, c)
      BY DEF TypeOK, SpawnFor
    <3>2. QED BY <3>1
  <2>2. QED BY <2>1 DEF Control, Healthy, SpawnFor
<1>4. QueueInv'
  <2>1. c \notin Elem(runQueue)
    BY <1>0 DEF QueueInv
  <2>2. /\ Inj(runQueue') /\ Elem(runQueue') = Elem(runQueue) \cup {c}
        /\ Pending' = Pending \cup {c}
    BY <1>0, <2>1, PendingAppend DEF QueueInv, SpawnFor, Control
  <2>3. st' = [st EXCEPT ![c] = "ready"] /\ tasks' = tasks \cup {c}
    BY DEF SpawnFor
  <2>4. QED BY <1>0, <2>2, <2>3, ElemTypes DEF QueueInv, TypeOK
<1>5. NoteInv' /\ PipeInv'
  BY <1>0, NotesKept DEF SpawnFor, TypeOK, PipeInv
<1>6. AwaitInv'
  <2>1. /\ st' = [st EXCEPT ![c] = "ready"] /\ tasks' = tasks \cup {c}
        /\ holder' = [holder EXCEPT ![c] = h] /\ cont' = cont /\ cur' = cur
    BY DEF SpawnFor
  <2>2. /\ \A t \in Tasks : t # c => st'[t] = st[t] /\ holder'[t] = holder[t]
        /\ st'[c] = "ready" /\ holder'[c] = h
    BY <2>1, <1>0 DEF TypeOK
  <2>3. QED BY <1>0, <2>1, <2>2 DEF AwaitInv, TypeOK, Exists
<1>7. FailInv'
  BY <1>0 DEF FailInv, SpawnFor, TypeOK
<1>8. QED BY <1>1, <1>2, <1>3, <1>4, <1>5, <1>6, <1>7 DEF HealthyInv

\* spawn() called outside of run() keeps the invariant.
LEMMA MainSpawnStep ==
    ASSUME IInv, NEW c \in Tasks, MainSpawn(c)
    PROVE  IInv'
<1>1. Healthy /\ pc # "final" /\ pc # "leave"
  BY DEF IInv, Control, MainSpawn
<1>2. QED BY <1>1, SpawnKeeps DEF MainSpawn

\* spawn() called by the coroutine that runs keeps the invariant.
LEMMA SpawnStep ==
    ASSUME IInv, NEW t \in Tasks, NEW c \in Tasks, Spawn(t, c)
    PROVE  IInv'
<1>1. Healthy /\ pc # "final" /\ pc # "leave"
  BY NamesAssumption DEF IInv, Control, Spawn, InLoop
<1>2. QED BY <1>1, SpawnKeeps DEF Spawn

\* Dropping an awaitable while nothing is being torn down: the coroutine that
\* runs drops one of its own, or the code outside of run() does.
LEMMA DropKeepsHealth ==
    ASSUME IInv, Healthy, NEW c \in Tasks, holder[c] # None, Drop(c),
           UNCHANGED <<loopVars, ioVars>>,
           holder[c] = Main \/ holder[c] = cur
    PROVE  HealthyInv'
<1> USE NamesAssumption DEF IInv, loopVars, ioVars
<1>0. /\ QueueInv /\ NoteInv /\ PipeInv /\ AwaitInv /\ FailInv /\ TypeOK
      /\ c \in tasks => cont[c] = None
      /\ tasks' = tasks /\ cont' = cont /\ cur' = cur /\ runQueue' = runQueue
      /\ \A t \in Tasks : st'[t] # st[t] =>
            t = c /\ st'[t] = "destroyed" /\ t \notin tasks
  <2>1. HealthyInv
    OBVIOUS
  <2>2. c \in tasks => cont[c] = None
    <3>1. SUFFICES ASSUME c \in tasks, cont[c] # None PROVE FALSE
      OBVIOUS
    <3>2. /\ holder[c] \in tasks /\ st[holder[c]] = "awaiting"
          /\ cur # None => st[cur] = "running"
      BY <2>1, <3>1 DEF HealthyInv, AwaitInv
    <3>3. holder[c] \in Tasks
      BY <3>2 DEF TypeOK
    <3>4. QED BY <3>2, <3>3
  <2>3. QED BY <2>1, <2>2, DropKeepsCounts DEF HealthyInv, Drop
<1>1. QueueInv'
  <2>1. UNCHANGED <<runQueue, pc>>
    BY <1>0
  <2>2. \A t \in tasks : st[t] = "ready" => t \in tasks' /\ st'[t] = "ready"
    BY <1>0 DEF TypeOK
  <2>3. \A t \in Tasks : st[t] \notin {"none", "posted"} =>
                         st'[t] \notin {"none", "posted"}
    BY <1>0
  <2>4. QED BY <1>0, <2>1, <2>2, <2>3, QueueKept
<1>2. NoteInv' /\ PipeInv'
  <2>1. \A t \in Tasks : st[t] = "posted" => st'[t] = "posted"
    BY <1>0, MapFacts DEF Exists
  <2>2. QED BY <1>0, <2>1, NotesKept DEF PipeInv, TypeOK
<1>3. AwaitInv'
  <2>1. /\ holder'[c] = None
        /\ \A t \in Tasks : t # c => holder'[t] = holder[t]
    BY DEF Drop, TypeOK
  <2>2. \A t \in tasks : st'[t] = st[t]
    BY <1>0 DEF TypeOK
  <2>3. \A t \in Tasks : Exists(t)' /\ t \notin tasks' => st'[t] = "final"
    BY <1>0 DEF AwaitInv, Exists
  <2>4. \A t \in Tasks : st'[t] = "awaiting" =>
           \E u \in tasks' : holder'[u] = t /\ cont'[u] = t
    <3>1. SUFFICES ASSUME NEW t \in Tasks, st'[t] = "awaiting"
                   PROVE  \E u \in tasks' : holder'[u] = t /\ cont'[u] = t
      OBVIOUS
    <3>2. st[t] = "awaiting"
      BY <1>0, <3>1
    <3>3. PICK u \in tasks : holder[u] = t /\ cont[u] = t
      BY <1>0, <3>2 DEF AwaitInv
    <3>4. u # c /\ u \in Tasks
      BY <1>0, <3>3 DEF TypeOK
    <3>5. QED BY <1>0, <2>1, <3>3, <3>4
  <2>5. \A u \in Tasks : holder'[u] \in Tasks => holder'[u] \in tasks'
    BY <1>0, <2>1 DEF AwaitInv
  <2>6. \A t \in tasks' : cont'[t] # None =>
          /\ cont'[t] \in tasks' /\ st'[cont'[t]] = "awaiting"
          /\ holder'[t] = cont'[t]
    BY <1>0, <2>1, <2>2 DEF AwaitInv, TypeOK
  <2>7. QED BY <1>0, <2>2, <2>3, <2>4, <2>5, <2>6 DEF AwaitInv
<1>4. FailInv'
  <2>1. /\ failed' = failed /\ rt' = rt /\ wasAwaited' = wasAwaited
        /\ \A t \in Tasks : t # c => holder'[t] = holder[t]
        /\ excPtr' = IF rt[c] = "error" /\ ~wasAwaited[c]
                     THEN IF excPtr = None THEN c ELSE excPtr ELSE excPtr
    BY DEF Drop, TypeOK, KeepFirst
  <2>2. \A t \in Tasks : st'[t] \in {"none", "posted"} =>
          cont'[t] = None /\ t \notin failed'
    BY <1>0, <2>1 DEF FailInv
  <2>3. ASSUME NEW t \in failed
        PROVE  \/ wasAwaited'[t]
               \/ rt'[t] = "error" /\ holder'[t] # None
               \/ excPtr' # None
    BY <1>0, <2>1 DEF FailInv, TypeOK
  <2>4. QED BY <1>0, <2>1, <2>2, <2>3 DEF FailInv
<1>5. QED BY <1>1, <1>2, <1>3, <1>4 DEF HealthyInv

\* Destroying the locals of a destroyed frame keeps the invariant.
LEMMA DropOrphanStep ==
    ASSUME IInv, DropOrphan
    PROVE  IInv'
<1> USE NamesAssumption DEF IInv, loopVars, ioVars
<1>1. PICK c \in Orphans : Drop(c)
  BY DEF DropOrphan
<1>2. c \in Tasks /\ holder[c] # None
  BY <1>1 DEF Orphans
<1>3. ~Healthy /\ ~Healthy'
  BY <1>1, NoOrphans DEF DropOrphan, Healthy
<1>4. TypeOK'
  BY <1>1, <1>2, DropKeepsCounts DEF DropOrphan, TypeOK, Drop
<1>5. RefCountExact'
  BY <1>1, <1>2, DropKeepsCounts
<1>6. Control'
  BY <1>3 DEF DropOrphan, Control, InLoop
<1>7. QED BY <1>3, <1>4, <1>5, <1>6

\* The caller of run() dropping an awaitable keeps the invariant.
LEMMA MainDropStep ==
    ASSUME IInv, NEW c \in Tasks, MainDrop(c)
    PROVE  IInv'
<1> USE NamesAssumption DEF IInv, loopVars, ioVars
<1>1. /\ Drop(c) /\ holder[c] = Main /\ UNCHANGED <<loopVars, ioVars>>
      /\ pc \in Outside /\ tasks' = tasks
  BY DEF MainDrop, Drop
<1>2. TypeOK' /\ RefCountExact'
  BY <1>1, DropKeepsCounts DEF TypeOK, Drop
<1>3. Control'
  BY <1>1 DEF Control, InLoop, Outside, Healthy, Drop
<1>4. Healthy' => HealthyInv'
  BY <1>1, DropKeepsHealth DEF Healthy
<1>5. QED BY <1>2, <1>3, <1>4

\* The coroutine that runs dropping an awaitable keeps the invariant.
LEMMA DropAwaitableStep ==
    ASSUME IInv, NEW t \in Tasks, NEW c \in Tasks, DropAwaitable(t, c)
    PROVE  IInv'
<1> USE NamesAssumption DEF IInv, loopVars, ioVars
<1>1. /\ Drop(c) /\ holder[c] = t /\ cur = t
      /\ UNCHANGED <<loopVars, ioVars>> /\ tasks' = tasks
      /\ runQueue' = runQueue
  BY DEF DropAwaitable, Drop
<1>2. TypeOK' /\ RefCountExact'
  BY <1>1, DropKeepsCounts DEF TypeOK, Drop
<1>3. Control'
  BY <1>1 DEF Control, InLoop, Healthy
<1>4. Healthy' => HealthyInv'
  BY <1>1, DropKeepsHealth DEF Healthy
<1>5. QED BY <1>2, <1>3, <1>4

\* A step of the loop that moves only its own place keeps all that is known of
\* the tasks and the notifications.
LEMMA LoopMoves ==
    ASSUME TypeOK, HealthyInv,
           UNCHANGED <<taskVars, cur, handles, pipe, rdBuf, cq>>,
           pc # "inDrain", pc' # "inDrain",
           reader' = "armed" \/ pc' = "idle" => rdBuf = None
    PROVE  HealthyInv'
<1>1. QueueInv'
  BY DEF HealthyInv, QueueInv, Pending, taskVars
<1>2. NoteInv' /\ PipeInv'
  BY NotesKept DEF HealthyInv, taskVars
<1>3. AwaitInv'
  BY DEF HealthyInv, AwaitInv, Exists, taskVars
<1>4. FailInv'
  BY DEF HealthyInv, FailInv, taskVars
<1>5. QED BY <1>1, <1>2, <1>3, <1>4 DEF HealthyInv

\* ... and the counts.
LEMMA CountsKept ==
    ASSUME RefCountExact, UNCHANGED taskVars
    PROVE  RefCountExact'
BY DEF RefCountExact, taskVars, Exists

\* Entering run() keeps the invariant.
LEMMA RunStep ==
    ASSUME IInv, Run
    PROVE  IInv'
<1> USE DEF IInv
<1>1. TypeOK'
  BY DEF TypeOK, Run, taskVars, InLoop
<1>2. RefCountExact'
  BY CountsKept DEF Run
<1>3. Control'
  BY DEF Control, Healthy, Run, taskVars, InLoop
<1>4. Healthy /\ rdBuf = None
  BY DEF Run, Control, HealthyInv, PipeInv
<1>5. HealthyInv'
  BY <1>4, LoopMoves DEF Run
<1>6. QED BY <1>1, <1>2, <1>3, <1>5

\* One round of task_map::clear keeps the invariant.
LEMMA ClearStep ==
    ASSUME IInv, NEW t \in Tasks, Clear(t)
    PROVE  IInv'
<1> USE NamesAssumption DEF IInv
<1>1. count[t] = 1 + One(holder[t] # None) /\ count[t] \in {1, 2}
  BY MapFacts DEF Clear
<1>2. TypeOK'
  BY <1>1 DEF TypeOK, Clear, loopVars, ioVars, TaskStates
<1>3. RefCountExact'
  BY <1>1 DEF TypeOK, RefCountExact, One, Exists, Clear
<1>4. ~Healthy /\ ~Healthy'
  BY DEF Control, Clear, Healthy, loopVars
<1>5. Control'
  BY <1>4 DEF Control, Clear, loopVars, ioVars, InLoop
<1>6. QED BY <1>2, <1>3, <1>4, <1>5

\* The end of ~guard keeps the invariant.
LEMMA FlushStep ==
    ASSUME IInv, Flush
    PROVE  IInv'
<1> USE NamesAssumption DEF IInv
<1>1. TypeOK'
  BY DEF TypeOK, Flush, taskVars, InLoop, Outside
<1>2. RefCountExact'
  BY CountsKept DEF Flush
<1>3. Control'
  BY DEF Control, Healthy, Flush, taskVars, InLoop, TypeOK
<1>4. ASSUME Healthy' PROVE HealthyInv'
  <2>1. /\ Healthy /\ TypeOK /\ HealthyInv /\ UNCHANGED taskVars /\ cur' = cur
        /\ pipe' = pipe /\ handles' = <<>> /\ cq' = <<>> /\ rdBuf' = None
        /\ pc = "leave" /\ pc' = "idle"
    BY <1>4 DEF Healthy, Flush
  <2>2. QueueInv'
    BY <2>1 DEF HealthyInv, QueueInv, Pending, taskVars
  <2>3. NoteInv' /\ PipeInv'
    <3>1. \A w \in Elem(pipe) : w # None
      BY <2>1, ElemTypes
    <3>2. \A w \in Elem(pipe) : WordInv(w)'
      BY <2>1 DEF HealthyInv, PipeInv, WordInv, taskVars
    <3>3. QED
      BY <2>1, <3>1, <3>2, EmptyElem DEF HealthyInv, NoteInv, PipeInv
  <2>4. AwaitInv' /\ FailInv'
    BY <2>1 DEF HealthyInv, AwaitInv, FailInv, Exists, taskVars
  <2>5. QED BY <2>2, <2>3, <2>4 DEF HealthyInv
<1>5. QED BY <1>1, <1>2, <1>3, <1>4

\* ~io_context keeps the invariant.
LEMMA DestroyStep ==
    ASSUME IInv, Destroy
    PROVE  IInv'
<1> USE DEF IInv
<1>1. TypeOK'
  BY DEF TypeOK, Destroy, Leave, taskVars
<1>2. RefCountExact'
  BY CountsKept DEF Destroy
<1>3. ~Healthy'
  BY DEF Destroy, Leave, Healthy
<1>4. Control'
  BY <1>3 DEF Control, Destroy, Leave, InLoop, taskVars
<1>5. QED BY <1>1, <1>2, <1>3, <1>4

\* The head of the loop of run() keeps the invariant.
LEMMA TopStep ==
    ASSUME IInv, Top
    PROVE  IInv'
<1> USE DEF IInv
<1>1. TypeOK'
  BY DEF TypeOK, Top, CheckException, Leave, taskVars, ioVars, InLoop
<1>2. RefCountExact'
  BY CountsKept DEF Top
<1>3. Control'
  BY DEF Control, Healthy, Top, CheckException, Leave, taskVars, ioVars, InLoop
<1>4. ASSUME Healthy' PROVE HealthyInv'
  <2>1. /\ Healthy /\ UNCHANGED <<taskVars, cur, handles, ioVars>>
        /\ pc = "top" /\ pc' \in {"final", "drain"}
    BY <1>4 DEF Top, CheckException, Leave, Healthy, Control, InLoop
  <2>2. QED BY <2>1, LoopMoves DEF ioVars, HealthyInv, PipeInv
<1>5. QED BY <1>1, <1>2, <1>3, <1>4

\* The end of the drain loop keeps the invariant.
LEMMA DrainDoneStep ==
    ASSUME IInv, DrainDone
    PROVE  IInv'
<1> USE DEF IInv
<1>1. TypeOK'
  BY DEF TypeOK, DrainDone, taskVars, ioVars, InLoop
<1>2. RefCountExact'
  BY CountsKept DEF DrainDone
<1>3. Control'
  BY DEF Control, Healthy, DrainDone, taskVars, ioVars, InLoop
<1>4. Healthy /\ pc' \in {"final", "wait"}
  BY DEF Control, DrainDone, InLoop
<1>5. HealthyInv'
  BY <1>4, LoopMoves DEF DrainDone, ioVars, HealthyInv, PipeInv
<1>6. QED BY <1>1, <1>2, <1>3, <1>5

\* submit_and_wait keeps the invariant.
LEMMA WaitStep ==
    ASSUME IInv, Wait
    PROVE  IInv'
<1> USE DEF IInv
<1>1. TypeOK'
  BY DEF TypeOK, Wait, taskVars, ioVars, InLoop
<1>2. RefCountExact'
  BY CountsKept DEF Wait
<1>3. Control'
  BY DEF Control, Healthy, Wait, taskVars, ioVars, InLoop, TypeOK
<1>4. Healthy
  BY DEF Control, Wait, InLoop
<1>5. HealthyInv'
  BY <1>4, LoopMoves DEF Wait, ioVars, HealthyInv, PipeInv
<1>6. QED BY <1>1, <1>2, <1>3, <1>5

\* The end of the loop over the CQEs keeps the invariant.
LEMMA ProcessDoneStep ==
    ASSUME IInv, ProcessDone
    PROVE  IInv'
<1> USE DEF IInv
<1>1. TypeOK'
  BY DEF TypeOK, ProcessDone, CheckException, Leave, taskVars, ioVars, InLoop
<1>2. RefCountExact'
  BY CountsKept DEF ProcessDone
<1>3. Control'
  BY DEF Control, Healthy, ProcessDone, CheckException, Leave, taskVars,
         ioVars, InLoop
<1>4. ASSUME Healthy' PROVE HealthyInv'
  <2>1. /\ Healthy /\ UNCHANGED <<taskVars, cur, handles, ioVars>>
        /\ pc = "process" /\ pc' = "resume"
    BY <1>4 DEF ProcessDone, CheckException, Leave, Healthy, Control, InLoop
  <2>2. QED BY <2>1, LoopMoves DEF ioVars, HealthyInv, PipeInv
<1>5. QED BY <1>1, <1>2, <1>3, <1>4

\* The end of the loop over the handles keeps the invariant.
LEMMA ResumeDoneStep ==
    ASSUME IInv, ResumeDone
    PROVE  IInv'
<1> USE DEF IInv
<1>1. TypeOK'
  BY DEF TypeOK, ResumeDone, taskVars, ioVars, InLoop
<1>2. RefCountExact'
  BY CountsKept DEF ResumeDone
<1>3. Control'
  BY DEF Control, Healthy, ResumeDone, taskVars, ioVars, InLoop
<1>4. Healthy
  BY DEF Control, ResumeDone, InLoop
<1>5. HealthyInv'
  BY <1>4, LoopMoves DEF ResumeDone, ioVars, HealthyInv, PipeInv
<1>6. QED BY <1>1, <1>2, <1>3, <1>5

\* The last test of exception_ptr_ keeps the invariant.
LEMMA FinalStep ==
    ASSUME IInv, Final
    PROVE  IInv'
<1> USE DEF IInv
<1>1. TypeOK'
  BY DEF TypeOK, Final, Leave, taskVars
<1>2. RefCountExact'
  BY CountsKept DEF Final
<1>3. Control'
  BY NamesAssumption DEF Control, Healthy, Final, Leave, taskVars, InLoop
<1>4. Healthy
  BY DEF Control, Final, InLoop
<1>5. HealthyInv'
  <2>1. /\ UNCHANGED <<taskVars, cur, handles, pipe, rdBuf, cq>>
        /\ pc = "final" /\ pc' = "leave" /\ reader' # "armed"
    BY DEF Final, Leave
  <2>2. QED BY <1>4, <2>1, LoopMoves
<1>6. QED BY <1>1, <1>2, <1>3, <1>5

\* Resuming a task that is ready or was signalled.
LEMMA ResumeKeeps ==
    ASSUME TypeOK, RefCountExact, AwaitInv, FailInv, NEW h \in tasks,
           st[h] \in {"ready", "signalled"},
           st' = [st EXCEPT ![h] = "running"], cur' = h,
           UNCHANGED <<tasks, count, cont, rt, holder, wasAwaited, excPtr,
                       failed>>
    PROVE  RefCountExact' /\ AwaitInv' /\ FailInv'
<1>1. /\ h \in Tasks /\ st'[h] = "running"
      /\ \A t \in Tasks : t # h => st'[t] = st[t]
  BY DEF TypeOK
<1>2. RefCountExact'
  BY <1>1 DEF RefCountExact, Exists
<1>3. AwaitInv'
  <2>1. \A t \in tasks : cont[t] # None => cont[t] # h /\ cont[t] \in Tasks
    BY DEF AwaitInv, TypeOK
  <2>2. QED BY <1>1, <2>1 DEF AwaitInv, Exists, TypeOK
<1>4. FailInv'
  BY <1>1 DEF FailInv, TypeOK
<1>5. QED BY <1>2, <1>3, <1>4

\* Resuming the front of the run queue keeps the invariant.
LEMMA DrainResumeStep ==
    ASSUME IInv, DrainResume
    PROVE  IInv'
<1> USE NamesAssumption DEF IInv, ioVars
<1> DEFINE h == Head(runQueue)
<1>0. /\ Healthy /\ HealthyInv /\ QueueInv /\ TypeOK
      /\ pc = "drain" /\ pc' = "inDrain" /\ runQueue # <<>>
      /\ runQueue' = runQueue /\ tasks' = tasks
      /\ st' = [st EXCEPT ![h] = "running"]
  BY DEF DrainResume, Control, InLoop, HealthyInv
<1>1. /\ h \in Elem(runQueue) /\ h \in Tasks
      /\ Elem(Tail(runQueue)) = Elem(runQueue) \ {h}
  BY <1>0, TailElem DEF TypeOK, QueueInv
<1>2. h \in tasks /\ st[h] = "ready"
  BY <1>0, <1>1 DEF QueueInv, Pending
<1>3. TypeOK'
  BY <1>0, <1>1 DEF TypeOK, DrainResume, TaskStates, InLoop
<1>4. Control'
  BY <1>0 DEF Control, DrainResume, Healthy, InLoop
<1>5. QueueInv'
  <2>1. \A t \in Tasks : st'[t] = IF t = h THEN "running" ELSE st[t]
    BY <1>0, <1>1 DEF TypeOK
  <2>2. Pending = Elem(runQueue) /\ Pending' = Elem(runQueue) \ {h}
    BY <1>0, <1>1 DEF Pending
  <2>3. QED BY <1>0, <2>1, <2>2, ElemTypes DEF QueueInv
<1>6. NoteInv' /\ PipeInv'
  BY <1>0, <1>2, NotesKept DEF DrainResume, HealthyInv, TypeOK, PipeInv
<1>7. RefCountExact' /\ AwaitInv' /\ FailInv'
  BY <1>0, <1>2, ResumeKeeps DEF DrainResume, HealthyInv
<1>8. QED BY <1>3, <1>4, <1>5, <1>6, <1>7 DEF HealthyInv

\* Popping the run queue after resume() returned keeps the invariant.
LEMMA DrainPopStep ==
    ASSUME IInv, DrainPop
    PROVE  IInv'
<1> USE NamesAssumption DEF IInv, ioVars
<1>0. /\ Healthy /\ HealthyInv /\ QueueInv /\ TypeOK /\ pc = "inDrain"
      /\ runQueue # <<>> /\ runQueue \in Seq(Tasks)
      /\ runQueue' = Tail(runQueue)
      /\ UNCHANGED <<tasks, count, cont, rt, holder, wasAwaited, excPtr, st,
                     failed, cur, handles, ready, pipe, rdBuf, cq>>
  BY DEF DrainPop, Control, InLoop, HealthyInv, CheckException, Leave, TypeOK
<1>1. /\ runQueue' \in Seq(Tasks) /\ Inj(runQueue')
      /\ Elem(runQueue') \subseteq Elem(runQueue)
  BY <1>0, TailElem DEF QueueInv
<1>2. TypeOK'
  BY <1>1 DEF TypeOK, DrainPop, CheckException, Leave, InLoop
<1>3. RefCountExact'
  BY <1>0 DEF RefCountExact, Exists
<1>4. Control'
  BY DEF Control, DrainPop, CheckException, Leave, Healthy, InLoop
<1>5. ASSUME Healthy' PROVE HealthyInv'
  <2>1. pc' = "drain" /\ reader' = reader
    BY <1>5 DEF DrainPop, CheckException, Leave, Healthy
  <2>2. QueueInv'
    BY <1>0, <1>1, <2>1 DEF QueueInv, Pending
  <2>3. NoteInv' /\ PipeInv'
    BY <1>0, <2>1, NotesKept DEF HealthyInv, PipeInv
  <2>4. AwaitInv' /\ FailInv'
    BY <1>0 DEF HealthyInv, AwaitInv, FailInv, Exists
  <2>5. QED BY <2>2, <2>3, <2>4 DEF HealthyInv
<1>6. QED BY <1>2, <1>3, <1>4, <1>5

\* Resuming a collected handle keeps the invariant.
LEMMA ResumeHandleStep ==
    ASSUME IInv, ResumeHandle
    PROVE  IInv'
<1> USE NamesAssumption DEF IInv, ioVars
<1> DEFINE h == Head(handles)
<1>0. /\ Healthy /\ HealthyInv /\ NoteInv /\ PipeInv /\ TypeOK
      /\ pc = "resume" /\ pc' = pc /\ handles # <<>>
      /\ handles' = Tail(handles) /\ handles \in Seq(Tasks)
      /\ st' = [st EXCEPT ![h] = "running"]
      /\ UNCHANGED <<tasks, runQueue, pipe, reader, rdBuf, cq>>
  BY DEF ResumeHandle, Control, InLoop, HealthyInv, TypeOK
<1>1. /\ h \in Elem(handles) /\ h \in Tasks /\ handles' \in Seq(Tasks)
      /\ Elem(handles') = Elem(handles) \ {h} /\ Inj(handles')
  BY <1>0, TailElem DEF NoteInv
<1>2. h \in tasks /\ st[h] = "signalled"
  BY <1>0, <1>1 DEF NoteInv
<1>3. TypeOK'
  BY <1>0, <1>1 DEF TypeOK, ResumeHandle, TaskStates
<1>4. Control'
  BY <1>0 DEF Control, ResumeHandle, Healthy, InLoop
<1>5. \A t \in Tasks : st'[t] = IF t = h THEN "running" ELSE st[t]
  BY <1>0, <1>1 DEF TypeOK
<1>6. QueueInv'
  BY <1>0, <1>2, <1>5, QueueKept DEF HealthyInv, TypeOK
<1>7. NoteInv'
  BY <1>0, <1>1, <1>5, ElemTypes DEF NoteInv
<1>8. PipeInv'
  <2>1. WakeWord(h) \notin Elem(pipe) /\ rdBuf # WakeWord(h)
    BY <1>0, <1>1 DEF NoteInv
  <2>2. ASSUME NEW w \in Word, WordInv(w), w # WakeWord(h) PROVE WordInv(w)'
    BY <1>0, <1>2, <1>5, <2>2, WakeWords DEF WordInv
  <2>3. QED BY <1>0, <2>1, <2>2, ElemTypes DEF PipeInv, TypeOK
<1>9. RefCountExact' /\ AwaitInv' /\ FailInv'
  BY <1>0, <1>2, ResumeKeeps DEF ResumeHandle, HealthyInv
<1>10. QED BY <1>3, <1>4, <1>6, <1>7, <1>8, <1>9 DEF HealthyInv

\* The coroutine that runs is a task of the map, and run() is in its loop.
LEMMA CurFacts ==
    ASSUME IInv, NEW t \in Tasks, cur = t
    PROVE  /\ Healthy /\ HealthyInv /\ TypeOK /\ RefCountExact
           /\ QueueInv /\ NoteInv /\ PipeInv /\ AwaitInv /\ FailInv
           /\ pc \in {"inDrain", "resume"}
           /\ t \in tasks /\ st[t] = "running" /\ Exists(t)
           /\ t \notin failed
           /\ count[t] = 1 + One(holder[t] # None)
<1>1. Healthy /\ pc \in {"inDrain", "resume"}
  BY NamesAssumption DEF IInv, Control, InLoop
<1>2. HealthyInv
  BY <1>1 DEF IInv
<1>3. t \in tasks /\ st[t] = "running"
  BY <1>2, NamesAssumption DEF HealthyInv, AwaitInv
<1>4. QED BY <1>1, <1>2, <1>3, MapFacts DEF IInv, HealthyInv, FailInv, Exists

\* co_await of a spawn_awaitable keeps the invariant.
LEMMA AwaitStep ==
    ASSUME IInv, NEW t \in Tasks, NEW c \in Tasks, Await(t, c)
    PROVE  IInv'
<1> USE NamesAssumption DEF ioVars
<1>0. /\ Healthy /\ HealthyInv /\ TypeOK /\ RefCountExact /\ Control
      /\ QueueInv /\ NoteInv /\ PipeInv /\ AwaitInv /\ FailInv
      /\ pc \in {"inDrain", "resume"}
      /\ t \in tasks /\ st[t] = "running" /\ cur = t /\ holder[c] = t
      /\ cont' = [cont EXCEPT ![c] = t] /\ Exists(c)
      /\ UNCHANGED <<tasks, runQueue, count, rt, holder, excPtr, failed,
                     handles, ready, pc, outcome, pipe, reader, rdBuf, cq>>
  BY CurFacts, MapFacts DEF Await, IInv
<1>1. CASE TaskEnded(c)
  <2>1. /\ wasAwaited' = [wasAwaited EXCEPT ![c] = TRUE]
        /\ UNCHANGED <<st, cur>>
    BY <1>1 DEF Await
  <2>2. c \notin tasks
    BY <1>0, <1>1, MapFacts DEF TaskEnded, One
  <2>3. TypeOK'
    BY <1>0, <2>1 DEF TypeOK
  <2>4. RefCountExact' /\ Control'
    BY <1>0, <2>1 DEF RefCountExact, Exists, Control, Healthy
  <2>5. QueueInv'
    BY <1>0, <2>1, QueueKept
  <2>6. NoteInv' /\ PipeInv'
    BY <1>0, <2>1, NotesKept DEF PipeInv
  <2>7. \A u \in Tasks : u # c => cont'[u] = cont[u]
    BY <1>0 DEF TypeOK
  <2>8. AwaitInv'
    BY <1>0, <2>1, <2>2, <2>7 DEF AwaitInv, Exists, TypeOK
  <2>9. FailInv'
    BY <1>0, <2>1, <2>7 DEF FailInv, Exists, TypeOK
  <2>10. QED BY <2>3, <2>4, <2>5, <2>6, <2>8, <2>9 DEF IInv, HealthyInv
<1>2. CASE ~TaskEnded(c)
  <2>1. /\ st' = [st EXCEPT ![t] = "awaiting"] /\ cur' = None
        /\ wasAwaited' = wasAwaited
    BY <1>2 DEF Await
  <2>2. c \in tasks
    <3>1. count[c] = One(c \in tasks) + One(holder[c] # None)
      BY <1>0 DEF RefCountExact
    <3>2. QED BY <1>2, <3>1 DEF TaskEnded, One
  <2>3. TypeOK'
    BY <1>0, <2>1 DEF TypeOK, TaskStates
  <2>4. \A u \in Tasks : /\ st'[u] = IF u = t THEN "awaiting" ELSE st[u]
                         /\ cont'[u] = IF u = c THEN t ELSE cont[u]
    BY <1>0, <2>1 DEF TypeOK
  <2>5. RefCountExact' /\ Control'
    BY <1>0, <2>1, <2>4 DEF RefCountExact, Exists, Control, Healthy
  <2>6. QueueInv'
    BY <1>0, <2>4, QueueKept DEF TypeOK
  <2>7. NoteInv' /\ PipeInv'
    BY <1>0, <2>4, NotesKept DEF PipeInv, TypeOK
  <2>8. AwaitInv'
    <3>1. \A u \in tasks : u \in Tasks /\ cont[u] # t
      <4>1. SUFFICES ASSUME NEW u \in tasks, cont[u] = t PROVE FALSE
        BY <1>0 DEF TypeOK
      <4>2. t # None
        OBVIOUS
      <4>3. st[cont[u]] = "awaiting"
        BY <1>0, <4>1, <4>2 DEF AwaitInv
      <4>4. QED BY <1>0, <4>1, <4>3
    <3>2. \A u \in tasks' : cont'[u] # None =>
            /\ cont'[u] \in tasks' /\ st'[cont'[u]] = "awaiting"
            /\ holder'[u] = cont'[u]
      BY <1>0, <2>4, <3>1 DEF AwaitInv, TypeOK
    <3>3. \A u, v \in tasks' : cont'[u] = cont'[v] /\ cont'[u] # None => u = v
      BY <1>0, <2>4, <3>1 DEF AwaitInv
    <3>4. \A u \in Tasks : st'[u] = "awaiting" =>
            \E v \in tasks' : holder'[v] = u /\ cont'[v] = u
      <4>1. SUFFICES ASSUME NEW u \in Tasks, st'[u] = "awaiting"
                     PROVE  \E v \in tasks' : holder'[v] = u /\ cont'[v] = u
        OBVIOUS
      <4>2. CASE u = t
        BY <1>0, <2>2, <2>4, <4>2
      <4>3. CASE u # t
        <5>1. PICK v \in tasks : holder[v] = u /\ cont[v] = u
          BY <1>0, <2>4, <4>1, <4>3 DEF AwaitInv
        <5>2. v # c
          BY <1>0, <4>3, <5>1
        <5>3. QED BY <1>0, <2>4, <3>1, <5>1, <5>2
      <4>4. QED BY <4>2, <4>3
    <3>5. \A u \in Tasks : Exists(u)' /\ u \notin tasks' => st'[u] = "final"
      BY <1>0, <2>4 DEF AwaitInv, Exists
    <3>6. QED BY <1>0, <2>1, <3>2, <3>3, <3>4, <3>5 DEF AwaitInv
  <2>9. FailInv'
    BY <1>0, <2>1, <2>4 DEF FailInv, Exists, TypeOK
  <2>10. QED BY <2>3, <2>5, <2>6, <2>7, <2>8, <2>9 DEF IInv, HealthyInv
<1>3. QED BY <1>1, <1>2

\* Suspending on I/O or on a waker keeps the invariant.
LEMMA SuspendStep ==
    ASSUME IInv, NEW t \in Tasks, Suspend(t)
    PROVE  IInv'
<1> USE NamesAssumption DEF ioVars
<1>0. /\ Healthy /\ HealthyInv /\ TypeOK /\ RefCountExact /\ Control
      /\ QueueInv /\ NoteInv /\ PipeInv /\ AwaitInv /\ FailInv
      /\ t \in tasks /\ st[t] = "running" /\ cur' = None
      /\ UNCHANGED <<tasks, runQueue, count, cont, rt, holder, wasAwaited,
                     excPtr, failed, handles, ready, pc, outcome, pipe,
                     reader, rdBuf, cq>>
  BY CurFacts DEF Suspend, IInv
<1>1. PICK s \in {"io", "waker"} : st' = [st EXCEPT ![t] = s]
  BY DEF Suspend
<1>2. TypeOK'
  BY <1>0, <1>1 DEF TypeOK, TaskStates
<1>3. \A u \in Tasks : st'[u] = IF u = t THEN s ELSE st[u]
  BY <1>0, <1>1 DEF TypeOK
<1>4. RefCountExact' /\ Control'
  BY <1>0, <1>3 DEF RefCountExact, Exists, Control, Healthy
<1>5. QueueInv'
  BY <1>0, <1>3, QueueKept DEF TypeOK
<1>6. NoteInv' /\ PipeInv'
  BY <1>0, <1>3, NotesKept DEF PipeInv, TypeOK
<1>7. AwaitInv'
  <2>1. \A u \in tasks : u \in Tasks /\ cont[u] # t
    <3>1. SUFFICES ASSUME NEW u \in tasks, cont[u] = t PROVE FALSE
      BY <1>0 DEF TypeOK
    <3>2. t # None
      OBVIOUS
    <3>3. st[cont[u]] = "awaiting"
      BY <1>0, <3>1, <3>2 DEF AwaitInv
    <3>4. QED BY <1>0, <3>1, <3>3
  <2>2. \A u \in tasks' : cont'[u] # None =>
          /\ cont'[u] \in tasks' /\ st'[cont'[u]] = "awaiting"
          /\ holder'[u] = cont'[u]
    BY <1>0, <1>3, <2>1 DEF AwaitInv, TypeOK
  <2>3. \A u \in Tasks : st'[u] = "awaiting" =>
          \E v \in tasks' : holder'[v] = u /\ cont'[v] = u
    BY <1>0, <1>3 DEF AwaitInv
  <2>4. \A u \in Tasks : Exists(u)' /\ u \notin tasks' => st'[u] = "final"
    BY <1>0, <1>3 DEF AwaitInv, Exists
  <2>5. QED BY <1>0, <2>2, <2>3, <2>4 DEF AwaitInv
<1>8. FailInv'
  BY <1>0, <1>3 DEF FailInv, TypeOK
<1>9. QED BY <1>2, <1>4, <1>5, <1>6, <1>7, <1>8 DEF IInv, HealthyInv

\* The end of a task, with a result or with an exception somebody will see.
LEMMA FinishKeeps ==
    ASSUME IInv, NEW t \in Tasks, cur = t, \A c \in Tasks : holder[c] # t,
           NEW r \in {"ok", "error"}, FinishAs(t, r),
           failed' = failed
             \/ (failed' = failed \cup {t} /\ r = "error" /\ HasAwaiter(t))
    PROVE  IInv'
<1> USE NamesAssumption DEF ioVars
<1>0. /\ Healthy /\ HealthyInv /\ TypeOK /\ RefCountExact /\ Control
      /\ QueueInv /\ NoteInv /\ PipeInv /\ AwaitInv /\ FailInv
      /\ pc \in {"inDrain", "resume"}
      /\ t \in tasks /\ st[t] = "running" /\ t \notin failed
      /\ count[t] = 1 + One(holder[t] # None)
      /\ tasks' = tasks \ {t} /\ cur' = cont[t]
      /\ UNCHANGED <<runQueue, cont, holder, excPtr, handles, ready, pc,
                     outcome, pipe, reader, rdBuf, cq>>
  BY CurFacts DEF FinishAs, IInv
<1>1. /\ cont[t] # None => /\ cont[t] \in tasks /\ st[cont[t]] = "awaiting"
                           /\ cont[t] # t /\ cont[t] \in Tasks
      /\ holder[t] = None => cont[t] = None
  BY <1>0 DEF AwaitInv, TypeOK
<1>2. \A u \in Tasks :
         /\ u # t => count'[u] = count[u] /\ rt'[u] = rt[u]
         /\ u # t => wasAwaited'[u] = wasAwaited[u]
         /\ u # t => st'[u] = IF u = cont[t] THEN "running" ELSE st[u]
  BY DEF FinishAs, TypeOK
<1>3. /\ count'[t] = One(holder[t] # None) /\ rt'[t] = r
      /\ st'[t] = IF holder[t] = None THEN "destroyed" ELSE "final"
  BY <1>0 DEF FinishAs, TypeOK, One
<1>4. TypeOK'
  <2>1. count' \in [Tasks -> Nat]
    BY <1>0 DEF FinishAs, TypeOK, One
  <2>2. st' \in [Tasks -> TaskStates]
    BY <1>0 DEF FinishAs, TypeOK, TaskStates
  <2>3. rt' \in [Tasks -> Results]
    BY <1>0 DEF FinishAs, TypeOK, Results
  <2>4. wasAwaited' \in [Tasks -> BOOLEAN]
    BY <1>0 DEF FinishAs, TypeOK
  <2>5. tasks' \subseteq Tasks /\ failed' \subseteq Tasks
        /\ cur' \in Tasks \cup {None}
    BY <1>0 DEF TypeOK
  <2>6. QED BY <1>0, <2>1, <2>2, <2>3, <2>4, <2>5 DEF TypeOK
<1>5. RefCountExact'
  <2>1. ASSUME NEW u \in Tasks
        PROVE  /\ count'[u] = One(u \in tasks') + One(holder'[u] # None)
               /\ Exists(u)' <=> count'[u] > 0
    <3>1. CASE u = t
      BY <1>0, <1>3, <3>1 DEF One, Exists
    <3>2. CASE u # t
      BY <1>0, <1>1, <1>2, <3>2 DEF RefCountExact, One, Exists
    <3>3. QED BY <3>1, <3>2
  <2>2. QED BY <2>1 DEF RefCountExact
<1>6. Control'
  BY <1>0 DEF Control, Healthy, InLoop
<1>7. QueueInv'
  <2>1. \A u \in tasks : st[u] = "ready" => u \in tasks' /\ st'[u] = "ready"
    BY <1>0, <1>1, <1>2 DEF TypeOK
  <2>2. \A u \in Tasks : st[u] \notin {"none", "posted"} =>
                         st'[u] \notin {"none", "posted"}
    BY <1>2, <1>3
  <2>3. QED BY <1>0, <2>1, <2>2, QueueKept
<1>8. NoteInv' /\ PipeInv'
  <2>1. \A u \in tasks : st[u] = "signalled" =>
           u \in tasks' /\ st'[u] = "signalled"
    BY <1>0, <1>1, <1>2 DEF TypeOK
  <2>2. \A u \in Tasks : st[u] = "posted" => st'[u] = "posted"
    BY <1>0, <1>1, <1>2
  <2>3. QED BY <1>0, <2>1, <2>2, NotesKept DEF PipeInv
<1>9. AwaitInv'
  <2>1. cur' # None => cur' \in tasks' /\ st'[cur'] = "running"
    BY <1>0, <1>1, <1>2
  <2>2. \A u \in tasks' : cont'[u] # None =>
          /\ cont'[u] \in tasks' /\ st'[cont'[u]] = "awaiting"
          /\ holder'[u] = cont'[u]
    <3>1. SUFFICES ASSUME NEW u \in tasks, u # t, cont[u] # None
                   PROVE  /\ cont[u] \in tasks' /\ st'[cont[u]] = "awaiting"
                          /\ holder[u] = cont[u]
      BY <1>0
    <3>2. /\ cont[u] \in tasks /\ cont[u] \in Tasks
          /\ st[cont[u]] = "awaiting" /\ holder[u] = cont[u]
      BY <1>0, <3>1 DEF AwaitInv, TypeOK
    <3>3. cont[u] # t /\ cont[u] # cont[t]
      BY <1>0, <3>1, <3>2 DEF AwaitInv
    <3>4. QED BY <1>0, <1>2, <3>2, <3>3
  <2>3. \A c \in Tasks : holder'[c] \in Tasks => holder'[c] \in tasks'
    BY <1>0 DEF AwaitInv
  <2>4. \A u \in Tasks : st'[u] = "awaiting" =>
          \E v \in tasks' : holder'[v] = u /\ cont'[v] = u
    <3>1. SUFFICES ASSUME NEW u \in Tasks, st'[u] = "awaiting"
                   PROVE  \E v \in tasks' : holder'[v] = u /\ cont'[v] = u
      OBVIOUS
    <3>2. u # t /\ u # cont[t] /\ st[u] = "awaiting"
      BY <1>2, <1>3, <3>1
    <3>3. PICK v \in tasks : holder[v] = u /\ cont[v] = u
      BY <1>0, <3>2 DEF AwaitInv
    <3>4. QED BY <1>0, <3>2, <3>3
  <2>5. \A u \in Tasks : Exists(u)' /\ u \notin tasks' => st'[u] = "final"
    BY <1>0, <1>1, <1>2, <1>3 DEF AwaitInv, Exists
  <2>6. QED BY <1>0, <2>1, <2>2, <2>3, <2>4, <2>5 DEF AwaitInv
<1>10. FailInv'
  <2>1. \A u \in Tasks : st'[u] \in {"none", "posted"} =>
          cont'[u] = None /\ u \notin failed'
    BY <1>0, <1>2, <1>3 DEF FailInv
  <2>2. ASSUME NEW u \in failed'
        PROVE  /\ u \notin tasks'
               /\ \/ wasAwaited'[u]
                  \/ rt'[u] = "error" /\ holder'[u] # None
                  \/ excPtr' # None
    <3>1. CASE u = t
      <4>1. r = "error" /\ HasAwaiter(t)
        BY <1>0, <2>2, <3>1
      <4>2. holder[t] # None
        BY <1>0, <4>1 DEF HasAwaiter, One
      <4>3. QED BY <1>0, <1>3, <3>1, <4>1, <4>2
    <3>2. CASE u # t
      <4>1. u \in failed /\ u \in Tasks
        BY <1>0, <2>2, <3>2 DEF TypeOK
      <4>2. QED BY <1>0, <1>2, <3>2, <4>1 DEF FailInv
    <3>3. QED BY <3>1, <3>2
  <2>3. QED BY <2>1, <2>2 DEF FailInv
<1>11. QED BY <1>4, <1>5, <1>6, <1>7, <1>8, <1>9, <1>10 DEF IInv, HealthyInv

\* co_return keeps the invariant.
LEMMA ReturnStep ==
    ASSUME IInv, NEW t \in Tasks, Return(t)
    PROVE  IInv'
BY FinishKeeps DEF Return

\* An exception that somebody will see keeps the invariant.
LEMMA ThrowStep ==
    ASSUME IInv, NEW t \in Tasks, Throw(t)
    PROVE  IInv'
BY FinishKeeps DEF Throw

\* An exception thrown out of run() keeps the invariant.
LEMMA ThrowOutStep ==
    ASSUME IInv, NEW t \in Tasks, ThrowOut(t)
    PROVE  IInv'
<1> USE NamesAssumption
<1>0. /\ TypeOK /\ RefCountExact /\ Control /\ Exists(t) /\ cur = t
      /\ st' = [st EXCEPT ![t] = "final"]
  BY CurFacts DEF IInv, ThrowOut
<1>1. TypeOK'
  BY <1>0 DEF TypeOK, ThrowOut, Leave, TaskStates
<1>2. RefCountExact'
  <2>1. \A u \in Tasks : st'[u] = IF u = t THEN "final" ELSE st[u]
    BY <1>0 DEF TypeOK
  <2>2. \A u \in Tasks : Exists(u)' <=> Exists(u)
    BY <1>0, <2>1 DEF Exists
  <2>3. QED BY <1>0, <2>2 DEF RefCountExact, ThrowOut
<1>3. ~Healthy'
  BY DEF ThrowOut, Leave, Healthy
<1>4. Control'
  BY <1>3 DEF Control, ThrowOut, Leave, InLoop
<1>5. QED BY <1>1, <1>2, <1>3, <1>4 DEF IInv

\* post() keeps the invariant.
LEMMA PostStep ==
    ASSUME IInv, NEW t \in Tasks, Post(t)
    PROVE  IInv'
<1> USE NamesAssumption DEF loopVars
<1> DEFINE w == [kind |-> "post", task |-> t]
<1>0. /\ TypeOK /\ RefCountExact /\ Control /\ (Healthy => HealthyInv)
      /\ st[t] = "none" /\ ~Exists(t)
      /\ st' = [st EXCEPT ![t] = "posted"] /\ pipe' = Append(pipe, w)
      /\ w \in Word /\ w.task = t /\ w.kind = "post" /\ pipe \in Seq(Word)
      /\ UNCHANGED <<tasks, runQueue, count, cont, rt, holder, wasAwaited,
                   excPtr, failed, loopVars, reader, rdBuf, cq>>
  BY DEF Post, IInv, Exists, Word, TypeOK
<1>1. \A u \in Tasks : st'[u] = IF u = t THEN "posted" ELSE st[u]
  BY <1>0 DEF TypeOK
<1>2. TypeOK'
  BY <1>0 DEF TypeOK, TaskStates
<1>3. RefCountExact'
  BY <1>0, <1>1 DEF RefCountExact, Exists
<1>4. Control'
  BY <1>0 DEF Control, Healthy
<1>5. ASSUME Healthy' PROVE HealthyInv'
  <2>0. /\ QueueInv /\ NoteInv /\ PipeInv /\ AwaitInv /\ FailInv
        /\ t \notin tasks
    BY <1>0, <1>5 DEF Healthy, HealthyInv, RefCountExact, One, TypeOK
  <2>1. QueueInv'
    <3>1. t \notin Elem(runQueue) /\ Pending' = Pending /\ t \notin Pending
      BY <1>0, <2>0 DEF QueueInv, Pending
    <3>2. QED BY <1>0, <1>1, <2>0, <3>1, ElemTypes DEF QueueInv, TypeOK
  <2>2. w \notin Elem(pipe) /\ rdBuf # w
    BY <1>0, <2>0 DEF PipeInv, WordInv
  <2>3. Elem(pipe') = Elem(pipe) \cup {w} /\ Inj(pipe')
    BY <1>0, <2>0, <2>2, AppendElem DEF NoteInv
  <2>4. NoteInv'
    <3>1. \A u \in Tasks : w # WakeWord(u)
      BY <1>0, WakeWords
    <3>2. QED BY <1>0, <1>1, <2>0, <2>3, <3>1, ElemTypes DEF NoteInv, TypeOK
  <2>5. PipeInv'
    <3>1. ASSUME NEW v \in Word, WordInv(v) PROVE WordInv(v)'
      BY <1>0, <1>1, <2>0, <3>1, WakeWords DEF WordInv
    <3>2. WordInv(w)'
      BY <1>0, <1>1 DEF WordInv
    <3>3. QED BY <1>0, <2>0, <2>2, <2>3, <3>1, <3>2, ElemTypes DEF PipeInv, TypeOK
  <2>6. AwaitInv'
    BY <1>0, <1>1, <2>0 DEF AwaitInv, Exists, TypeOK
  <2>7. FailInv'
    BY <1>0, <1>1, <2>0 DEF FailInv, TypeOK
  <2>8. QED BY <2>1, <2>4, <2>5, <2>6, <2>7 DEF HealthyInv
<1>6. QED BY <1>2, <1>3, <1>4, <1>5 DEF IInv

\* A waiting task becomes signalled, by its waker or by the kernel.
LEMMA SignalKeeps ==
    ASSUME TypeOK, RefCountExact, QueueInv, AwaitInv, FailInv,
           NEW t \in Tasks, st[t] \in {"waker", "io"},
           st' = [st EXCEPT ![t] = "signalled"],
           UNCHANGED <<tasks, runQueue, count, cont, rt, holder, wasAwaited,
                       excPtr, failed, cur, pc>>
    PROVE  QueueInv' /\ AwaitInv' /\ FailInv' /\ t \in tasks
<1>1. \A u \in Tasks : st'[u] = IF u = t THEN "signalled" ELSE st[u]
  BY DEF TypeOK
<1>2. QueueInv'
  BY <1>1, QueueKept DEF TypeOK
<1>3. AwaitInv'
  BY <1>1 DEF AwaitInv, Exists, TypeOK
<1>4. FailInv'
  BY <1>1 DEF FailInv, TypeOK
<1>5. t \in tasks
  BY DEF AwaitInv, Exists
<1>6. QED BY <1>2, <1>3, <1>4, <1>5

\* waker::wake keeps the invariant.
LEMMA WakeStep ==
    ASSUME IInv, NEW t \in Tasks, Wake(t)
    PROVE  IInv'
<1> USE NamesAssumption DEF loopVars
<1> DEFINE w == WakeWord(t)
<1>0. /\ TypeOK /\ RefCountExact /\ Control /\ (Healthy => HealthyInv)
      /\ st[t] = "waker" /\ pipe' = Append(pipe, w) /\ pipe \in Seq(Word)
      /\ st' = [st EXCEPT ![t] = "signalled"] /\ w \in Word
      /\ UNCHANGED <<tasks, runQueue, count, cont, rt, holder, wasAwaited,
                   excPtr, failed, loopVars, reader, rdBuf, cq>>
  BY DEF Wake, IInv, Word, WakeWord, TypeOK
<1>1. \A u \in Tasks : st'[u] = IF u = t THEN "signalled" ELSE st[u]
  BY <1>0 DEF TypeOK
<1>2. TypeOK'
  BY <1>0 DEF TypeOK, TaskStates
<1>3. RefCountExact'
  BY <1>0, <1>1 DEF RefCountExact, Exists
<1>4. Control'
  BY <1>0 DEF Control, Healthy
<1>5. ASSUME Healthy' PROVE HealthyInv'
  <2>0. QueueInv /\ NoteInv /\ PipeInv /\ AwaitInv /\ FailInv
    BY <1>0, <1>5 DEF Healthy, HealthyInv
  <2>1. QueueInv' /\ AwaitInv' /\ FailInv' /\ t \in tasks
    BY <1>0, <2>0, SignalKeeps
  <2>2. w \notin Elem(pipe) /\ rdBuf # w /\ t \notin Elem(handles)
        /\ t \notin Elem(cq)
    BY <1>0, <2>0, WakeWords DEF PipeInv, WordInv, NoteInv
  <2>3. Elem(pipe') = Elem(pipe) \cup {w} /\ Inj(pipe')
    BY <1>0, <2>0, <2>2, AppendElem DEF NoteInv
  <2>4. NoteInv'
    <3>1. \A u \in Tasks : u # t => w # WakeWord(u)
      BY WakeWords
    <3>2. QED
      BY <1>0, <1>1, <2>0, <2>2, <2>3, <3>1, ElemTypes DEF NoteInv, TypeOK
  <2>5. PipeInv'
    <3>1. ASSUME NEW v \in Word, WordInv(v) PROVE WordInv(v)'
      BY <1>0, <1>1, <3>1, WakeWords DEF WordInv
    <3>2. WordInv(w)'
      BY <1>0, <1>1, <2>1, WakeWords DEF WordInv
    <3>3. QED
      BY <1>0, <2>0, <2>2, <2>3, <3>1, <3>2, ElemTypes DEF PipeInv, TypeOK
  <2>6. QED BY <2>1, <2>4, <2>5 DEF HealthyInv
<1>6. QED BY <1>2, <1>3, <1>4, <1>5 DEF IInv

\* The completion of an operation keeps the invariant.
LEMMA KernelCompleteStep ==
    ASSUME IInv, NEW t \in Tasks, KernelComplete(t)
    PROVE  IInv'
<1> USE NamesAssumption DEF loopVars
<1>0. /\ TypeOK /\ RefCountExact /\ Control /\ Healthy
      /\ QueueInv /\ NoteInv /\ PipeInv /\ AwaitInv /\ FailInv
      /\ st[t] = "io" /\ cq' = Append(cq, t) /\ cq \in Seq(Tasks \cup {PipeRead})
      /\ st' = [st EXCEPT ![t] = "signalled"]
      /\ UNCHANGED <<tasks, runQueue, count, cont, rt, holder, wasAwaited,
                     excPtr, failed, loopVars, pipe, reader, rdBuf>>
  BY DEF KernelComplete, IInv, Control, HealthyInv, TypeOK
<1>1. \A u \in Tasks : st'[u] = IF u = t THEN "signalled" ELSE st[u]
  BY <1>0 DEF TypeOK
<1>2. TypeOK'
  BY <1>0 DEF TypeOK, TaskStates
<1>3. RefCountExact'
  BY <1>0, <1>1 DEF RefCountExact, Exists
<1>4. Control'
  <2>1. Len(cq') = Len(cq) + 1 /\ Len(cq) \in Nat /\ ready \in Nat
    BY <1>0 DEF TypeOK
  <2>2. QED BY <1>0, <2>1 DEF Control, Healthy
<1>5. QueueInv' /\ AwaitInv' /\ FailInv' /\ t \in tasks
  BY <1>0, SignalKeeps
<1>6. /\ WakeWord(t) \notin Elem(pipe) /\ rdBuf # WakeWord(t)
      /\ t \notin Elem(handles) /\ t \notin Elem(cq)
  BY <1>0, WakeWords DEF PipeInv, WordInv, NoteInv
<1>7. Elem(cq') = Elem(cq) \cup {t} /\ Inj(cq')
  BY <1>0, <1>6, AppendElem DEF NoteInv
<1>8. NoteInv'
  BY <1>0, <1>1, <1>5, <1>6, <1>7, ElemTypes DEF NoteInv, TypeOK
<1>9. PipeInv'
  <2>1. ASSUME NEW v \in Word, WordInv(v) PROVE WordInv(v)'
    BY <1>0, <1>1, <2>1, WakeWords DEF WordInv
  <2>2. QED BY <1>0, <1>7, <2>1, ElemTypes DEF PipeInv, TypeOK
<1>10. QED BY <1>2, <1>3, <1>4, <1>5, <1>8, <1>9 DEF IInv, HealthyInv

\* The completion of the read on the pipe keeps the invariant.
LEMMA KernelReadStep ==
    ASSUME IInv, KernelRead
    PROVE  IInv'
<1> USE NamesAssumption DEF loopVars, taskVars
<1> DEFINE w == Head(pipe)
<1>0. /\ TypeOK /\ RefCountExact /\ Control /\ (Healthy => HealthyInv)
      /\ pipe # <<>> /\ pipe \in Seq(Word) /\ cq \in Seq(Tasks \cup {PipeRead})
      /\ reader = "armed" /\ reader' = "done"
      /\ rdBuf' = w /\ pipe' = Tail(pipe) /\ cq' = Append(cq, PipeRead)
      /\ UNCHANGED <<taskVars, loopVars>>
  BY DEF KernelRead, IInv, TypeOK
<1>1. w \in Word /\ pipe' \in Seq(Word) /\ w \in Elem(pipe)
  BY <1>0, TailElem
<1>2. TypeOK'
  BY <1>0, <1>1 DEF TypeOK
<1>3. RefCountExact'
  BY <1>0, CountsKept
<1>4. Control' /\ pc # "idle"
  <2>1. Len(cq') = Len(cq) + 1 /\ Len(cq) \in Nat /\ ready \in Nat
    BY <1>0 DEF TypeOK
  <2>2. QED BY <1>0, <2>1 DEF Control, Healthy
<1>5. ASSUME Healthy' PROVE HealthyInv'
  <2>0. /\ QueueInv /\ NoteInv /\ PipeInv /\ AwaitInv /\ FailInv
        /\ rdBuf = None /\ PipeRead \notin Elem(cq)
    BY <1>0, <1>5 DEF Healthy, HealthyInv, PipeInv
  <2>1. Elem(pipe') = Elem(pipe) \ {w} /\ Inj(pipe')
    BY <1>0, <2>0, TailElem DEF NoteInv
  <2>2. Elem(cq') = Elem(cq) \cup {PipeRead} /\ Inj(cq')
    BY <1>0, <2>0, AppendElem DEF NoteInv
  <2>3. QueueInv' /\ AwaitInv' /\ FailInv'
    BY <1>0, <2>0 DEF QueueInv, Pending, AwaitInv, FailInv, Exists
  <2>4. NoteInv'
    BY <1>0, <1>1, <2>0, <2>1, <2>2, ElemTypes DEF NoteInv
  <2>5. PipeInv'
    <3>1. \A v \in Elem(pipe) : WordInv(v)'
      BY <1>0, <2>0 DEF PipeInv, WordInv
    <3>2. w # None
      BY <1>1
    <3>3. QED BY <1>0, <1>1, <1>4, <2>0, <2>1, <2>2, <3>1, <3>2 DEF PipeInv
  <2>6. QED BY <2>3, <2>4, <2>5 DEF HealthyInv
<1>6. QED BY <1>2, <1>3, <1>4, <1>5 DEF IInv

\* Processing a CQE keeps the invariant.
LEMMA ProcessStep ==
    ASSUME IInv, Process
    PROVE  IInv'
<1> USE NamesAssumption
<1> DEFINE e == Head(cq)
<1>0. /\ TypeOK /\ RefCountExact /\ Control /\ Healthy
      /\ QueueInv /\ NoteInv /\ PipeInv /\ AwaitInv /\ FailInv
      /\ pc = "process" /\ cq # <<>> /\ cq \in Seq(Tasks \cup {PipeRead})
      /\ cq' = Tail(cq) /\ ready' = ready - 1 /\ ready > 0
      /\ UNCHANGED <<cur, pc, outcome, pipe>>
  <2>1. pc = "process" /\ ready > 0 /\ ready <= Len(cq) /\ Healthy
    BY DEF Process, IInv, Control, InLoop
  <2>2. cq # <<>> /\ cq \in Seq(Tasks \cup {PipeRead})
    BY <2>1 DEF IInv, TypeOK
  <2>3. QED BY <2>1, <2>2 DEF Process, IInv, HealthyInv
<1>1. /\ e \in Elem(cq) /\ cq' \in Seq(Tasks \cup {PipeRead})
      /\ Elem(cq') = Elem(cq) \ {e} /\ Inj(cq')
      /\ Len(cq') = Len(cq) - 1 /\ Len(cq) \in Nat
      /\ Elem(cq) \subseteq Tasks \cup {PipeRead}
  <2>1. Len(cq') = Len(cq) - 1 /\ Len(cq) \in Nat
    BY <1>0
  <2>2. QED BY <1>0, <2>1, TailElem, ElemTypes DEF NoteInv
<1>2. CASE ProcessIo
  <2>0. /\ e \in Tasks /\ e \in tasks /\ st[e] = "signalled"
        /\ WakeWord(e) \notin Elem(pipe) /\ rdBuf # WakeWord(e)
        /\ e \notin Elem(handles) /\ e # PipeRead
        /\ handles' = Append(handles, e) /\ handles \in Seq(Tasks)
        /\ UNCHANGED <<taskVars, reader, rdBuf>>
    BY <1>0, <1>1, <1>2 DEF ProcessIo, NoteInv, TypeOK
  <2>1. Elem(handles') = Elem(handles) \cup {e} /\ Inj(handles')
    BY <1>0, <2>0, AppendElem DEF NoteInv
  <2>2. TypeOK' /\ Control'
    BY <1>0, <1>1, <2>0 DEF TypeOK, Control, Healthy, taskVars, InLoop
  <2>3. QueueInv' /\ AwaitInv' /\ FailInv'
    BY <1>0, <2>0 DEF QueueInv, Pending, AwaitInv, FailInv, Exists, taskVars
  <2>4. NoteInv'
    BY <1>0, <1>1, <2>0, <2>1 DEF NoteInv, taskVars
  <2>5. PipeInv'
    <3>1. \A w : WordInv(w)' <=> WordInv(w)
      BY <2>0 DEF WordInv, taskVars
    <3>2. QED BY <1>0, <1>1, <2>0, <3>1 DEF PipeInv
  <2>6. RefCountExact'
    BY <1>0, <2>0, CountsKept
  <2>7. QED BY <2>2, <2>3, <2>4, <2>5, <2>6 DEF IInv, HealthyInv
<1>3. ASSUME e = PipeRead
      PROVE  /\ rdBuf \in Word /\ WordInv(rdBuf) /\ rdBuf \notin Elem(pipe)
             /\ rdBuf.task \in Tasks /\ PipeRead \notin Elem(cq')
  <2>1. rdBuf # None
    BY <1>0, <1>1, <1>3 DEF PipeInv
  <2>2. QED BY <1>0, <1>1, <1>3, <2>1, WakeWords DEF PipeInv, TypeOK
<1>4. CASE ProcessWake
  <2> DEFINE t == rdBuf.task
  <2>0. /\ e = PipeRead /\ rdBuf.kind = "wake"
        /\ handles' = Append(handles, t) /\ handles \in Seq(Tasks)
        /\ rdBuf' = None /\ reader' = "armed" /\ UNCHANGED taskVars
    BY <1>0, <1>4 DEF ProcessWake, TypeOK
  <2>1. /\ t \in Tasks /\ t \in tasks /\ st[t] = "signalled"
        /\ rdBuf = WakeWord(t) /\ WakeWord(t) \notin Elem(pipe)
        /\ t \notin Elem(handles) /\ t \notin Elem(cq)
    BY <1>0, <1>3, <2>0, WakeWords DEF WordInv, NoteInv
  <2>2. Elem(handles') = Elem(handles) \cup {t} /\ Inj(handles')
    BY <1>0, <2>0, <2>1, AppendElem DEF NoteInv
  <2>3. TypeOK'
    BY <1>0, <1>1, <2>0, <2>1 DEF TypeOK, taskVars
  <2>4. Control'
    BY <1>0, <1>1, <2>0 DEF Control, Healthy, taskVars, InLoop, TypeOK
  <2>5. QueueInv' /\ AwaitInv' /\ FailInv'
    BY <1>0, <2>0 DEF QueueInv, Pending, AwaitInv, FailInv, Exists, taskVars
  <2>6. NoteInv'
    <3>1. \A u \in Tasks : WakeWord(u) # None
      BY WakeWords
    <3>2. QED
      BY <1>0, <1>1, <2>0, <2>1, <2>2, <3>1, ElemTypes DEF NoteInv, taskVars
  <2>7. PipeInv'
    <3>1. \A w : WordInv(w)' <=> WordInv(w)
      BY <2>0 DEF WordInv, taskVars
    <3>2. \A w \in Elem(pipe) : w # None
      BY <1>0, ElemTypes
    <3>3. QED BY <1>0, <1>3, <2>0, <3>1, <3>2 DEF PipeInv
  <2>8. RefCountExact'
    BY <1>0, <2>0, CountsKept
  <2>9. QED BY <2>3, <2>4, <2>5, <2>6, <2>7, <2>8 DEF IInv, HealthyInv
<1>5. CASE ProcessPost
  <2> DEFINE c == rdBuf.task
  <2>0. /\ e = PipeRead /\ rdBuf.kind = "post"
        /\ st' = [st EXCEPT ![c] = "ready"]
        /\ count' = [count EXCEPT ![c] = 1]
        /\ tasks' = tasks \cup {c} /\ runQueue' = Append(runQueue, c)
        /\ rdBuf' = None /\ reader' = "armed"
        /\ UNCHANGED <<cont, rt, holder, wasAwaited, excPtr, failed, handles>>
    BY <1>5 DEF ProcessPost
  <2>1. /\ c \in Tasks /\ st[c] = "posted" /\ ~Exists(c)
        /\ cont[c] = None /\ c \notin failed
    BY <1>0, <1>3, <2>0 DEF WordInv, Exists, FailInv
  <2>2. c \notin tasks /\ holder[c] = None
    BY <1>0, <2>1, MapFacts
  <2>3. \A u \in Tasks : /\ st'[u] = IF u = c THEN "ready" ELSE st[u]
                         /\ count'[u] = IF u = c THEN 1 ELSE count[u]
    BY <1>0, <2>0, <2>1 DEF TypeOK
  <2>4. TypeOK'
    BY <1>0, <1>1, <2>0, <2>1 DEF TypeOK, TaskStates
  <2>5. RefCountExact'
    BY <1>0, <2>0, <2>1, <2>2, <2>3 DEF RefCountExact, One, Exists
  <2>6. Control'
    BY <1>0, <1>1, <2>0 DEF Control, Healthy, InLoop, TypeOK
  <2>7. QueueInv'
    <3>1. c \notin Elem(runQueue)
      BY <1>0, <2>1 DEF QueueInv
    <3>2. /\ Inj(runQueue') /\ Elem(runQueue') = Elem(runQueue) \cup {c}
          /\ Pending' = Pending \cup {c}
      BY <1>0, <2>0, <2>1, <3>1, PendingAppend DEF QueueInv
    <3>3. Pending = Elem(runQueue) /\ Elem(runQueue) \subseteq Tasks
      BY <1>0, ElemTypes DEF Pending
    <3>4. \A t \in Elem(runQueue') : st'[t] \notin {"none", "posted"}
      BY <1>0, <2>1, <2>3, <3>2, <3>3 DEF QueueInv
    <3>5. \A t \in Pending' : t \in tasks' /\ st'[t] = "ready"
      BY <1>0, <2>0, <2>1, <2>3, <3>2, <3>3 DEF QueueInv
    <3>6. QED BY <3>2, <3>4, <3>5 DEF QueueInv
  <2>8. NoteInv'
    <3>1. \A u \in Tasks : WakeWord(u) # None
      BY WakeWords
    <3>2. QED
      BY <1>0, <1>1, <2>0, <2>1, <2>3, <3>1, ElemTypes DEF NoteInv, TypeOK
  <2>9. PipeInv'
    <3>1. ASSUME NEW w \in Elem(pipe) PROVE WordInv(w)' /\ w # None
      <4>1. w \in Word /\ WordInv(w) /\ w # rdBuf
        BY <1>0, ElemTypes DEF PipeInv
      <4>2. w.kind = "post" => w.task # c
        <5>1. w.kind = "post" /\ w.task = c => w = rdBuf
          BY <1>3, <2>0, <4>1 DEF Word
        <5>2. QED BY <4>1, <5>1
      <4>3. QED BY <1>0, <2>0, <2>1, <2>3, <4>1, <4>2, WakeWords DEF WordInv
    <3>2. QED BY <1>0, <1>3, <2>0, <3>1 DEF PipeInv
  <2>10. AwaitInv'
    BY <1>0, <2>0, <2>1, <2>2, <2>3 DEF AwaitInv, Exists, TypeOK
  <2>11. FailInv'
    BY <1>0, <2>0, <2>1, <2>3 DEF FailInv, TypeOK
  <2>12. QED BY <2>4, <2>5, <2>6, <2>7, <2>8, <2>9, <2>10, <2>11
             DEF IInv, HealthyInv
<1>6. QED BY <1>2, <1>4, <1>5 DEF Process

-----------------------------------------------------------------------------
(* The theorems.                                                           *)

\* Every step keeps the invariant.
LEMMA NextInv == IInv /\ [Next]_vars => IInv'
<1> SUFFICES ASSUME IInv, [Next]_vars PROVE IInv'
  OBVIOUS
<1>1. CASE LoopStep
  BY <1>1, TopStep, DrainResumeStep, DrainPopStep, DrainDoneStep, WaitStep,
     ProcessStep, ProcessDoneStep, ResumeHandleStep, ResumeDoneStep,
     FinalStep, DropOrphanStep, FlushStep, ClearStep DEF LoopStep
<1>2. CASE TaskStep
  BY <1>2, SuspendStep, ReturnStep, ThrowStep, ThrowOutStep, SpawnStep,
     DropAwaitableStep, AwaitStep DEF TaskStep
<1>3. CASE MainStep
  BY <1>3, RunStep, DestroyStep, MainSpawnStep, MainDropStep DEF MainStep
<1>4. CASE OtherStep
  BY <1>4, KernelReadStep, PostStep, WakeStep, KernelCompleteStep
     DEF OtherStep
<1>5. CASE UNCHANGED vars
  BY <1>5 DEF vars, taskVars, loopVars, ioVars, IInv, TypeOK, RefCountExact,
     Exists, Control, Healthy, HealthyInv, QueueInv, Pending, NoteInv,
     PipeInv, WordInv, AwaitInv, FailInv
<1>6. QED BY <1>1, <1>2, <1>3, <1>4, <1>5 DEF Next

\* The inductive invariant holds in every reachable state of the event loop.
THEOREM ExecutorInvariant == Spec => []IInv
<1>1. QED BY InitInv, NextInv, PTL DEF Spec

\* The state of the event loop is always well typed: in particular no
\* reference count goes below zero.
THEOREM TypeCorrect == Spec => []TypeOK
<1>1. IInv => TypeOK
  BY DEF IInv
<1>2. QED BY <1>1, ExecutorInvariant, PTL

\* count_ is at all times the number of references to a coroutine frame, and
\* a frame exists exactly as long as there is one: task_map, spawn_awaitable
\* and final_suspend never free a frame early, twice or not at all.
THEOREM RefCountsAreExact == Spec => []RefCountExact
<1>1. IInv => RefCountExact
  BY DEF IInv
<1>2. QED BY <1>1, ExecutorInvariant, PTL

\* Everything run() is going to resume is a live task.
THEOREM NoDanglingHandle == Spec => []LiveReferences
<1>1. IInv => LiveReferences
  <2>1. SUFFICES ASSUME IInv, pc \in InLoop PROVE LiveReferences
    BY DEF LiveReferences
  <2>2. /\ HealthyInv /\ TypeOK /\ QueueInv /\ NoteInv /\ PipeInv /\ AwaitInv
        /\ Control
    BY <2>1 DEF IInv, Control, HealthyInv
  <2>3. ASSUME NEW i \in 1..Len(runQueue)
        PROVE  runQueue[i] \in tasks \/ (i = 1 /\ pc = "inDrain")
    <3>1. CASE pc # "inDrain"
      BY <2>2, <3>1 DEF QueueInv, Pending, Elem
    <3>2. CASE pc = "inDrain" /\ i # 1
      <4>1. /\ i - 1 \in 1..Len(Tail(runQueue))
            /\ Tail(runQueue)[i - 1] = runQueue[i]
        BY <2>2, <3>2 DEF TypeOK
      <4>2. runQueue[i] \in Elem(Tail(runQueue))
        BY <4>1 DEF Elem
      <4>3. QED BY <2>2, <3>2, <4>2 DEF QueueInv, Pending
    <3>3. QED BY <3>1, <3>2
  <2>4. /\ \A i \in 1..Len(handles) : handles[i] \in tasks
        /\ \A i \in 1..Len(cq) : cq[i] # PipeRead => cq[i] \in tasks
    BY <2>2 DEF NoteInv, Elem
  <2>5. \A i \in 1..Len(pipe) : pipe[i].kind = "wake" => pipe[i].task \in tasks
    BY <2>2 DEF PipeInv, WordInv, Elem
  <2>6. /\ cur # None => cur \in tasks
        /\ \A t \in tasks : cont[t] # None => cont[t] \in tasks
    BY <2>2 DEF AwaitInv
  <2>7. QED BY <2>3, <2>4, <2>5, <2>6 DEF LiveReferences
<1>2. QED BY <1>1, ExecutorInvariant, PTL

\* A coroutine that co_awaits a spawned task is never left waiting for a task
\* that has already ended.
THEOREM AwaitersAreResumed == Spec => []AwaiterWillBeResumed
<1>1. IInv => AwaiterWillBeResumed
  BY DEF IInv, Control, HealthyInv, AwaitInv, AwaiterWillBeResumed
<1>2. QED BY <1>1, ExecutorInvariant, PTL

\* run() returns normally only if every exception was seen by an awaiter or
\* is still held by an awaitable of the caller.
THEOREM ExceptionsAreNotLost == Spec => []NoLostException
<1>1. IInv => NoLostException
  <2>1. SUFFICES ASSUME IInv, pc = "leave", outcome = "return"
                 PROVE  /\ excPtr = None
                        /\ \A t \in failed :
                              \/ wasAwaited[t]
                              \/ rt[t] = "error" /\ holder[t] = Main
    BY DEF NoLostException
  <2>2. /\ tasks = {} /\ excPtr = None /\ AwaitInv /\ FailInv /\ TypeOK
    BY <2>1 DEF IInv, Control, Healthy, HealthyInv
  <2>3. \A t \in Tasks : holder[t] \in {Main, None}
    BY <2>2 DEF AwaitInv, TypeOK
  <2>4. QED BY <2>2, <2>3 DEF FailInv, TypeOK
<1>2. QED BY <1>1, ExecutorInvariant, PTL

\* Once run() is left no frame stays behind but those the caller still holds
\* an awaitable of.
THEOREM NoFrameIsLeaked == Spec => []NothingLeftBehind
<1>1. IInv => NothingLeftBehind
  <2>1. SUFFICES ASSUME IInv, tasks = {}, NEW t \in Tasks, Exists(t)
                 PROVE  /\ holder[t] # None
                        /\ pc = "idle" => st[t] = "final" /\ holder[t] = Main
    BY DEF NothingLeftBehind
  <2>2. holder[t] # None
    BY <2>1, MapFacts DEF IInv
  <2>3. ASSUME pc = "idle" PROVE st[t] = "final" /\ holder[t] = Main
    <3>1. AwaitInv /\ TypeOK
      BY <2>1, <2>3 DEF IInv, Control, HealthyInv
    <3>2. QED BY <2>1, <2>2, <3>1 DEF AwaitInv, TypeOK
  <2>4. QED BY <2>2, <2>3
<1>2. QED BY <1>1, ExecutorInvariant, PTL

\* The loop never blocks or processes completions on top of an exception.
THEOREM NoBlockingOnException == Spec => []ExcPtrClear
<1>1. IInv => ExcPtrClear
  BY DEF IInv, Control, ExcPtrClear
<1>2. QED BY <1>1, ExecutorInvariant, PTL

\* As long as the loop runs, no frame is destroyed under a coroutine that has
\* not come to its end.
THEOREM FramesOutliveTheirTask == Spec => DestroyedOnlyAfterItsEnd
<1> DEFINE A == \A t \in Tasks :
          pc \in InLoop /\ st[t] # "destroyed" /\ st'[t] = "destroyed" =>
             st[t] = "final" \/ cur = t
<1>1. IInv /\ [Next]_vars => [A]_vars
  <2>1. SUFFICES ASSUME IInv, Next, pc \in InLoop, NEW t \in Tasks,
                        st[t] # "destroyed", st'[t] = "destroyed"
                 PROVE  st[t] = "final" \/ cur = t
    OBVIOUS
  <2>2. TypeOK /\ RefCountExact /\ Healthy /\ AwaitInv
    BY <2>1 DEF IInv, Control, HealthyInv
  <2>3. ASSUME NEW c \in Tasks, holder[c] # None, Drop(c)
        PROVE  st[t] = "final"
    <3>1. t = c /\ t \notin tasks
      BY <2>1, <2>2, <2>3, DropKeepsCounts
    <3>2. Exists(t)
      BY <2>2, <2>3, <3>1, MapFacts
    <3>3. QED BY <2>2, <3>1, <3>2 DEF AwaitInv
  <2>4. CASE LoopStep
    <3>1. Orphans = {}
      BY <2>1, <2>2, NoOrphans
    <3>2. ~DropOrphan /\ ~Flush /\ \A u \in Tasks : ~Clear(u)
      BY <2>1, <3>1 DEF DropOrphan, Flush, Clear, InLoop
    <3>3. ASSUME NEW h \in Tasks, NEW s \in {"running", "ready"},
                 st' = [st EXCEPT ![h] = s]
          PROVE  FALSE
      BY <2>1, <2>2, <3>3 DEF TypeOK
    <3>4. st' # st
      BY <2>1
    <3>5. DrainResume \/ ResumeHandle \/ Process
      BY <2>4, <3>2, <3>4 DEF LoopStep, Top, DrainPop, DrainDone, Wait,
           ProcessDone, ResumeDone, Final, taskVars
    <3>6. ~DrainResume
      <4>1. runQueue # <<>> => Head(runQueue) \in Tasks
        BY <2>2, TailElem DEF TypeOK
      <4>2. QED BY <3>3, <4>1 DEF DrainResume
    <3>7. ~ResumeHandle
      <4>1. handles # <<>> => Head(handles) \in Tasks
        BY <2>2, TailElem DEF TypeOK
      <4>2. QED BY <3>3, <4>1 DEF ResumeHandle
    <3>8. ~Process
      <4>1. SUFFICES ASSUME ProcessPost, Process PROVE FALSE
        BY <3>4 DEF Process, ProcessIo, ProcessWake, taskVars
      <4>2. cq # <<>> /\ cq \in Seq(Tasks \cup {PipeRead}) /\ PipeInv
        <5>1. ready > 0 /\ ready <= Len(cq)
          BY <4>1, <2>1 DEF Process, IInv, Control
        <5>2. QED BY <2>1, <2>2, <5>1 DEF TypeOK, IInv, HealthyInv
      <4>3. rdBuf # None
        BY <4>1, <4>2, TailElem DEF ProcessPost, PipeInv
      <4>4. rdBuf.task \in Tasks
        BY <2>2, <4>3, WakeWords DEF TypeOK
      <4>5. QED BY <3>3, <4>1, <4>4 DEF ProcessPost
    <3>9. QED BY <3>5, <3>6, <3>7, <3>8
  <2>5. CASE TaskStep
    <3>1. PICK u \in Tasks :
            \/ Suspend(u) \/ Return(u) \/ Throw(u) \/ ThrowOut(u)
            \/ \E c \in Tasks : Spawn(u, c) \/ DropAwaitable(u, c) \/ Await(u, c)
      BY <2>5 DEF TaskStep
    <3>2. CASE Suspend(u) \/ ThrowOut(u)
      BY <2>1, <2>2, <3>2 DEF Suspend, ThrowOut, TypeOK
    <3>3. CASE Return(u) \/ Throw(u)
      BY <2>1, <2>2, <3>3 DEF Return, Throw, FinishAs, TypeOK
    <3>4. ASSUME NEW c \in Tasks, Spawn(u, c) \/ Await(u, c) PROVE FALSE
      BY <2>1, <2>2, <3>4 DEF Spawn, SpawnFor, Await, TypeOK
    <3>5. ASSUME NEW c \in Tasks, DropAwaitable(u, c) PROVE st[t] = "final"
      BY <2>3, <3>5, NamesAssumption DEF DropAwaitable
    <3>6. QED BY <3>1, <3>2, <3>3, <3>4, <3>5
  <2>6. CASE MainStep
    BY <2>1, <2>6 DEF MainStep, Run, Destroy, MainSpawn, MainDrop, InLoop,
       Outside, taskVars
  <2>7. CASE OtherStep
    BY <2>1, <2>2, <2>7 DEF OtherStep, KernelRead, Post, Wake,
       KernelComplete, TypeOK, taskVars
  <2>8. QED BY <2>1, <2>4, <2>5, <2>6, <2>7 DEF Next
<1>2. QED BY <1>1, ExecutorInvariant, PTL DEF Spec, DestroyedOnlyAfterItsEnd

-----------------------------------------------------------------------------
(***************************************************************************)
(* No wake-up is lost and none is delivered twice.  NoteInv and PipeInv    *)
(* bound the notifications of a task by one; that one is there for every   *)
(* signalled task is a second invariant, inductive on top of IInv.         *)
(***************************************************************************)

Told(t) == \/ t \in Elem(handles) \/ t \in Elem(cq)
           \/ WakeWord(t) \in Elem(pipe) \/ rdBuf = WakeWord(t)

Heard == Healthy => \A t \in Tasks : st[t] = "signalled" => Told(t)

\* A step that moves no notification and signals nobody.
LEMMA HeardKept ==
    ASSUME Heard, UNCHANGED <<handles, cq, pipe, rdBuf>>,
           outcome' = outcome \/ ~(Healthy'),
           \A t \in Tasks : st'[t] = "signalled" => st[t] = "signalled"
    PROVE  Heard'
BY DEF Heard, Told, Healthy

\* The steps of the loop that leave the queues of notifications alone.
LEMMA QuietLoop ==
    ASSUME IInv, Heard,
           \/ Top \/ DrainResume \/ DrainPop \/ DrainDone \/ Wait \/ ProcessDone
           \/ ResumeDone \/ Final \/ DropOrphan \/ \E t \in Tasks : Clear(t)
    PROVE  Heard'
<1>0. TypeOK
  BY DEF IInv
<1>1. CASE Top \/ ProcessDone
  BY <1>1, HeardKept DEF Top, ProcessDone, CheckException, Leave, taskVars,
                         ioVars, Healthy
<1>2. CASE Final
  <2>1. pc = "final" => Healthy
    BY DEF IInv, Control, InLoop
  <2>2. QED BY <1>2, <2>1, HeardKept DEF Final, Leave, taskVars, Healthy
<1>3. CASE DrainDone \/ Wait \/ ResumeDone
  BY <1>3, HeardKept DEF DrainDone, Wait, ResumeDone, taskVars, ioVars
<1>4. CASE DrainPop
  BY <1>4, HeardKept DEF DrainPop, CheckException, Leave, ioVars, Healthy
<1>5. CASE DrainResume
  <2>1. \A t \in Tasks : st'[t] = "signalled" => st[t] = "signalled"
    BY <1>0, <1>5 DEF DrainResume, TypeOK
  <2>2. QED BY <1>5, <2>1, HeardKept DEF DrainResume, ioVars
<1>6. CASE DropOrphan
  <2>1. \A t \in Tasks : st'[t] = "signalled" => st[t] = "signalled"
    BY <1>0, <1>6 DEF DropOrphan, Drop, TypeOK
  <2>2. QED BY <1>6, <2>1, HeardKept DEF DropOrphan, loopVars, ioVars
<1>7. CASE \E t \in Tasks : Clear(t)
  <2>1. \A t \in Tasks : st'[t] = "signalled" => st[t] = "signalled"
    BY <1>0, <1>7 DEF Clear, TypeOK
  <2>2. QED BY <1>7, <2>1, HeardKept DEF Clear, loopVars, ioVars
<1>8. QED BY <1>1, <1>2, <1>3, <1>4, <1>5, <1>6, <1>7

\* ~guard discards notifications when run() returns: nobody is left to hear.
LEMMA FlushHeard ==
    ASSUME IInv, Heard, Flush
    PROVE  Heard'
<1>1. SUFFICES ASSUME Healthy', NEW t \in Tasks, st'[t] = "signalled"
               PROVE  FALSE
  BY DEF Heard
<1>2. Healthy /\ tasks = {} /\ st[t] = "signalled"
  BY <1>1 DEF Flush, Healthy, taskVars
<1>3. st[t] = "final"
  BY <1>2 DEF IInv, HealthyInv, AwaitInv, Exists
<1>4. QED BY <1>2, <1>3

\* A coroutine that runs signals nobody.
LEMMA TaskStepHeard ==
    ASSUME IInv, Heard, TaskStep
    PROVE  Heard'
<1>0. TypeOK
  BY DEF IInv
<1>1. PICK u \in Tasks :
        \/ Suspend(u) \/ Return(u) \/ Throw(u) \/ ThrowOut(u)
        \/ \E c \in Tasks : Spawn(u, c) \/ DropAwaitable(u, c) \/ Await(u, c)
  BY DEF TaskStep
<1>2. CASE Suspend(u)
  <2>1. \A t \in Tasks : st'[t] = "signalled" => st[t] = "signalled"
    BY <1>0, <1>2 DEF Suspend, TypeOK
  <2>2. QED BY <1>2, <2>1, HeardKept DEF Suspend, ioVars
<1>3. CASE Return(u) \/ Throw(u)
  <2>1. \A t \in Tasks : st'[t] = "signalled" => st[t] = "signalled"
    BY <1>0, <1>3 DEF Return, Throw, FinishAs, TypeOK
  <2>2. QED BY <1>3, <2>1, HeardKept DEF Return, Throw, FinishAs, ioVars
<1>4. CASE ThrowOut(u)
  <2>1. \A t \in Tasks : st'[t] = "signalled" => st[t] = "signalled"
    BY <1>0, <1>4 DEF ThrowOut, TypeOK
  <2>2. QED BY <1>4, <2>1, HeardKept DEF ThrowOut, Leave, Healthy
<1>5. ASSUME NEW c \in Tasks, Spawn(u, c) PROVE Heard'
  <2>1. \A t \in Tasks : st'[t] = "signalled" => st[t] = "signalled"
    BY <1>0, <1>5 DEF Spawn, SpawnFor, TypeOK
  <2>2. QED BY <1>5, <2>1, HeardKept DEF Spawn, loopVars, ioVars
<1>6. ASSUME NEW c \in Tasks, DropAwaitable(u, c) PROVE Heard'
  <2>1. \A t \in Tasks : st'[t] = "signalled" => st[t] = "signalled"
    BY <1>0, <1>6 DEF DropAwaitable, Drop, TypeOK
  <2>2. QED BY <1>6, <2>1, HeardKept DEF DropAwaitable, loopVars, ioVars
<1>7. ASSUME NEW c \in Tasks, Await(u, c) PROVE Heard'
  <2>1. \A t \in Tasks : st'[t] = "signalled" => st[t] = "signalled"
    BY <1>0, <1>7 DEF Await, TypeOK
  <2>2. QED BY <1>7, <2>1, HeardKept DEF Await, ioVars
<1>8. QED BY <1>1, <1>2, <1>3, <1>4, <1>5, <1>6, <1>7

\* Neither does the code outside of run().
LEMMA MainStepHeard ==
    ASSUME IInv, Heard, MainStep
    PROVE  Heard'
<1>0. TypeOK
  BY DEF IInv
<1>1. CASE Run
  BY <1>1, HeardKept DEF Run, taskVars
<1>2. CASE Destroy
  BY <1>2, HeardKept DEF Destroy, Leave, taskVars, Healthy
<1>3. ASSUME NEW c \in Tasks, MainSpawn(c) PROVE Heard'
  <2>1. \A t \in Tasks : st'[t] = "signalled" => st[t] = "signalled"
    BY <1>0, <1>3 DEF MainSpawn, SpawnFor, TypeOK
  <2>2. QED BY <1>3, <2>1, HeardKept DEF MainSpawn, loopVars, ioVars
<1>4. ASSUME NEW c \in Tasks, MainDrop(c) PROVE Heard'
  <2>1. \A t \in Tasks : st'[t] = "signalled" => st[t] = "signalled"
    BY <1>0, <1>4 DEF MainDrop, Drop, TypeOK
  <2>2. QED BY <1>4, <2>1, HeardKept DEF MainDrop, loopVars, ioVars
<1>5. QED BY <1>1, <1>2, <1>3, <1>4 DEF MainStep

\* A handle leaves the collected ones when its coroutine runs.
LEMMA ResumeHandleHeard ==
    ASSUME IInv, Heard, ResumeHandle
    PROVE  Heard'
<1> DEFINE h == Head(handles)
<1>1. /\ TypeOK /\ Healthy /\ Inj(handles) /\ handles \in Seq(Tasks)
      /\ handles # <<>> /\ handles' = Tail(handles)
      /\ st' = [st EXCEPT ![h] = "running"]
      /\ UNCHANGED <<cq, pipe, rdBuf>>
  BY DEF IInv, Control, InLoop, HealthyInv, NoteInv, TypeOK, ResumeHandle, ioVars
<1>2. Elem(handles') = Elem(handles) \ {h}
  BY <1>1, TailElem
<1>3. \A t \in Tasks : st'[t] = "signalled" => t # h /\ st[t] = "signalled"
  BY <1>1 DEF TypeOK
<1>4. QED BY <1>1, <1>2, <1>3 DEF Heard, Told

\* A word enters the pipe.
LEMMA PostWakeHeard ==
    ASSUME IInv, Heard, NEW t \in Tasks, Post(t) \/ Wake(t)
    PROVE  Heard'
<1>1. /\ TypeOK /\ pipe \in Seq(Word) /\ outcome' = outcome
      /\ UNCHANGED <<handles, cq, rdBuf>>
  BY DEF IInv, TypeOK, Post, Wake, loopVars
<1>2. CASE Post(t)
  <2>1. [kind |-> "post", task |-> t] \in Word
    BY DEF Word
  <2>2. Elem(pipe) \subseteq Elem(pipe')
    BY <1>1, <1>2, <2>1, AppendElem DEF Post
  <2>3. \A u \in Tasks : st'[u] = "signalled" => st[u] = "signalled"
    BY <1>1, <1>2 DEF Post, TypeOK
  <2>4. QED BY <1>1, <2>2, <2>3 DEF Heard, Told, Healthy
<1>3. CASE Wake(t)
  <2>1. WakeWord(t) \in Word /\ pipe' = Append(pipe, WakeWord(t))
    BY <1>3 DEF Word, WakeWord, Wake
  <2>2. Elem(pipe') = Elem(pipe) \cup {WakeWord(t)}
    BY <1>1, <2>1, AppendElem
  <2>3. \A u \in Tasks : st'[u] = "signalled" => u = t \/ st[u] = "signalled"
    BY <1>1, <1>3 DEF Wake, TypeOK
  <2>4. QED BY <1>1, <2>2, <2>3 DEF Heard, Told, Healthy
<1>4. QED BY <1>2, <1>3

\* A completion of the kernel enters the completion queue; a word moves from
\* the pipe to the buffer of the read, which was empty.
LEMMA KernelHeard ==
    ASSUME IInv, Heard, KernelRead \/ \E t \in Tasks : KernelComplete(t)
    PROVE  Heard'
<1>1. /\ TypeOK /\ pipe \in Seq(Word) /\ outcome' = outcome
      /\ cq \in Seq(Tasks \cup {PipeRead}) /\ UNCHANGED handles
  BY DEF IInv, TypeOK, KernelRead, KernelComplete, loopVars
<1>2. CASE KernelRead
  <2>1. Elem(cq) \subseteq Elem(cq')
    BY <1>1, <1>2, AppendElem DEF KernelRead
  <2>2. ASSUME Healthy, NEW w \in Elem(pipe) PROVE w \in Elem(pipe') \/ w = rdBuf'
    <3>1. Inj(pipe) /\ pipe # <<>> /\ pipe' = Tail(pipe) /\ rdBuf' = Head(pipe)
      BY <1>2, <2>2 DEF IInv, HealthyInv, NoteInv, KernelRead
    <3>2. Elem(pipe') = Elem(pipe) \ {Head(pipe)}
      BY <1>1, <3>1, TailElem
    <3>3. QED BY <2>2, <3>1, <3>2
  <2>3. Healthy => rdBuf = None
    BY <1>2 DEF IInv, HealthyInv, PipeInv, KernelRead
  <2>4. \A t \in Tasks : WakeWord(t) # None
    BY WakeWords, NamesAssumption
  <2>5. st' = st /\ Healthy' = Healthy
    BY <1>1, <1>2 DEF KernelRead, taskVars, Healthy
  <2>6. QED BY <1>1, <2>1, <2>2, <2>3, <2>4, <2>5 DEF Heard, Told
<1>3. ASSUME NEW t \in Tasks, KernelComplete(t) PROVE Heard'
  <2>1. Elem(cq') = Elem(cq) \cup {t}
    BY <1>1, <1>3, AppendElem DEF KernelComplete
  <2>2. \A u \in Tasks : st'[u] = "signalled" => u = t \/ st[u] = "signalled"
    BY <1>1, <1>3 DEF KernelComplete, TypeOK
  <2>3. UNCHANGED <<pipe, rdBuf>>
    BY <1>3 DEF KernelComplete
  <2>4. QED BY <1>1, <2>1, <2>2, <2>3 DEF Heard, Told, Healthy
<1>4. QED BY <1>2, <1>3

\* A completion becomes a collected handle.
LEMMA ProcessHeard ==
    ASSUME IInv, Heard, Process
    PROVE  Heard'
<1> DEFINE e == Head(cq)
<1>1. /\ TypeOK /\ Healthy /\ Inj(cq) /\ cq \in Seq(Tasks \cup {PipeRead})
      /\ handles \in Seq(Tasks) /\ cq' = Tail(cq) /\ pipe' = pipe
      /\ PipeInv /\ ready > 0 /\ ready <= Len(cq) /\ ready \in Nat
  BY DEF IInv, Control, InLoop, HealthyInv, NoteInv, TypeOK, Process
<1>2. cq # <<>>
  BY <1>1
<1>3. e \in Tasks \cup {PipeRead} /\ e \in Elem(cq) /\ Elem(cq') = Elem(cq) \ {e}
  BY <1>1, <1>2, TailElem
<1>4. CASE ProcessIo
  <2>1. e \in Tasks /\ handles' = Append(handles, e) /\ st' = st /\ rdBuf' = rdBuf
    BY <1>3, <1>4 DEF ProcessIo, taskVars
  <2>2. Elem(handles') = Elem(handles) \cup {e}
    BY <1>1, <2>1, AppendElem
  <2>3. QED BY <1>1, <1>3, <2>1, <2>2 DEF Heard, Told
<1>5. ASSUME e = PipeRead PROVE rdBuf \in Word
  BY <1>1, <1>3, <1>5 DEF PipeInv, TypeOK
<1>6. CASE ProcessWake
  <2>1. /\ e = PipeRead /\ rdBuf.kind = "wake" /\ st' = st
        /\ handles' = Append(handles, rdBuf.task)
    BY <1>6 DEF ProcessWake, taskVars
  <2>2. rdBuf.task \in Tasks /\ rdBuf = WakeWord(rdBuf.task)
    BY <1>5, <2>1, WakeWords
  <2>3. Elem(handles') = Elem(handles) \cup {rdBuf.task}
    BY <1>1, <2>1, <2>2, AppendElem
  <2>4. \A t \in Tasks : rdBuf = WakeWord(t) => t = rdBuf.task
    BY WakeWords
  <2>5. QED BY <1>1, <1>3, <2>1, <2>3, <2>4, NamesAssumption DEF Heard, Told
<1>7. CASE ProcessPost
  <2>1. /\ e = PipeRead /\ rdBuf.kind = "post" /\ handles' = handles
        /\ st' = [st EXCEPT ![rdBuf.task] = "ready"]
    BY <1>7 DEF ProcessPost
  <2>2. \A t \in Tasks : st'[t] = "signalled" => st[t] = "signalled"
    BY <1>1, <2>1 DEF TypeOK
  <2>3. \A t \in Tasks : rdBuf # WakeWord(t)
    BY <2>1, WakeWords
  <2>4. QED BY <1>1, <1>3, <2>1, <2>2, <2>3, NamesAssumption DEF Heard, Told
<1>8. QED BY <1>4, <1>6, <1>7 DEF Process

\* Every step keeps a notification for every signalled task.
LEMMA NextHeard == IInv /\ Heard /\ [Next]_vars => Heard'
<1> SUFFICES ASSUME IInv, Heard, [Next]_vars PROVE Heard'
  OBVIOUS
<1>1. CASE LoopStep
  BY <1>1, QuietLoop, FlushHeard, ResumeHandleHeard, ProcessHeard DEF LoopStep
<1>2. CASE TaskStep
  BY <1>2, TaskStepHeard
<1>3. CASE MainStep
  BY <1>3, MainStepHeard
<1>4. CASE OtherStep
  BY <1>4, KernelHeard, PostWakeHeard DEF OtherStep
<1>5. CASE UNCHANGED vars
  BY <1>5, HeardKept DEF vars, taskVars, loopVars, ioVars
<1>6. QED BY <1>1, <1>2, <1>3, <1>4, <1>5 DEF Next

\* How often an element is in a queue without duplicates.
LEMMA CountOnce ==
    ASSUME NEW S, NEW s \in Seq(S), Inj(s), NEW x
    PROVE  Cardinality({i \in 1..Len(s) : s[i] = x}) = One(x \in Elem(s))
<1> DEFINE P == {i \in 1..Len(s) : s[i] = x}
<1>1. CASE x \in Elem(s)
  <2>1. PICK i \in 1..Len(s) : s[i] = x
    BY <1>1 DEF Elem
  <2>2. P = {i}
    BY <2>1 DEF Inj
  <2>3. QED BY <1>1, <2>2, FS_Singleton DEF One
<1>2. CASE x \notin Elem(s)
  <2>1. P = {}
    BY <1>2 DEF Elem
  <2>2. QED BY <1>2, <2>1, FS_EmptySet DEF One
<1>3. QED BY <1>1, <1>2

\* While the loop runs, a signalled task is told exactly once, whichever of
\* pipe, read, completion queue and batch its notification is in, and no other
\* task is told: wake(), the kernel and run() lose and repeat no wake-up.
THEOREM WakeUpsAreDeliveredOnce == Spec => []SignalledOnce
<1>1. IInv /\ Heard => SignalledOnce
  <2>1. SUFFICES ASSUME IInv, Heard, pc \in InLoop, NEW t \in Tasks
                 PROVE  Notifications(t) = One(st[t] = "signalled")
    BY DEF SignalledOnce
  <2>2. /\ Healthy /\ NoteInv /\ PipeInv /\ TypeOK
    BY <2>1 DEF IInv, Control, HealthyInv
  <2>3. /\ Inj(handles) /\ Inj(cq) /\ Inj(pipe)
        /\ handles \in Seq(Tasks) /\ cq \in Seq(Tasks \cup {PipeRead})
        /\ pipe \in Seq(Word)
    BY <2>2 DEF NoteInv, TypeOK
  <2> DEFINE H == t \in Elem(handles)
             C == t \in Elem(cq)
             W == WakeWord(t) \in Elem(pipe)
             R == rdBuf = WakeWord(t)
  <2>4. Cardinality({i \in 1..Len(handles) : handles[i] = t}) = One(H)
    BY <2>3, CountOnce
  <2>5. Cardinality({i \in 1..Len(cq) : cq[i] = t}) = One(C)
    BY <2>3, CountOnce
  <2>6. {i \in 1..Len(pipe) : pipe[i].kind = "wake" /\ pipe[i].task = t}
          = {i \in 1..Len(pipe) : pipe[i] = WakeWord(t)}
    BY <2>3, WakeWords
  <2>7. Cardinality({i \in 1..Len(pipe) :
                        pipe[i].kind = "wake" /\ pipe[i].task = t}) = One(W)
    BY <2>3, <2>6, CountOnce
  <2>8. rdBuf # None /\ rdBuf = [kind |-> "wake", task |-> t] <=> R
    BY WakeWords, NamesAssumption DEF WakeWord
  <2>9. Notifications(t) = ((One(H) + One(C)) + One(W)) + One(R)
    BY <2>4, <2>5, <2>7, <2>8 DEF Notifications, Positions
  <2>10. /\ H => ~C /\ ~W /\ ~R
         /\ C => ~W /\ ~R
         /\ W => ~R
    <3>1. t # PipeRead
      BY NamesAssumption
    <3>2. QED BY <2>2, <3>1 DEF NoteInv, PipeInv
  <2>11. H \/ C \/ W \/ R <=> st[t] = "signalled"
    <3>1. H \/ C => st[t] = "signalled"
      BY <2>2, NamesAssumption DEF NoteInv
    <3>2. W \/ R => WordInv(WakeWord(t))
      BY <2>2, WakeWords, NamesAssumption DEF PipeInv
    <3>3. WordInv(WakeWord(t)) => st[t] = "signalled"
      BY WakeWords DEF WordInv
    <3>4. QED BY <2>1, <2>2, <3>1, <3>2, <3>3 DEF Heard, Told
  <2>12. QED BY <2>9, <2>10, <2>11 DEF One
<1>2. Init => Heard
  BY DEF Init, Heard
<1>3. QED BY <1>1, <1>2, ExecutorInvariant, NextHeard, PTL DEF Spec

=============================================================================

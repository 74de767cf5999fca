----------------------------- MODULE RecvProofs -----------------------------
(***************************************************************************)
(* Proofs about async_recv, for any number of streams, buffer groups,      *)
(* buffers and chunks: the readers are served, what they get is what was   *)
(* sent (the refinement of Channel), and the ids of the rings are neither  *)
(* lost nor doubled.                                                       *)
(***************************************************************************)
EXTENDS Recv, Counting

-----------------------------------------------------------------------------
(* The invariant of the receives and their readers.                        *)

\* The submission queue has a receive of stream s; the completion queue has a
\* completion of it, and the last one of its receive.
Asks(q, s)  == \E i \in 1..Len(q) : q[i].op = "recv" /\ q[i].s = s
Tells(q, s) == \E i \in 1..Len(q) : q[i].s = s
Stops(q, s) == \E i \in 1..Len(q) : q[i].s = s /\ ~q[i].more

\* Of a stream one receive is queued, and nothing follows its last completion.
OneAsks(q)  == \A i, j \in 1..Len(q) :
    q[i].op = "recv" /\ q[j].op = "recv" /\ q[i].s = q[j].s => i = j
StopIsLast(q) == \A i, j \in 1..Len(q) : q[i].s = q[j].s /\ ~q[i].more => j <= i

\* The completions the kernel makes.
Proper(e) == IF e.kind = "data" THEN e.n > 0 /\ e.id \in Ids
             ELSE ~e.more /\ e.n = 0

Queues == /\ OneAsks(sq) /\ StopIsLast(cq)
          /\ \A i \in 1..Len(cq) : Proper(cq[i])

\* The sequence ends with an end of file; it has one at its end only.
Zero(q) == q # <<>> /\ q[Len(q)] = 0
Tidy(q) == \A i \in 1..Len(q) : q[i] = 0 => i = Len(q)

\* A receive is under way exactly while it is queued, in the kernel, or its last
\* completion is still to be processed; there is one at a time, and none once
\* the frame has an error or the end of file.
Under(s) ==
    /\ rf[s].initiated <=> Asks(sq, s) \/ s \in armed \/ Stops(cq, s)
    /\ Tells(cq, s) => s \in armed \/ Stops(cq, s)
    /\ Asks(sq, s) => s \notin armed /\ ~Tells(cq, s)
    /\ s \in armed => ~Stops(cq, s)
    /\ rf[s].initiated => rf[s].ec = NoError /\ ~Zero(rf[s].buffers)
    /\ Tidy(rf[s].buffers)

\* ResumedWithSomething for one stream.
Served(s) ==
    IF reader[s] = "waiting"
    THEN \/ /\ Times(handles, s) = 0 /\ rf[s].h /\ rf[s].initiated
            /\ rf[s].buffers = <<>> /\ rf[s].ec = NoError
         \/ /\ Times(handles, s) = 1 /\ ~rf[s].h
            /\ rf[s].buffers # <<>> \/ rf[s].ec # NoError
    ELSE Times(handles, s) = 0 /\ ~(rf[s].h /\ rf[s].initiated)

Readers == TypeOK /\ Queues /\ \A s \in Streams : Under(s) /\ Served(s)

-----------------------------------------------------------------------------
(* The invariant of the data.                                              *)

\* The numbers from k + 1 on, and perhaps an end of file.
Counts(q, k) == \A i \in 1..Len(q) : q[i] = k + i \/ (q[i] = 0 /\ i = Len(q))

AtEnd(s) == Zero(got[s]) \/ Zero(rf[s].buffers)

\* How many chunks have left the completion queue.
Seen(s) == (Len(got[s]) + Len(rf[s].buffers)) - Bit(AtEnd(s))

\* The completions bring the chunks of s from lo + 1 to hi, in this order.
Chunk(q, i, s) == q[i].kind = "data" /\ q[i].s = s
Brings(q, s, lo, hi) ==
    /\ \A i \in 1..Len(q) : Chunk(q, i, s) => q[i].n > lo /\ q[i].n <= hi
    /\ \A n \in lo + 1..hi : \E i \in 1..Len(q) : Chunk(q, i, s) /\ q[i].n = n
    /\ \A i, j \in 1..Len(q) : Chunk(q, i, s) /\ Chunk(q, j, s) /\ i < j =>
          q[i].n < q[j].n

\* The chunks are in the hands of the user, in the frame and in the completions,
\* in this order and without a gap; after the end of file nothing is read.
Flow(s) ==
    /\ Counts(got[s], 0) /\ Counts(rf[s].buffers, Len(got[s]))
    /\ Zero(got[s]) => rf[s].buffers = <<>> /\ reader[s] \in {"eof", "gone"}
    /\ AtEnd(s) => ~rf[s].initiated
    /\ Seen(s) <= arrived[s]
    /\ Brings(cq, s, Seen(s), arrived[s])

Flows == \A s \in Streams : Flow(s)

-----------------------------------------------------------------------------
(* The invariant of the rings.                                             *)

\* The completions of q that name a buffer of group g, and the ids they name;
\* f has the frames of the streams.
Hit(e, f, g)   == e.kind = "data" /\ f[e.s].ring = g
Hits(q, f, g)  == {i \in 1..Len(q) : Hit(q[i], f, g)}
Named(q, f, g) == {q[i].id : i \in Hits(q, f, g)}
Once(q, f, g)  == \A i, j \in Hits(q, f, g) : q[i].id = q[j].id => i = j

Inj(q) == \A i, j \in 1..Len(q) : q[i] = q[j] => i = j

\* Every id is in the ring r, on the stack k or in N, in one of them and once.
Apart(r, k, N) ==
    /\ Inj(r) /\ Inj(k)
    /\ ToSet(r) \cap ToSet(k) = {}
    /\ ToSet(r) \cap N = {}
    /\ ToSet(k) \cap N = {}
    /\ ToSet(r) \cup ToSet(k) \cup N = Ids

\* The buffers from ring g that have not been read.
Unread(f, g) == {p \in Streams \X (1..MaxData + 1) :
                   f[p[1]].ring = g /\ p[2] <= Len(Data(f[p[1]].buffers))}

\* Where the ids of a ring are, and which recv_buffers have memory.
Place(g) ==
    /\ Apart(ring[g], stack[g], Named(cq, rf, g)) /\ Once(cq, rf, g)
    /\ bufs[g] = Ids \ ToSet(stack[g])

Places == \A g \in Groups : Place(g)

\* What is unread came out of the ring of the group that is set, and no id is
\* on the stack without a buffer to be read.
Grouped == \A s \in Streams : rf[s].initiated \/ rf[s].buffers # <<>>
                                 => rf[s].group = rf[s].ring
Levels == \A g \in Groups : Len(stack[g]) <= Cardinality(Unread(rf, g))

-----------------------------------------------------------------------------
(* Sequences.                                                              *)

\* The upper k entries of the stack q are turned over, the others stay.
Turned(T, q, k, low, back) ==
    /\ low \in Seq(T) /\ Len(low) = Len(q) - k
    /\ \A i \in 1..Len(low) : i \in 1..Len(q) /\ low[i] = q[i]
    /\ back \in Seq(T) /\ Len(back) = k
    /\ \A i \in 1..k : (Len(q) + 1) - i \in 1..Len(q)
                       /\ back[i] = q[(Len(q) + 1) - i]

\* Reverse and SubSeq do so.
LEMMA TurnOver ==
    ASSUME NEW T, NEW q \in Seq(T), NEW k \in Nat, k <= Len(q),
           NEW low, low = SubSeq(q, 1, Len(q) - k),
           NEW back, back = Reverse(SubSeq(q, (Len(q) - k) + 1, Len(q)))
    PROVE  Turned(T, q, k, low, back)
<1>1. Len(q) - k \in Nat /\ Len(q) \in Nat
  OBVIOUS
<1>2. /\ low \in Seq(T) /\ Len(low) = Len(q) - k
      /\ \A i \in 1..Len(low) : i \in 1..Len(q) /\ low[i] = q[i]
  BY <1>1
<1> DEFINE top == SubSeq(q, (Len(q) - k) + 1, Len(q))
<1>3. /\ top \in Seq(T) /\ Len(top) = k
      /\ \A i \in 1..k : top[i] = q[(Len(q) - k) + i]
  BY <1>1
<1> HIDE DEF top
<1>4. back = [i \in 1..Len(top) |-> top[(Len(top) - i) + 1]]
  BY DEF Reverse, top
<1>5. \A i \in 1..k : (k - i) + 1 \in 1..k /\ back[i] = top[(k - i) + 1]
  BY <1>3, <1>4
<1>6. \A i \in 1..k : top[(k - i) + 1] \in T
  BY <1>3, <1>5
<1>7. back \in Seq(T) /\ Len(back) = k
  BY <1>3, <1>4, <1>6
<1>8. \A i \in 1..k : (Len(q) + 1) - i \in 1..Len(q)
                      /\ (Len(q) + 1) - i = (Len(q) - k) + ((k - i) + 1)
  BY <1>1
<1>9. \A i \in 1..k : back[i] = q[(Len(q) + 1) - i]
  BY <1>3, <1>5, <1>8
<1>10. QED BY <1>2, <1>7, <1>8, <1>9 DEF Turned

\* Two sequences one after the other.
LEMMA Joined ==
    ASSUME NEW T, NEW a \in Seq(T), NEW b \in Seq(T)
    PROVE  /\ a \o b \in Seq(T) /\ Len(a \o b) = Len(a) + Len(b)
           /\ \A i \in 1..Len(a) : (a \o b)[i] = a[i]
           /\ \A i \in 1..Len(b) : (a \o b)[Len(a) + i] = b[i]
           /\ \A i \in 1..Len(a) + Len(b) : i > Len(a) =>
                 i - Len(a) \in 1..Len(b) /\ (a \o b)[i] = b[i - Len(a)]
OBVIOUS

\* What stands before the end of file.
LEMMA DataOf ==
    ASSUME NEW T, NEW q \in Seq(T), Tidy(q), NEW d, d = Data(q)
    PROVE  /\ d \in Seq(T) /\ Len(d) \in Nat
           /\ Len(d) = Len(q) - Bit(Zero(q))
           /\ \A i \in 1..Len(d) : i \in 1..Len(q) /\ d[i] = q[i]
<1> DEFINE ends == {i \in 1..Len(q) : q[i] = 0}
<1>1. Len(q) \in Nat
  OBVIOUS
<1>2. CASE ~Zero(q)
  <2>1. ends = {}
    BY <1>2 DEF Tidy, Zero
  <2>2. d = q
    BY <2>1 DEF Data
  <2>3. QED BY <1>1, <1>2, <2>2 DEF Bit
<1>3. CASE Zero(q)
  <2>1. Len(q) \in 1..Len(q) /\ q[Len(q)] = 0
    BY <1>3 DEF Zero
  <2>2. ends = {Len(q)}
    BY <2>1 DEF Tidy
  <2>3. (CHOOSE i \in ends : \A j \in ends : i <= j) = Len(q)
    BY <1>1, <2>2
  <2>4. d = SubSeq(q, 1, Len(q) - 1)
    BY <2>2, <2>3 DEF Data
  <2>5. Len(q) - 1 \in 0..Len(q)
    BY <1>1, <2>1
  <2>6. ASSUME NEW n \in 0..Len(q)
        PROVE  /\ SubSeq(q, 1, n) \in Seq(T) /\ Len(SubSeq(q, 1, n)) = n
               /\ \A i \in 1..n : i \in 1..Len(q) /\ SubSeq(q, 1, n)[i] = q[i]
    OBVIOUS
  <2>7. /\ d \in Seq(T) /\ Len(d) = Len(q) - 1
        /\ \A i \in 1..Len(q) - 1 : i \in 1..Len(q) /\ d[i] = q[i]
    BY <2>4, <2>5, <2>6
  <2>8. QED BY <1>1, <1>3, <2>5, <2>7 DEF Bit
<1>4. QED BY <1>2, <1>3

\* A buffer more.
LEMMA TidyAppend ==
    ASSUME NEW T, NEW q \in Seq(T), NEW x \in T, Tidy(q), ~Zero(q)
    PROVE  /\ Tidy(Append(q, x)) /\ Append(q, x) # <<>>
           /\ Zero(Append(q, x)) <=> x = 0
<1> DEFINE a == Append(q, x)
<1>1. /\ a \in Seq(T) /\ Len(a) = Len(q) + 1 /\ Len(q) \in Nat /\ a # <<>>
      /\ \A i \in 1..Len(q) : a[i] = q[i]
      /\ a[Len(a)] = x
  OBVIOUS
<1> HIDE DEF a
<1>2. \A i \in 1..Len(q) : q[i] # 0
  BY DEF Tidy, Zero
<1>3. \A i \in 1..Len(a) : i \in 1..Len(q) \/ i = Len(a)
  BY <1>1
<1>4. Tidy(a)
  BY <1>1, <1>2, <1>3 DEF Tidy
<1>5. Zero(a) <=> x = 0
  BY <1>1 DEF Zero
<1>6. QED BY <1>1, <1>4, <1>5 DEF a

\* A buffer more is data unless it is the end of file.
LEMMA DataAppend ==
    ASSUME NEW T, NEW q \in Seq(T), NEW x \in T, Tidy(q), ~Zero(q)
    PROVE  Len(Data(Append(q, x))) = IF x = 0 THEN Len(q) ELSE Len(q) + 1
<1> DEFINE a == Append(q, x)
<1>1. a \in Seq(T) /\ Len(a) = Len(q) + 1 /\ Len(q) \in Nat
  OBVIOUS
<1>2. Tidy(a) /\ (Zero(a) <=> x = 0)
  BY TidyAppend
<1> HIDE DEF a
<1>3. Len(Data(a)) = Len(a) - Bit(Zero(a))
  BY <1>1, <1>2, DataOf
<1>4. Len(Data(a)) = IF x = 0 THEN Len(q) ELSE Len(q) + 1
  <2>1. Bit(Zero(a)) = IF x = 0 THEN 1 ELSE 0
    <3>1. CASE x = 0
      BY <1>2, <3>1 DEF Bit
    <3>2. CASE x # 0
      BY <1>2, <3>2 DEF Bit
    <3>3. QED BY <3>1, <3>2
  <2>2. QED BY <1>1, <1>3, <2>1
<1>5. QED BY <1>4 DEF a

\* Where the end of file is.
LEMMA ZeroInSet ==
    ASSUME NEW T, NEW q \in Seq(T), Tidy(q)
    PROVE  0 \in ToSet(q) <=> Zero(q)
<1>1. DOMAIN q = 1..Len(q) /\ Len(q) \in Nat
  OBVIOUS
<1>2. q # <<>> => Len(q) \in 1..Len(q)
  OBVIOUS
<1>3. q # <<>> <=> Len(q) > 0
  OBVIOUS
<1>4. 0 \in ToSet(q) <=> \E i \in 1..Len(q) : q[i] = 0
  BY <1>1 DEF ToSet
<1>5. ASSUME NEW i \in 1..Len(q), q[i] = 0 PROVE Zero(q)
  <2>1. i = Len(q)
    BY <1>5 DEF Tidy
  <2>2. q # <<>>
    BY <1>1, <1>3
  <2>3. QED BY <1>5, <2>1, <2>2 DEF Zero
<1>6. Zero(q) => \E i \in 1..Len(q) : q[i] = 0
  BY <1>2 DEF Zero
<1>7. QED BY <1>4, <1>5, <1>6

\* A sequence that counts has the end of file at its end only.
LEMMA CountsTidy ==
    ASSUME NEW q \in Seq(Nat), NEW k \in Nat, Counts(q, k)
    PROVE  Tidy(q)
BY DEF Counts, Tidy

\* It goes on with the next number, or with the end of file.
LEMMA CountsAppend ==
    ASSUME NEW q \in Seq(Nat), NEW k \in Nat, Counts(q, k), ~Zero(q),
           NEW x \in Nat, x = (k + Len(q)) + 1 \/ x = 0
    PROVE  Counts(Append(q, x), k) /\ Len(Append(q, x)) = Len(q) + 1
<1> DEFINE a == Append(q, x)
<1>1. /\ Len(a) = Len(q) + 1 /\ Len(q) \in Nat
      /\ \A i \in 1..Len(q) : a[i] = q[i]
      /\ a[Len(a)] = x
  OBVIOUS
<1> HIDE DEF a
<1>2. \A i \in 1..Len(q) : q[i] = k + i
  BY DEF Counts, Zero
<1>3. \A i \in 1..Len(a) : i \in 1..Len(q) \/ i = Len(a)
  BY <1>1
<1>4. x = k + Len(a) \/ x = 0
  BY <1>1
<1>5. Counts(a, k)
  BY <1>1, <1>2, <1>3, <1>4 DEF Counts
<1>6. QED BY <1>1, <1>5 DEF a

\* It goes on with a sequence that counts from there.
LEMMA CountsJoin ==
    ASSUME NEW a \in Seq(Nat), NEW b \in Seq(Nat), b # <<>>,
           Counts(a, 0), ~Zero(a), Counts(b, Len(a))
    PROVE  /\ Counts(a \o b, 0) /\ (Zero(a \o b) <=> Zero(b))
           /\ Len(a \o b) = Len(a) + Len(b)
<1> DEFINE c == a \o b
<1>1. /\ Len(c) = Len(a) + Len(b) /\ Len(a) \in Nat /\ Len(b) \in Nat /\ Len(b) > 0
      /\ \A i \in 1..Len(a) : c[i] = a[i]
      /\ \A i \in 1..Len(a) + Len(b) : i > Len(a) =>
            i - Len(a) \in 1..Len(b) /\ c[i] = b[i - Len(a)]
  <2>1. Len(b) > 0
    OBVIOUS
  <2>2. QED BY <2>1, Joined
<1>2. c[Len(c)] = b[Len(b)] /\ c # <<>>
  <2>1. Len(c) \in 1..Len(a) + Len(b) /\ Len(c) > Len(a) /\ Len(c) - Len(a) = Len(b)
    BY <1>1
  <2>2. c # <<>>
    BY <2>1
  <2>3. QED BY <1>1, <2>1, <2>2
<1> HIDE DEF c
<1>3. Zero(c) <=> Zero(b)
  BY <1>2 DEF Zero
<1>4. \A i \in 1..Len(a) : a[i] = 0 + i
  BY DEF Counts, Zero
<1>5. ASSUME NEW i \in 1..Len(c) PROVE c[i] = 0 + i \/ (c[i] = 0 /\ i = Len(c))
  <2>1. CASE i \in 1..Len(a)
    BY <1>1, <1>4, <2>1
  <2>2. CASE i > Len(a)
    <3>1. i - Len(a) \in 1..Len(b) /\ c[i] = b[i - Len(a)]
      BY <1>1, <2>2
    <3>2. \/ b[i - Len(a)] = Len(a) + (i - Len(a))
          \/ b[i - Len(a)] = 0 /\ i - Len(a) = Len(b)
      BY <3>1 DEF Counts
    <3>3. QED BY <1>1, <3>1, <3>2
  <2>3. QED BY <1>1, <2>1, <2>2
<1>6. QED BY <1>1, <1>3, <1>5 DEF c, Counts

-----------------------------------------------------------------------------
(* The queues.                                                             *)

\* An entry more in the submission queue.
LEMMA AskAppend ==
    ASSUME NEW q \in Seq(Sqe), NEW e \in Sqe
    PROVE  /\ Append(q, e) \in Seq(Sqe)
           /\ \A s : Asks(Append(q, e), s) <=>
                        Asks(q, s) \/ (e.op = "recv" /\ e.s = s)
           /\ OneAsks(q) /\ (e.op = "recv" => ~Asks(q, e.s))
                 => OneAsks(Append(q, e))
<1> DEFINE a == Append(q, e)
<1>1. /\ a \in Seq(Sqe) /\ Len(a) = Len(q) + 1 /\ Len(q) \in Nat
      /\ \A i \in 1..Len(q) : a[i] = q[i]
      /\ a[Len(q) + 1] = e
  OBVIOUS
<1> HIDE DEF a
<1>2. \A s : Asks(a, s) <=> Asks(q, s) \/ (e.op = "recv" /\ e.s = s)
  <2> SUFFICES ASSUME NEW s
               PROVE  Asks(a, s) <=> Asks(q, s) \/ (e.op = "recv" /\ e.s = s)
    OBVIOUS
  <2>1. \A i \in 1..Len(a) : i \in 1..Len(q) \/ i = Len(q) + 1
    BY <1>1
  <2>2. \A i \in 1..Len(q) : i \in 1..Len(a)
    BY <1>1
  <2>3. Len(q) + 1 \in 1..Len(a)
    BY <1>1
  <2>4. QED BY <1>1, <2>1, <2>2, <2>3 DEF Asks
<1>3. ASSUME OneAsks(q), e.op = "recv" => ~Asks(q, e.s) PROVE OneAsks(a)
  <2> SUFFICES ASSUME NEW i \in 1..Len(a), NEW j \in 1..Len(a),
                      a[i].op = "recv", a[j].op = "recv", a[i].s = a[j].s
               PROVE  i = j
    BY DEF OneAsks
  <2>1. CASE i \in 1..Len(q) /\ j \in 1..Len(q)
    BY <1>1, <1>3, <2>1 DEF OneAsks
  <2>2. CASE i \in 1..Len(q) /\ j = Len(q) + 1
    BY <1>1, <1>3, <2>2 DEF Asks
  <2>3. CASE i = Len(q) + 1 /\ j \in 1..Len(q)
    BY <1>1, <1>3, <2>3 DEF Asks
  <2>4. CASE i = Len(q) + 1 /\ j = Len(q) + 1
    BY <2>4
  <2>5. QED BY <1>1, <2>1, <2>2, <2>3, <2>4
<1>4. QED BY <1>1, <1>2, <1>3 DEF a

\* The kernel takes the first entry.
LEMMA AskTail ==
    ASSUME NEW q \in Seq(Sqe), q # <<>>
    PROVE  /\ Tail(q) \in Seq(Sqe) /\ Head(q) \in Sqe
           /\ \A s : Asks(q, s) <=>
                 Asks(Tail(q), s) \/ (Head(q).op = "recv" /\ Head(q).s = s)
           /\ OneAsks(q) => /\ OneAsks(Tail(q))
                            /\ Head(q).op = "recv" => ~Asks(Tail(q), Head(q).s)
<1> DEFINE a == Tail(q)
<1>1. /\ a \in Seq(Sqe) /\ Len(q) = Len(a) + 1 /\ Len(a) \in Nat
      /\ \A i \in 1..Len(a) : a[i] = q[i + 1]
      /\ Head(q) = q[1] /\ Head(q) \in Sqe
  OBVIOUS
<1> HIDE DEF a
<1>2. /\ \A i \in 1..Len(a) : i + 1 \in 1..Len(q) /\ i + 1 # 1
      /\ 1 \in 1..Len(q)
      /\ \A i \in 1..Len(q) : i = 1 \/ (i - 1 \in 1..Len(a) /\ a[i - 1] = q[i])
  BY <1>1
<1>3. \A s : Asks(q, s) <=> Asks(a, s) \/ (Head(q).op = "recv" /\ Head(q).s = s)
  <2> SUFFICES ASSUME NEW s
               PROVE  Asks(q, s) <=>
                         Asks(a, s) \/ (Head(q).op = "recv" /\ Head(q).s = s)
    OBVIOUS
  <2>1. ASSUME Asks(a, s) PROVE Asks(q, s)
    <3>1. PICK i \in 1..Len(a) : a[i].op = "recv" /\ a[i].s = s
      BY <2>1 DEF Asks
    <3>2. i + 1 \in 1..Len(q) /\ q[i + 1] = a[i]
      BY <1>1, <1>2
    <3>3. QED BY <3>1, <3>2 DEF Asks
  <2>2. Head(q).op = "recv" /\ Head(q).s = s => Asks(q, s)
    BY <1>1, <1>2 DEF Asks
  <2>3. ASSUME Asks(q, s)
        PROVE  Asks(a, s) \/ (Head(q).op = "recv" /\ Head(q).s = s)
    BY <1>1, <1>2, <2>3 DEF Asks
  <2>4. QED BY <2>1, <2>2, <2>3
<1>4. ASSUME OneAsks(q)
      PROVE  OneAsks(a) /\ (Head(q).op = "recv" => ~Asks(a, Head(q).s))
  <2>1. OneAsks(a)
    <3> SUFFICES ASSUME NEW i \in 1..Len(a), NEW j \in 1..Len(a),
                        a[i].op = "recv", a[j].op = "recv", a[i].s = a[j].s
                 PROVE  i = j
      BY DEF OneAsks
    <3>1. i + 1 \in 1..Len(q) /\ j + 1 \in 1..Len(q)
          /\ q[i + 1] = a[i] /\ q[j + 1] = a[j]
      BY <1>1, <1>2
    <3>2. i + 1 = j + 1
      BY <1>4, <3>1 DEF OneAsks
    <3>3. QED BY <1>1, <3>2
  <2>2. Head(q).op = "recv" => ~Asks(a, Head(q).s)
    BY <1>1, <1>2, <1>4 DEF OneAsks, Asks
  <2>3. QED BY <2>1, <2>2
<1>5. QED BY <1>1, <1>3, <1>4 DEF a

\* A completion more.
LEMMA TellAppend ==
    ASSUME NEW q \in Seq(Cqe), NEW e \in Cqe
    PROVE  /\ Append(q, e) \in Seq(Cqe)
           /\ \A s : Tells(Append(q, e), s) <=> Tells(q, s) \/ e.s = s
           /\ \A s : Stops(Append(q, e), s) <=>
                        Stops(q, s) \/ (e.s = s /\ ~e.more)
           /\ StopIsLast(q) /\ ~Stops(q, e.s) => StopIsLast(Append(q, e))
           /\ Proper(e) /\ (\A i \in 1..Len(q) : Proper(q[i])) =>
                 \A i \in 1..Len(Append(q, e)) : Proper(Append(q, e)[i])
<1> DEFINE a == Append(q, e)
<1>1. /\ a \in Seq(Cqe) /\ Len(a) = Len(q) + 1 /\ Len(q) \in Nat
      /\ \A i \in 1..Len(q) : a[i] = q[i]
      /\ a[Len(q) + 1] = e
  OBVIOUS
<1> HIDE DEF a
<1>2. /\ \A i \in 1..Len(a) : i \in 1..Len(q) \/ i = Len(q) + 1
      /\ \A i \in 1..Len(q) : i \in 1..Len(a)
      /\ Len(q) + 1 \in 1..Len(a)
  BY <1>1
<1>3. \A s : Tells(a, s) <=> Tells(q, s) \/ e.s = s
  BY <1>1, <1>2 DEF Tells
<1>4. \A s : Stops(a, s) <=> Stops(q, s) \/ (e.s = s /\ ~e.more)
  BY <1>1, <1>2 DEF Stops
<1>5. ASSUME StopIsLast(q), ~Stops(q, e.s) PROVE StopIsLast(a)
  <2> SUFFICES ASSUME NEW i \in 1..Len(a), NEW j \in 1..Len(a),
                      a[i].s = a[j].s, ~a[i].more
               PROVE  j <= i
    BY DEF StopIsLast
  <2>1. CASE i \in 1..Len(q) /\ j \in 1..Len(q)
    BY <1>1, <1>5, <2>1 DEF StopIsLast
  <2>2. CASE i \in 1..Len(q) /\ j = Len(q) + 1
    BY <1>1, <1>5, <2>2 DEF Stops
  <2>3. CASE i = Len(q) + 1
    BY <1>1, <2>3
  <2>4. QED BY <1>2, <2>1, <2>2, <2>3
<1>6. ASSUME Proper(e), \A i \in 1..Len(q) : Proper(q[i])
      PROVE  \A i \in 1..Len(a) : Proper(a[i])
  BY <1>1, <1>2, <1>6
<1>7. QED BY <1>1, <1>3, <1>4, <1>5, <1>6 DEF a

\* The loop takes the first completion.
LEMMA TellTail ==
    ASSUME NEW q \in Seq(Cqe), q # <<>>
    PROVE  /\ Tail(q) \in Seq(Cqe) /\ Head(q) \in Cqe
           /\ \A s : Tells(q, s) <=> Tells(Tail(q), s) \/ Head(q).s = s
           /\ \A s : Stops(q, s) <=>
                 Stops(Tail(q), s) \/ (Head(q).s = s /\ ~Head(q).more)
           /\ StopIsLast(q) => /\ StopIsLast(Tail(q))
                               /\ ~Head(q).more => ~Tells(Tail(q), Head(q).s)
           /\ (\A i \in 1..Len(q) : Proper(q[i])) =>
                 Proper(Head(q)) /\ \A i \in 1..Len(Tail(q)) : Proper(Tail(q)[i])
<1> DEFINE a == Tail(q)
<1>1. /\ a \in Seq(Cqe) /\ Len(q) = Len(a) + 1 /\ Len(a) \in Nat
      /\ \A i \in 1..Len(a) : a[i] = q[i + 1]
      /\ Head(q) = q[1] /\ Head(q) \in Cqe
  OBVIOUS
<1> HIDE DEF a
<1>2. /\ \A i \in 1..Len(a) : i + 1 \in 1..Len(q) /\ i + 1 > 1
      /\ 1 \in 1..Len(q)
      /\ \A i \in 1..Len(q) : i = 1 \/ (i - 1 \in 1..Len(a) /\ a[i - 1] = q[i])
  BY <1>1
<1>3. \A s : Tells(q, s) <=> Tells(a, s) \/ Head(q).s = s
  <2> SUFFICES ASSUME NEW s PROVE Tells(q, s) <=> Tells(a, s) \/ Head(q).s = s
    OBVIOUS
  <2>1. ASSUME Tells(a, s) PROVE Tells(q, s)
    <3>1. PICK i \in 1..Len(a) : a[i].s = s
      BY <2>1 DEF Tells
    <3>2. i + 1 \in 1..Len(q) /\ q[i + 1] = a[i]
      BY <1>1, <1>2
    <3>3. QED BY <3>1, <3>2 DEF Tells
  <2>2. ASSUME Head(q).s = s PROVE Tells(q, s)
    BY <1>1, <1>2, <2>2 DEF Tells
  <2>3. ASSUME Tells(q, s) PROVE Tells(a, s) \/ Head(q).s = s
    <3>1. PICK i \in 1..Len(q) : q[i].s = s
      BY <2>3 DEF Tells
    <3>2. i = 1 \/ (i - 1 \in 1..Len(a) /\ a[i - 1] = q[i])
      BY <1>2
    <3>3. QED BY <1>1, <3>1, <3>2 DEF Tells
  <2>4. QED BY <2>1, <2>2, <2>3
<1>4. \A s : Stops(q, s) <=> Stops(a, s) \/ (Head(q).s = s /\ ~Head(q).more)
  BY <1>1, <1>2 DEF Stops
<1>5. ASSUME StopIsLast(q)
      PROVE  StopIsLast(a) /\ (~Head(q).more => ~Tells(a, Head(q).s))
  <2>1. StopIsLast(a)
    <3>1. \A i, j \in 1..Len(a) : j + 1 <= i + 1 => j <= i
      BY <1>1
    <3>2. QED BY <1>1, <1>2, <1>5, <3>1 DEF StopIsLast
  <2>2. ~Head(q).more => ~Tells(a, Head(q).s)
    <3>1. \A i \in 1..Len(a) : ~(i + 1 <= 1)
      BY <1>1
    <3>2. QED BY <1>1, <1>2, <1>5, <3>1 DEF StopIsLast, Tells
  <2>3. QED BY <2>1, <2>2
<1>6. ASSUME \A i \in 1..Len(q) : Proper(q[i])
      PROVE  Proper(Head(q)) /\ \A i \in 1..Len(a) : Proper(a[i])
  BY <1>1, <1>2, <1>6
<1>7. QED BY <1>1, <1>3, <1>4, <1>5, <1>6 DEF a

\* A completion that brings no chunk of s.
LEMMA BringsAppend ==
    ASSUME NEW q \in Seq(Cqe), NEW e \in Cqe, NEW s, NEW lo, NEW hi,
           Brings(q, s, lo, hi), ~(e.kind = "data" /\ e.s = s)
    PROVE  Brings(Append(q, e), s, lo, hi)
<1> DEFINE a == Append(q, e)
<1>1. /\ Len(a) = Len(q) + 1 /\ Len(q) \in Nat
      /\ \A i \in 1..Len(q) : a[i] = q[i]
      /\ a[Len(q) + 1] = e
  OBVIOUS
<1> HIDE DEF a
<1>2. /\ \A i \in 1..Len(q) : i \in 1..Len(a) /\ (Chunk(a, i, s) <=> Chunk(q, i, s))
      /\ \A i \in 1..Len(a) : Chunk(a, i, s) => i \in 1..Len(q)
  BY <1>1 DEF Chunk
<1>3. \A i \in 1..Len(a) : Chunk(a, i, s) => a[i].n > lo /\ a[i].n <= hi
  BY <1>1, <1>2 DEF Brings
<1>4. \A n \in lo + 1..hi : \E i \in 1..Len(a) : Chunk(a, i, s) /\ a[i].n = n
  BY <1>1, <1>2 DEF Brings
<1>5. \A i, j \in 1..Len(a) : Chunk(a, i, s) /\ Chunk(a, j, s) /\ i < j =>
         a[i].n < a[j].n
  BY <1>1, <1>2 DEF Brings
<1>6. QED BY <1>3, <1>4, <1>5 DEF Brings, a

\* The next chunk of s is brought.
LEMMA BringsNext ==
    ASSUME NEW q \in Seq(Cqe), NEW e \in Cqe, NEW s, NEW lo \in Nat, NEW hi \in Nat,
           Brings(q, s, lo, hi), lo <= hi, e.kind = "data", e.s = s, e.n = hi + 1
    PROVE  Brings(Append(q, e), s, lo, hi + 1)
<1> DEFINE a == Append(q, e)
<1>1. /\ Len(a) = Len(q) + 1 /\ Len(q) \in Nat
      /\ \A i \in 1..Len(q) : a[i] = q[i]
      /\ a[Len(q) + 1] = e
  OBVIOUS
<1> HIDE DEF a
<1>2. /\ \A i \in 1..Len(q) : /\ i \in 1..Len(a) /\ i < Len(q) + 1
                              /\ Chunk(a, i, s) <=> Chunk(q, i, s)
      /\ \A i \in 1..Len(a) : i \in 1..Len(q) \/ i = Len(q) + 1
      /\ Len(q) + 1 \in 1..Len(a) /\ Chunk(a, Len(q) + 1, s)
  BY <1>1 DEF Chunk
<1>3. \A i \in 1..Len(q) : Chunk(q, i, s) =>
         /\ q[i].n > lo /\ q[i].n <= hi
         /\ q[i].n \in Nat /\ q[i].n <= hi + 1 /\ q[i].n < hi + 1
  <2> SUFFICES ASSUME NEW i \in 1..Len(q), Chunk(q, i, s)
               PROVE  /\ q[i].n > lo /\ q[i].n <= hi
                      /\ q[i].n \in Nat /\ q[i].n <= hi + 1 /\ q[i].n < hi + 1
    OBVIOUS
  <2>1. q[i] \in Cqe
    OBVIOUS
  <2>2. q[i].n \in Nat
    BY <2>1, RecvAssumption DEF Cqe
  <2>3. q[i].n > lo /\ q[i].n <= hi
    BY DEF Brings
  <2>4. QED BY <2>2, <2>3
<1>4. \A i \in 1..Len(a) : Chunk(a, i, s) => a[i].n > lo /\ a[i].n <= hi + 1
  BY <1>1, <1>2, <1>3
<1>5. \A n \in lo + 1..hi + 1 : \E i \in 1..Len(a) : Chunk(a, i, s) /\ a[i].n = n
  <2> SUFFICES ASSUME NEW n \in lo + 1..hi + 1
               PROVE  \E i \in 1..Len(a) : Chunk(a, i, s) /\ a[i].n = n
    OBVIOUS
  <2>1. CASE n = hi + 1
    BY <1>1, <1>2, <2>1
  <2>2. CASE n \in lo + 1..hi
    <3>1. PICK i \in 1..Len(q) : Chunk(q, i, s) /\ q[i].n = n
      BY <2>2 DEF Brings
    <3>2. QED BY <1>1, <1>2, <3>1
  <2>3. QED BY <2>1, <2>2
<1>6. \A i, j \in 1..Len(a) : Chunk(a, i, s) /\ Chunk(a, j, s) /\ i < j =>
         a[i].n < a[j].n
  <2> SUFFICES ASSUME NEW i \in 1..Len(a), NEW j \in 1..Len(a),
                      Chunk(a, i, s), Chunk(a, j, s), i < j
               PROVE  a[i].n < a[j].n
    OBVIOUS
  <2>1. i \in 1..Len(q)
    BY <1>1
  <2>2. CASE j \in 1..Len(q)
    BY <1>1, <1>2, <2>1, <2>2 DEF Brings
  <2>3. CASE j = Len(q) + 1
    BY <1>1, <1>2, <1>3, <2>1, <2>3
  <2>4. QED BY <1>2, <2>2, <2>3
<1>7. QED BY <1>4, <1>5, <1>6 DEF Brings, a

\* The first completion is processed and is not a chunk of s.
LEMMA BringsTail ==
    ASSUME NEW q \in Seq(Cqe), q # <<>>, NEW s, NEW lo, NEW hi,
           Brings(q, s, lo, hi), ~(Head(q).kind = "data" /\ Head(q).s = s)
    PROVE  Brings(Tail(q), s, lo, hi)
<1> DEFINE a == Tail(q)
<1>1. /\ Len(q) = Len(a) + 1 /\ Len(a) \in Nat
      /\ \A i \in 1..Len(a) : a[i] = q[i + 1]
      /\ Head(q) = q[1]
  OBVIOUS
<1> HIDE DEF a
<1>2. /\ \A i \in 1..Len(a) : /\ i + 1 \in 1..Len(q)
                              /\ Chunk(a, i, s) <=> Chunk(q, i + 1, s)
      /\ \A i \in 1..Len(q) : Chunk(q, i, s) =>
            i - 1 \in 1..Len(a) /\ (i - 1) + 1 = i
      /\ \A i, j \in 1..Len(a) : i < j => i + 1 < j + 1
  BY <1>1 DEF Chunk
<1>3. \A i \in 1..Len(a) : Chunk(a, i, s) => a[i].n > lo /\ a[i].n <= hi
  BY <1>1, <1>2 DEF Brings
<1>4. \A n \in lo + 1..hi : \E i \in 1..Len(a) : Chunk(a, i, s) /\ a[i].n = n
  <2> SUFFICES ASSUME NEW n \in lo + 1..hi
               PROVE  \E i \in 1..Len(a) : Chunk(a, i, s) /\ a[i].n = n
    OBVIOUS
  <2>1. PICK i \in 1..Len(q) : Chunk(q, i, s) /\ q[i].n = n
    BY DEF Brings
  <2>2. i - 1 \in 1..Len(a) /\ (i - 1) + 1 = i
    BY <1>2, <2>1
  <2>3. Chunk(a, i - 1, s) /\ a[i - 1].n = n
    BY <1>1, <1>2, <2>1, <2>2
  <2>4. QED BY <2>2, <2>3
<1>5. \A i, j \in 1..Len(a) : Chunk(a, i, s) /\ Chunk(a, j, s) /\ i < j =>
         a[i].n < a[j].n
  <2> SUFFICES ASSUME NEW i \in 1..Len(a), NEW j \in 1..Len(a),
                      Chunk(a, i, s), Chunk(a, j, s), i < j
               PROVE  a[i].n < a[j].n
    OBVIOUS
  <2>1. /\ i + 1 \in 1..Len(q) /\ j + 1 \in 1..Len(q) /\ i + 1 < j + 1
        /\ Chunk(q, i + 1, s) /\ Chunk(q, j + 1, s)
    BY <1>2
  <2>2. q[i + 1].n < q[j + 1].n
    BY <2>1 DEF Brings
  <2>3. QED BY <1>1, <2>2
<1>6. QED BY <1>3, <1>4, <1>5 DEF Brings, a

\* It is a chunk of s: the next one.
LEMMA BringsFirst ==
    ASSUME NEW q \in Seq(Cqe), q # <<>>, NEW s, NEW lo \in Nat, NEW hi \in Nat,
           Brings(q, s, lo, hi), Head(q).kind = "data", Head(q).s = s
    PROVE  /\ Head(q).n = lo + 1 /\ lo + 1 <= hi
           /\ Brings(Tail(q), s, lo + 1, hi)
<1> DEFINE a == Tail(q)
<1>1. /\ Len(q) = Len(a) + 1 /\ Len(a) \in Nat
      /\ \A i \in 1..Len(a) : a[i] = q[i + 1]
      /\ Head(q) = q[1]
  OBVIOUS
<1> HIDE DEF a
<1>2. /\ \A i \in 1..Len(a) : /\ i + 1 \in 1..Len(q) /\ 1 < i + 1
                              /\ Chunk(a, i, s) <=> Chunk(q, i + 1, s)
      /\ \A i \in 1..Len(q) : i = 1 \/ (i - 1 \in 1..Len(a) /\ (i - 1) + 1 = i)
      /\ \A i, j \in 1..Len(a) : i < j => i + 1 < j + 1
      /\ 1 \in 1..Len(q) /\ Chunk(q, 1, s)
  BY <1>1 DEF Chunk
<1>3. \A i \in 1..Len(q) : q[i].n \in Nat
  <2> SUFFICES ASSUME NEW i \in 1..Len(q) PROVE q[i].n \in Nat
    OBVIOUS
  <2>1. q[i] \in Cqe
    OBVIOUS
  <2>2. QED BY <2>1, RecvAssumption DEF Cqe
<1>4. q[1].n > lo /\ q[1].n <= hi
  BY <1>2 DEF Brings
<1>5. \A i \in 1..Len(a) : Chunk(a, i, s) => a[i].n > q[1].n /\ a[i].n <= hi
  BY <1>1, <1>2 DEF Brings
<1>6. q[1].n = lo + 1 /\ lo + 1 <= hi
  <2>1. lo + 1 \in lo + 1..hi
    BY <1>2, <1>3, <1>4
  <2>2. PICK i \in 1..Len(q) : Chunk(q, i, s) /\ q[i].n = lo + 1
    BY <2>1 DEF Brings
  <2>3. CASE i = 1
    BY <2>1, <2>2, <2>3
  <2>4. CASE i # 1
    <3>1. i - 1 \in 1..Len(a) /\ Chunk(a, i - 1, s) /\ a[i - 1].n = lo + 1
      BY <1>1, <1>2, <2>2, <2>4
    <3>2. lo + 1 > q[1].n
      BY <1>5, <3>1
    <3>3. QED BY <1>2, <1>3, <1>4, <3>2
  <2>5. QED BY <2>3, <2>4
<1>7. \A i \in 1..Len(a) : Chunk(a, i, s) => a[i].n > lo + 1 /\ a[i].n <= hi
  BY <1>5, <1>6
<1>8. \A n \in (lo + 1) + 1..hi : \E i \in 1..Len(a) : Chunk(a, i, s) /\ a[i].n = n
  <2> SUFFICES ASSUME NEW n \in (lo + 1) + 1..hi
               PROVE  \E i \in 1..Len(a) : Chunk(a, i, s) /\ a[i].n = n
    OBVIOUS
  <2>1. n \in lo + 1..hi /\ n # lo + 1
    OBVIOUS
  <2>2. PICK i \in 1..Len(q) : Chunk(q, i, s) /\ q[i].n = n
    BY <2>1 DEF Brings
  <2>3. i - 1 \in 1..Len(a) /\ (i - 1) + 1 = i
    BY <1>2, <1>6, <2>1, <2>2
  <2>4. Chunk(a, i - 1, s) /\ a[i - 1].n = n
    BY <1>1, <1>2, <2>2, <2>3
  <2>5. QED BY <2>3, <2>4
<1>9. \A i, j \in 1..Len(a) : Chunk(a, i, s) /\ Chunk(a, j, s) /\ i < j =>
         a[i].n < a[j].n
  <2> SUFFICES ASSUME NEW i \in 1..Len(a), NEW j \in 1..Len(a),
                      Chunk(a, i, s), Chunk(a, j, s), i < j
               PROVE  a[i].n < a[j].n
    OBVIOUS
  <2>1. /\ i + 1 \in 1..Len(q) /\ j + 1 \in 1..Len(q) /\ i + 1 < j + 1
        /\ Chunk(q, i + 1, s) /\ Chunk(q, j + 1, s)
    BY <1>2
  <2>2. q[i + 1].n < q[j + 1].n
    BY <2>1 DEF Brings
  <2>3. QED BY <1>1, <2>2
<1>10. QED BY <1>1, <1>6, <1>7, <1>8, <1>9 DEF Brings, a

\* No completion of s is left.
LEMMA BringsNone ==
    ASSUME NEW q \in Seq(Cqe), NEW s, NEW lo \in Nat, NEW hi \in Nat, lo <= hi,
           Brings(q, s, lo, hi), ~Tells(q, s)
    PROVE  lo = hi
<1>1. \A i \in 1..Len(q) : ~Chunk(q, i, s)
  BY DEF Chunk, Tells
<1>2. \A n \in lo + 1..hi : FALSE
  BY <1>1 DEF Brings
<1>3. lo < hi => lo + 1 \in lo + 1..hi
  OBVIOUS
<1>4. QED BY <1>2, <1>3

-----------------------------------------------------------------------------
(* The readers are served.                                                 *)

\* The handles obey the laws of counting.
LEMMA Handles == TimesLaws(Streams)
BY TimesFacts

\* A stream that a step does not concern.
LEMMA Elsewhere ==
    ASSUME NEW t \in Streams, Under(t), Served(t),
           rf'[t] = rf[t], reader'[t] = reader[t],
           Times(handles', t) = Times(handles, t),
           Asks(sq', t) <=> Asks(sq, t),
           Tells(cq', t) <=> Tells(cq, t), Stops(cq', t) <=> Stops(cq, t),
           t \in armed' <=> t \in armed
    PROVE  Under(t)' /\ Served(t)'
BY DEF Under, Served

\* Nothing is under way when the program starts.
LEMMA InitReaders == Init => Readers
<1> SUFFICES ASSUME Init PROVE Readers
  OBVIOUS
<1>1. \A s \in Streams :
         /\ rf[s] \in Frame /\ rf[s].buffers = <<>> /\ rf[s].ec = NoError
         /\ ~rf[s].h /\ ~rf[s].initiated
  <2> SUFFICES ASSUME NEW s \in Streams
               PROVE  /\ rf[s] \in Frame /\ rf[s].buffers = <<>> /\ rf[s].ec = NoError
                      /\ ~rf[s].h /\ ~rf[s].initiated
    OBVIOUS
  <2>1. PICK g \in Groups :
           rf[s] = [buffers |-> <<>>, ec |-> NoError, h |-> FALSE,
                    initiated |-> FALSE, group |-> g, ring |-> g]
    BY DEF Init
  <2>2. QED BY <2>1 DEF Frame
<1>2. TypeOK
  <2>1. rf \in [Streams -> Frame]
    BY <1>1 DEF Init
  <2>2. FullRing \in Seq(Ids)
    BY RecvAssumption DEF FullRing, Ids
  <2>3. arrived \in [Streams -> 0..MaxData]
    BY RecvAssumption DEF Init
  <2>4. QED BY <2>1, <2>2, <2>3 DEF Init, TypeOK
<1>3. Queues
  BY DEF Init, Queues, OneAsks, StopIsLast
<1>4. ASSUME NEW s \in Streams PROVE Under(s) /\ Served(s)
  <2>1. ~Asks(sq, s) /\ ~Tells(cq, s) /\ ~Stops(cq, s) /\ s \notin armed
    BY DEF Init, Asks, Tells, Stops
  <2>2. Times(handles, s) = 0 /\ reader[s] = "idle"
    BY Handles DEF Init, TimesLaws
  <2>3. Tidy(rf[s].buffers) /\ ~Zero(rf[s].buffers)
    BY <1>1 DEF Tidy, Zero
  <2>4. QED BY <1>1, <2>1, <2>2, <2>3 DEF Under, Served
<1>5. QED BY <1>2, <1>3, <1>4 DEF Readers

\* A step that moves only the thread or buffers that nobody has.
LEMMA QuietReaders ==
    ASSUME Readers, TypeOK', UNCHANGED <<cancelled, reader, handles, kernVars>>,
           \A t \in Streams :
              /\ rf'[t].buffers = rf[t].buffers /\ rf'[t].ec = rf[t].ec
              /\ rf'[t].h = rf[t].h /\ rf'[t].initiated = rf[t].initiated
    PROVE  Readers'
<1>1. UNCHANGED <<reader, handles, sq, armed, cq>>
  BY DEF kernVars
<1>2. Queues'
  BY <1>1 DEF Readers, Queues
<1>3. \A t \in Streams : Under(t)' /\ Served(t)'
  BY <1>1 DEF Readers, Under, Served
<1>4. QED BY <1>2, <1>3 DEF Readers

\* Such steps.
LEMMA QuietStepReaders ==
    ASSUME Readers,
           \/ \E g \in Groups : Recycle(g)
           \/ \E s \in Streams, g \in Groups : SetBufferGroup(s, g)
           \/ SubmitFull \/ SubmitAndWait \/ SubmitDone \/ ReapDone
    PROVE  Readers'
<1>1. ASSUME NEW g \in Groups, Recycle(g) PROVE Readers'
  <2>1. stack[g] \in Seq(Ids) /\ stack[g] # <<>>
    BY <1>1 DEF Readers, TypeOK, Recycle
  <2>2. Front(stack[g]) \in Seq(Ids) /\ Last(stack[g]) \in Ids
    BY <2>1 DEF Front, Last
  <2>3. /\ stack' \in [Groups -> Seq(Ids)] /\ ring' \in [Groups -> Seq(Ids)]
        /\ bufs' \in [Groups -> SUBSET Ids]
    BY <1>1, <2>2 DEF Readers, TypeOK, Recycle
  <2>4. TypeOK'
    BY <1>1, <2>3 DEF Readers, TypeOK, Recycle, frameVars, kernVars
  <2>5. QED BY <1>1, <2>4, QuietReaders DEF Recycle, frameVars
<1>2. ASSUME NEW s \in Streams, NEW g \in Groups, SetBufferGroup(s, g)
      PROVE  Readers'
  <2>1. /\ rf' \in [Streams -> Frame]
        /\ \A t \in Streams :
              /\ rf'[t].buffers = rf[t].buffers /\ rf'[t].ec = rf[t].ec
              /\ rf'[t].h = rf[t].h /\ rf'[t].initiated = rf[t].initiated
    <3> DEFINE f == [rf[s] EXCEPT !.group = g]
    <3>1. rf \in [Streams -> Frame] /\ rf[s] \in Frame
      BY DEF Readers, TypeOK
    <3>2. rf' = [rf EXCEPT ![s] = f]
      BY <1>2, <3>1 DEF SetBufferGroup
    <3>3. /\ f \in Frame /\ f.buffers = rf[s].buffers /\ f.ec = rf[s].ec
          /\ f.h = rf[s].h /\ f.initiated = rf[s].initiated
      BY <3>1 DEF Frame
    <3> HIDE DEF f
    <3>4. QED BY <3>1, <3>2, <3>3
  <2>2. TypeOK'
    BY <1>2, <2>1 DEF Readers, TypeOK, SetBufferGroup, ringVars, kernVars
  <2>3. QED BY <1>2, <2>1, <2>2, QuietReaders DEF SetBufferGroup
<1>3. ASSUME SubmitFull \/ SubmitAndWait \/ SubmitDone \/ ReapDone
      PROVE  Readers'
  <2>1. /\ UNCHANGED <<frameVars, ringVars, handles, kernVars, got>>
        /\ pc' \in {"user", "flush", "submit", "reap"}
    BY <1>3 DEF SubmitFull, SubmitAndWait, SubmitDone, ReapDone
  <2>2. TypeOK'
    BY <2>1 DEF Readers, TypeOK, frameVars, ringVars, kernVars
  <2>3. QED BY <2>1, <2>2, QuietReaders DEF frameVars
<1>4. QED BY <1>1, <1>2, <1>3

\* A request that is not a receive is queued.
LEMMA RequestReaders ==
    ASSUME Readers, NEW s \in Streams, NEW op \in {"timeout", "cancel"},
           \/ sq' = sq \/ sq' = Append(sq, [op |-> op, s |-> s]),
           UNCHANGED <<rf, ringVars, handles, armed, cq, arrived, got>>,
           cancelled' \subseteq Streams,
           pc' \in {"user", "flush", "submit", "reap"},
           reader' \in [Streams -> {"idle", "waiting", "eof", "gone"}],
           \A t \in Streams : reader'[t] = "waiting" <=> reader[t] = "waiting"
    PROVE  Readers'
<1> DEFINE e == [op |-> op, s |-> s]
<1>1. e \in Sqe /\ e.op # "recv" /\ sq \in Seq(Sqe)
  BY DEF Sqe, Readers, TypeOK
<1> HIDE DEF e
<1>2. sq' = sq \/ sq' = Append(sq, e)
  BY DEF e
<1>3. /\ sq' \in Seq(Sqe) /\ \A t : Asks(sq', t) <=> Asks(sq, t)
      /\ OneAsks(sq) => OneAsks(sq')
  <2>1. /\ Append(sq, e) \in Seq(Sqe)
        /\ \A t : Asks(Append(sq, e), t) <=> Asks(sq, t)
        /\ OneAsks(sq) => OneAsks(Append(sq, e))
    BY <1>1, AskAppend
  <2>2. QED BY <1>1, <1>2, <2>1
<1>4. TypeOK'
  BY <1>3 DEF Readers, TypeOK, ringVars
<1>5. Queues'
  BY <1>3 DEF Readers, Queues
<1>6. \A t \in Streams : Under(t)' /\ Served(t)'
  BY <1>3 DEF Readers, Under, Served
<1>7. QED BY <1>4, <1>5, <1>6 DEF Readers

\* async_cancel, the destruction of a stream, the idle timer.
LEMMA CancelReaders ==
    ASSUME Readers,
           \E s \in Streams : AsyncCancel(s) \/ DropStream(s) \/ TimerStrikes(s)
    PROVE  Readers'
<1>1. PICK s \in Streams : AsyncCancel(s) \/ DropStream(s) \/ TimerStrikes(s)
  OBVIOUS
<1>2. TypeOK
  BY DEF Readers
<1>3. CASE AsyncCancel(s)
  <2>1. /\ cancelled' \subseteq Streams /\ pc' = pc /\ reader' = reader
        /\ sq' = Append(sq, [op |-> "cancel", s |-> s])
        /\ UNCHANGED <<rf, ringVars, handles, armed, cq, arrived, got>>
    BY <1>2, <1>3 DEF TypeOK, AsyncCancel
  <2>2. QED BY <1>2, <2>1, RequestReaders DEF TypeOK
<1>4. CASE DropStream(s)
  <2>1. /\ cancelled' \subseteq Streams /\ pc' = "flush"
        /\ sq' = sq \/ sq' = Append(sq, [op |-> "cancel", s |-> s])
        /\ UNCHANGED <<rf, ringVars, handles, armed, cq, arrived, got>>
    BY <1>2, <1>4 DEF TypeOK, DropStream
  <2>2. /\ reader' \in [Streams -> {"idle", "waiting", "eof", "gone"}]
        /\ \A t \in Streams : reader'[t] = "waiting" <=> reader[t] = "waiting"
    BY <1>2, <1>4 DEF TypeOK, DropStream
  <2>3. QED BY <2>1, <2>2, RequestReaders
<1>5. CASE TimerStrikes(s)
  <2>1. /\ cancelled' \subseteq Streams /\ pc' = pc /\ reader' = reader
        /\ sq' = Append(sq, [op |-> "timeout", s |-> s])
        /\ UNCHANGED <<rf, ringVars, handles, armed, cq, arrived, got>>
    BY <1>2, <1>5 DEF TypeOK, TimerStrikes, frameVars
  <2>2. QED BY <1>2, <2>1, RequestReaders DEF TypeOK
<1>6. QED BY <1>1, <1>3, <1>4, <1>5

\* What async_recv does to the frame when it suspends.
LEMMA SuspendFrame ==
    ASSUME TypeOK, NEW s \in Streams, RecvSuspends(s)
    PROVE  /\ rf' \in [Streams -> Frame]
           /\ \A t \in Streams \ {s} : rf'[t] = rf[t]
           /\ rf'[s].h /\ rf'[s].initiated /\ rf'[s].buffers = rf[s].buffers
           /\ rf'[s].ec = rf[s].ec /\ rf'[s].group = rf[s].group
           /\ rf'[s].ring = IF rf[s].initiated THEN rf[s].ring ELSE rf[s].group
<1> DEFINE f == IF rf[s].initiated THEN [rf[s] EXCEPT !.h = TRUE]
                ELSE [rf[s] EXCEPT !.h = TRUE, !.initiated = TRUE,
                                   !.ring = rf[s].group]
<1>1. rf' = [rf EXCEPT ![s] = f] /\ rf \in [Streams -> Frame] /\ rf[s] \in Frame
  BY DEF RecvSuspends, ScheduleRecv, TypeOK
<1>2. /\ f \in Frame /\ f.h /\ f.initiated /\ f.buffers = rf[s].buffers
      /\ f.ec = rf[s].ec /\ f.group = rf[s].group
      /\ f.ring = IF rf[s].initiated THEN rf[s].ring ELSE rf[s].group
  BY <1>1 DEF Frame
<1> HIDE DEF f
<1>3. rf' \in [Streams -> Frame] /\ rf'[s] = f /\ \A t \in Streams \ {s} : rf'[t] = rf[t]
  BY <1>1, <1>2
<1>4. QED BY <1>2, <1>3

\* async_recv suspends: the receive is under way, or is queued now.
LEMMA SuspendReaders ==
    ASSUME Readers, NEW s \in Streams, RecvSuspends(s)
    PROVE  Readers'
<1> DEFINE e == [op |-> "recv", s |-> s]
<1>1. /\ reader[s] = "idle" /\ rf[s].buffers = <<>> /\ rf[s].ec = NoError
      /\ rf[s] \in Frame /\ sq \in Seq(Sqe) /\ Under(s) /\ Served(s)
      /\ UNCHANGED <<cancelled, ringVars, handles, pc, armed, cq, arrived, got>>
      /\ reader' = [reader EXCEPT ![s] = "waiting"]
  BY DEF RecvSuspends, Readers, TypeOK
<1>2. e \in Sqe /\ e.op = "recv" /\ e.s = s
  BY DEF Sqe
<1> HIDE DEF e
<1>3. IF rf[s].initiated THEN sq' = sq ELSE sq' = Append(sq, e)
  BY DEF RecvSuspends, ScheduleRecv, e
<1>4. /\ rf' \in [Streams -> Frame]
      /\ rf'[s].h /\ rf'[s].initiated /\ rf'[s].buffers = <<>>
      /\ rf'[s].ec = NoError
      /\ \A t \in Streams \ {s} : rf'[t] = rf[t]
  BY <1>1, SuspendFrame DEF Readers
<1>5. ~rf[s].initiated => ~Asks(sq, s)
  BY <1>1 DEF Under
<1>6. /\ sq' \in Seq(Sqe)
      /\ \A t \in Streams \ {s} : Asks(sq', t) <=> Asks(sq, t)
      /\ Asks(sq', s) <=> Asks(sq, s) \/ ~rf[s].initiated
  <2>1. CASE rf[s].initiated
    BY <1>1, <1>3, <2>1
  <2>2. CASE ~rf[s].initiated
    <3>1. sq' = Append(sq, e)
      BY <1>3, <2>2
    <3>2. sq' \in Seq(Sqe) /\ \A t : Asks(sq', t) <=> Asks(sq, t) \/ s = t
      BY <1>1, <1>2, <3>1, AskAppend
    <3>3. QED BY <2>2, <3>2
  <2>3. QED BY <2>1, <2>2
<1>7. TypeOK'
  BY <1>1, <1>4, <1>6 DEF Readers, TypeOK, ringVars
<1>8. Queues'
  <2>1. OneAsks(sq')
    <3>1. CASE rf[s].initiated
      BY <1>3, <3>1 DEF Readers, Queues
    <3>2. CASE ~rf[s].initiated
      <4>1. ~Asks(sq, e.s) /\ OneAsks(sq) /\ sq' = Append(sq, e)
        BY <1>2, <1>3, <1>5, <3>2 DEF Readers, Queues
      <4>2. OneAsks(Append(sq, e))
        BY <1>1, <1>2, <4>1, AskAppend
      <4>3. QED BY <4>1, <4>2
    <3>3. QED BY <3>1, <3>2
  <2>2. QED BY <1>1, <2>1 DEF Readers, Queues
<1>9. ASSUME NEW t \in Streams PROVE Under(t)' /\ Served(t)'
  <2>1. CASE t # s
    <3>1. rf'[t] = rf[t] /\ reader'[t] = reader[t] /\ (Asks(sq', t) <=> Asks(sq, t))
      BY <1>1, <1>4, <1>6, <2>1 DEF Readers, TypeOK
    <3>2. QED BY <1>1, <3>1, Elsewhere DEF Readers
  <2>2. CASE t = s
    <3>1. Tidy(rf'[s].buffers) /\ ~Zero(rf'[s].buffers)
      BY <1>4 DEF Tidy, Zero
    <3>2. Under(s)'
      BY <1>1, <1>4, <1>5, <1>6, <3>1 DEF Under
    <3>3. Served(s)'
      <4>1. reader'[s] = "waiting" /\ Times(handles', s) = 0
        BY <1>1 DEF Served, Readers, TypeOK
      <4>2. QED BY <1>4, <4>1 DEF Served
    <3>4. QED BY <2>2, <3>2, <3>3
  <2>3. QED BY <2>1, <2>2
<1>10. QED BY <1>7, <1>8, <1>9 DEF Readers

\* What await_resume gives back: at most what is on the stack.
LEMMA ReplenishRange ==
    ASSUME TypeOK, NEW s \in Streams, Tidy(rf[s].buffers)
    PROVE  /\ Replenish(s) \in Nat
           /\ Replenish(s) <= Len(stack[rf[s].group])
           /\ Replenish(s) <= Len(Data(rf[s].buffers))
<1>1. /\ rf[s].buffers \in Seq(0..MaxData) /\ rf[s].group \in Groups
      /\ stack[rf[s].group] \in Seq(Ids)
  BY DEF TypeOK, Frame
<1>2. Len(Data(rf[s].buffers)) \in Nat /\ Len(stack[rf[s].group]) \in Nat
  BY <1>1, DataOf
<1>3. QED BY <1>2 DEF Replenish

\* await_resume keeps the types.
LEMMA ReturnsType ==
    ASSUME TypeOK, NEW s \in Streams, Tidy(rf[s].buffers), NEW h \in BOOLEAN,
           RecvReturns(s, h)
    PROVE  /\ rf' \in [Streams -> Frame]
           /\ reader' \in [Streams -> {"idle", "waiting", "eof", "gone"}]
           /\ ring' \in [Groups -> Seq(Ids)] /\ stack' \in [Groups -> Seq(Ids)]
           /\ bufs' \in [Groups -> SUBSET Ids]
           /\ got' \in [Streams -> Seq(0..MaxData)]
           /\ \A t \in Streams \ {s} : /\ rf'[t] = rf[t] /\ reader'[t] = reader[t]
                                       /\ got'[t] = got[t]
           /\ rf'[s].buffers = <<>> /\ rf'[s].initiated = rf[s].initiated
           /\ rf'[s].h = h /\ reader'[s] # "waiting"
           /\ rf'[s].ec = IF rf[s].buffers = <<>> THEN NoError ELSE rf[s].ec
           /\ rf'[s].ring = rf[s].ring /\ rf'[s].group = rf[s].group
<1> DEFINE g == rf[s].group
           k == Replenish(s)
           left == Len(stack[g]) - k
           back == Reverse(SubSeq(stack[g], left + 1, Len(stack[g])))
           low == SubSeq(stack[g], 1, left)
<1>1. /\ rf \in [Streams -> Frame] /\ rf[s] \in Frame
      /\ rf[s].buffers \in Seq(0..MaxData) /\ rf[s].group \in Groups
      /\ stack[g] \in Seq(Ids) /\ got[s] \in Seq(0..MaxData)
  BY DEF TypeOK, Frame
<1>2. k \in Nat /\ k <= Len(stack[g])
  BY ReplenishRange
<1>3. low \in Seq(Ids) /\ back \in Seq(Ids)
  <2> DEFINE q == stack[g]
  <2>1. q \in Seq(Ids) /\ k \in Nat /\ k <= Len(q)
    BY <1>1, <1>2
  <2>2. low = SubSeq(q, 1, Len(q) - k)
        /\ back = Reverse(SubSeq(q, (Len(q) - k) + 1, Len(q)))
    OBVIOUS
  <2> HIDE DEF q, k, low, back
  <2>3. Turned(Ids, q, k, low, back)
    BY <2>1, <2>2, TurnOver
  <2>4. QED BY <2>3 DEF Turned
<1>4. CASE rf[s].buffers = <<>>
  <2>1. /\ rf' = [rf EXCEPT ![s].ec = NoError, ![s].h = h]
        /\ reader' = [reader EXCEPT ![s] = "idle"]
        /\ UNCHANGED <<ring, stack, bufs, got>>
    BY <1>4 DEF RecvReturns, ringVars
  <2>2. /\ rf' \in [Streams -> Frame]
        /\ \A t \in Streams \ {s} : rf'[t] = rf[t]
        /\ rf'[s].buffers = <<>> /\ rf'[s].initiated = rf[s].initiated
        /\ rf'[s].h = h /\ rf'[s].ec = NoError
        /\ rf'[s].ring = rf[s].ring /\ rf'[s].group = rf[s].group
    BY <1>1, <1>4, <2>1 DEF Frame
  <2>3. QED BY <1>4, <2>1, <2>2 DEF TypeOK
<1>5. CASE rf[s].buffers # <<>>
  <2>1. /\ stack' = [stack EXCEPT ![g] = low]
        /\ bufs' = [bufs EXCEPT ![g] = @ \cup ToSet(back)]
        /\ ring' = [ring EXCEPT ![g] = @ \o back]
        /\ rf' = [rf EXCEPT ![s].buffers = <<>>, ![s].h = h]
        /\ got' = [got EXCEPT ![s] = @ \o rf[s].buffers]
        /\ \E r \in {"eof", "idle"} : reader' = [reader EXCEPT ![s] = r]
    BY <1>5 DEF RecvReturns
  <2> HIDE DEF low, back, g
  <2>2. /\ rf' \in [Streams -> Frame]
        /\ \A t \in Streams \ {s} : rf'[t] = rf[t]
        /\ rf'[s].buffers = <<>> /\ rf'[s].initiated = rf[s].initiated
        /\ rf'[s].h = h /\ rf'[s].ec = rf[s].ec
        /\ rf'[s].ring = rf[s].ring /\ rf'[s].group = rf[s].group
    <3> DEFINE f == [rf[s] EXCEPT !.buffers = <<>>, !.h = h]
    <3>1. rf' = [rf EXCEPT ![s] = f]
      BY <1>1, <2>1
    <3>2. /\ f \in Frame /\ f.buffers = <<>> /\ f.initiated = rf[s].initiated
          /\ f.h = h /\ f.ec = rf[s].ec /\ f.ring = rf[s].ring
          /\ f.group = rf[s].group
      <4>1. rf[s] \in Frame /\ <<>> \in Seq(0..MaxData)
        BY <1>1
      <4>2. QED BY <4>1 DEF Frame
    <3> HIDE DEF f
    <3>3. QED BY <1>1, <3>1, <3>2
  <2>3. g \in Groups
    BY <1>1 DEF g
  <2>4. ring[g] \o back \in Seq(Ids)
    BY <1>3, <2>3, Joined DEF TypeOK
  <2>5. ToSet(back) \subseteq Ids
    BY <1>3 DEF ToSet
  <2>6. got[s] \o rf[s].buffers \in Seq(0..MaxData)
    BY <1>1, Joined
  <2>7. ring' \in [Groups -> Seq(Ids)] /\ stack' \in [Groups -> Seq(Ids)]
    BY <1>3, <2>1, <2>3, <2>4 DEF TypeOK
  <2>8. bufs' \in [Groups -> SUBSET Ids]
    BY <2>1, <2>3, <2>5 DEF TypeOK
  <2>9. /\ got' \in [Streams -> Seq(0..MaxData)]
        /\ \A t \in Streams \ {s} : got'[t] = got[t]
    BY <2>1, <2>6 DEF TypeOK
  <2>10. /\ reader' \in [Streams -> {"idle", "waiting", "eof", "gone"}]
         /\ reader'[s] # "waiting"
         /\ \A t \in Streams \ {s} : reader'[t] = reader[t]
    BY <2>1 DEF TypeOK
  <2>11. QED BY <1>5, <2>2, <2>7, <2>8, <2>9, <2>10
<1>6. QED BY <1>4, <1>5

\* await_resume leaves the reader with nothing to wait for.
LEMMA ReturnsReaders ==
    ASSUME Readers, NEW s \in Streams, NEW h \in BOOLEAN, RecvReturns(s, h),
           UNCHANGED <<cancelled, pc, kernVars>>, handles' \in Seq(Streams),
           Times(handles', s) = 0,
           \A t \in Streams \ {s} : Times(handles', t) = Times(handles, t),
           ~(h /\ rf[s].initiated)
    PROVE  Readers'
<1>1. TypeOK /\ Under(s) /\ Tidy(rf[s].buffers)
  BY DEF Readers, Under
<1>2. /\ rf' \in [Streams -> Frame]
      /\ reader' \in [Streams -> {"idle", "waiting", "eof", "gone"}]
      /\ ring' \in [Groups -> Seq(Ids)] /\ stack' \in [Groups -> Seq(Ids)]
      /\ bufs' \in [Groups -> SUBSET Ids]
      /\ got' \in [Streams -> Seq(0..MaxData)]
      /\ \A t \in Streams \ {s} : rf'[t] = rf[t] /\ reader'[t] = reader[t]
      /\ rf'[s].buffers = <<>> /\ rf'[s].initiated = rf[s].initiated
      /\ rf'[s].h = h /\ reader'[s] # "waiting"
      /\ rf'[s].ec = IF rf[s].buffers = <<>> THEN NoError ELSE rf[s].ec
  BY <1>1, ReturnsType
<1>3. UNCHANGED <<cancelled, pc, sq, armed, cq, arrived>>
  BY DEF kernVars
<1>4. TypeOK'
  BY <1>1, <1>2, <1>3 DEF TypeOK
<1>5. Queues'
  BY <1>3 DEF Readers, Queues
<1>6. ASSUME NEW t \in Streams PROVE Under(t)' /\ Served(t)'
  <2>1. CASE t # s
    <3>1. rf'[t] = rf[t] /\ reader'[t] = reader[t]
          /\ Times(handles', t) = Times(handles, t)
      BY <1>2, <2>1
    <3>2. QED BY <1>3, <3>1, Elsewhere DEF Readers
  <2>2. CASE t = s
    <3>1. Tidy(rf'[s].buffers) /\ ~Zero(rf'[s].buffers)
      BY <1>2 DEF Tidy, Zero
    <3>2. Under(s)'
      BY <1>1, <1>2, <1>3, <3>1 DEF Under
    <3>3. Served(s)'
      BY <1>2 DEF Served
    <3>4. QED BY <2>2, <3>2, <3>3
  <2>3. QED BY <2>1, <2>2
<1>7. QED BY <1>4, <1>5, <1>6 DEF Readers

\* async_recv returns at once, or the coroutine is resumed.
LEMMA ReturnReaders ==
    ASSUME Readers, Resume \/ \E s \in Streams : RecvAtOnce(s)
    PROVE  Readers'
<1>1. ASSUME NEW s \in Streams, RecvAtOnce(s) PROVE Readers'
  <2> DEFINE h == rf[s].h \/ rf[s].buffers = <<>>
  <2>1. /\ reader[s] = "idle" /\ RecvReturns(s, h) /\ h \in BOOLEAN
        /\ UNCHANGED <<cancelled, handles, pc, kernVars>>
        /\ rf[s].buffers # <<>> \/ rf[s].ec # NoError
    BY <1>1 DEF RecvAtOnce, Readers, TypeOK, Frame
  <2>2. Times(handles, s) = 0 /\ ~(rf[s].h /\ rf[s].initiated)
    BY <2>1 DEF Readers, Served
  <2>3. ~(h /\ rf[s].initiated)
    BY <2>1, <2>2 DEF Readers, Under
  <2>4. handles' \in Seq(Streams)
    BY <2>1 DEF Readers, TypeOK
  <2> HIDE DEF h
  <2>5. QED BY <2>1, <2>2, <2>3, <2>4, ReturnsReaders
<1>2. ASSUME Resume PROVE Readers'
  <2> DEFINE s == Head(handles)
  <2>1. handles \in Seq(Streams) /\ handles # <<>> /\ s \in Streams
        /\ Tail(handles) \in Seq(Streams)
    BY <1>2 DEF Resume, Readers, TypeOK
  <2>2. \A t : Times(handles, t) = Times(Tail(handles), t) + Bit(s = t)
               /\ Times(Tail(handles), t) \in Nat
    <3>1. \A q \in Seq(Streams) : \A t : Times(q, t) \in Nat
      BY Handles DEF TimesLaws
    <3>2. \A q \in Seq(Streams) : \A t : q # <<>> =>
             Times(q, t) = Times(Tail(q), t) + Bit(Head(q) = t)
      BY Handles DEF TimesLaws
    <3>3. QED BY <2>1, <3>1, <3>2
  <2>3. handles' = Tail(handles) /\ UNCHANGED <<cancelled, pc, kernVars>>
        /\ RecvReturns(s, rf[s].h)
    BY <1>2 DEF Resume
  <2> HIDE DEF s
  <2>4. Times(handles, s) = 1 /\ ~rf[s].h
    <3>1. Times(handles, s) # 0
      BY <2>2 DEF Bit
    <3>2. QED BY <2>1, <3>1 DEF Readers, Served
  <2>5. Times(handles', s) = 0
        /\ \A t \in Streams \ {s} : Times(handles', t) = Times(handles, t)
    BY <2>2, <2>3, <2>4 DEF Bit
  <2>6. rf[s].h \in BOOLEAN
    BY <2>1 DEF Readers, TypeOK, Frame
  <2>7. QED BY <2>1, <2>3, <2>4, <2>5, <2>6, ReturnsReaders
<1>3. QED BY <1>1, <1>2

\* The kernel completes a receive it holds, perhaps at a request it takes.
LEMMA CompletionReaders ==
    ASSUME Readers, TypeOK', NEW e \in Cqe, Proper(e), e.s \in armed,
           cq' = Append(cq, e),
           armed' = IF e.more THEN armed ELSE armed \ {e.s},
           OneAsks(sq'), \A t \in Streams : Asks(sq', t) <=> Asks(sq, t),
           UNCHANGED <<rf, reader, handles>>
    PROVE  Readers'
<1> DEFINE s == e.s
<1>1. s \in Streams /\ cq \in Seq(Cqe) /\ Under(s) /\ s \in armed
  BY DEF Readers, TypeOK
<1>2. ~Stops(cq, s) /\ ~Asks(sq, s) /\ rf[s].initiated
  BY <1>1 DEF Under
<1>3. /\ \A t : Tells(cq', t) <=> Tells(cq, t) \/ s = t
      /\ \A t : Stops(cq', t) <=> Stops(cq, t) \/ (s = t /\ ~e.more)
  BY <1>1, TellAppend
<1>4. Queues'
  <2>1. StopIsLast(cq')
    BY <1>1, <1>2, TellAppend DEF Readers, Queues
  <2>2. \A i \in 1..Len(cq') : Proper(cq'[i])
    BY <1>1, TellAppend DEF Readers, Queues
  <2>3. QED BY <2>1, <2>2 DEF Queues, Proper
<1> HIDE DEF s
<1>5. ASSUME NEW t \in Streams PROVE Under(t)' /\ Served(t)'
  <2>1. CASE t # s
    <3>1. /\ Tells(cq', t) <=> Tells(cq, t)
          /\ Stops(cq', t) <=> Stops(cq, t)
          /\ t \in armed' <=> t \in armed
      BY <1>3, <2>1 DEF s
    <3>2. QED BY <3>1, Elsewhere DEF Readers
  <2>2. CASE t = s
    <3>1. /\ Tells(cq', s) /\ ~Asks(sq', s)
          /\ Stops(cq', s) <=> ~e.more
          /\ s \in armed' <=> e.more
      BY <1>1, <1>2, <1>3 DEF s
    <3>2. Under(s)'
      BY <1>1, <1>2, <3>1 DEF Under
    <3>3. Served(s)'
      BY <1>1 DEF Readers, Served
    <3>4. QED BY <2>2, <3>2, <3>3
  <2>3. QED BY <2>1, <2>2
<1>6. QED BY <1>4, <1>5 DEF Readers

\* What the kernel says when it ends a receive.
LEMMA EndedProper ==
    ASSUME NEW s \in Streams, NEW kind \in {"eof"} \cup Errors
    PROVE  /\ Ended(s, kind) \in Cqe /\ Proper(Ended(s, kind))
           /\ Ended(s, kind).s = s /\ ~Ended(s, kind).more
           /\ Ended(s, kind).kind = kind /\ Ended(s, kind).n = 0
<1> DEFINE e == Ended(s, kind)
<1>1. /\ e.s = s /\ e.kind = kind /\ e.n = 0 /\ e.id = 0 /\ e.more = FALSE
      /\ e = [s |-> s, kind |-> kind, n |-> 0, id |-> 0, more |-> FALSE]
  BY DEF Ended
<1>2. 0 \in 0..MaxData
  BY RecvAssumption
<1>3. e \in Cqe
  BY <1>1, <1>2 DEF Cqe
<1>4. kind # "data"
  BY DEF Errors
<1>5. QED BY <1>1, <1>3, <1>4 DEF Proper

\* A chunk arrives.
LEMMA KernelReceivesReaders ==
    ASSUME Readers, NEW s \in Streams, KernelReceives(s)
    PROVE  /\ Readers'
           /\ \E e \in Cqe : /\ cq' = Append(cq, e) /\ e.s = s /\ e.kind = "data"
                             /\ e.n = arrived[s] + 1 /\ e.id = Head(RingOf(s))
           /\ arrived[s] + 1 \in 0..MaxData
           /\ arrived' = [arrived EXCEPT ![s] = arrived[s] + 1]
<1>1. PICK more \in BOOLEAN :
         /\ cq' = Append(cq, [s |-> s, kind |-> "data", n |-> arrived'[s],
                              id |-> Head(RingOf(s)), more |-> more])
         /\ armed' = IF more THEN armed ELSE armed \ {s}
  BY DEF KernelReceives
<1> DEFINE e == [s |-> s, kind |-> "data", n |-> arrived'[s],
                 id |-> Head(RingOf(s)), more |-> more]
<1>2. /\ TypeOK /\ rf[s].ring \in Groups /\ RingOf(s) \in Seq(Ids)
      /\ RingOf(s) # <<>> /\ arrived[s] \in Nat /\ arrived[s] < MaxData
      /\ s \in armed
  <2>1. RingOf(s) # <<>> /\ arrived[s] < MaxData /\ s \in armed
    BY DEF KernelReceives
  <2>2. TypeOK /\ rf[s].ring \in Groups /\ arrived[s] \in Nat
    <3>1. TypeOK
      BY DEF Readers
    <3>2. arrived[s] \in 0..MaxData
      BY <3>1 DEF TypeOK
    <3>3. rf[s].ring \in Groups
      BY <3>1 DEF TypeOK, Frame
    <3>4. QED BY <3>1, <3>2, <3>3, RecvAssumption
  <2>3. RingOf(s) \in Seq(Ids)
    BY <2>2 DEF TypeOK, RingOf
  <2>4. QED BY <2>1, <2>2, <2>3
<1>3. /\ arrived' = [arrived EXCEPT ![s] = arrived[s] + 1]
      /\ arrived'[s] = arrived[s] + 1 /\ arrived[s] + 1 \in 0..MaxData
      /\ arrived' \in [Streams -> 0..MaxData]
  BY <1>2, RecvAssumption DEF TypeOK, KernelReceives
<1>4. Head(RingOf(s)) \in Ids /\ Tail(RingOf(s)) \in Seq(Ids)
  BY <1>2
<1>5. /\ e \in Cqe /\ e.s = s /\ e.kind = "data" /\ e.n = arrived[s] + 1
      /\ e.id = Head(RingOf(s)) /\ e.more = more
  BY <1>3, <1>4 DEF Cqe
<1> HIDE DEF e
<1>6. cq' = Append(cq, e)
  BY <1>1 DEF e
<1>7. Proper(e)
  BY <1>2, <1>4, <1>5 DEF Proper
<1>8. armed' = (IF e.more THEN armed ELSE armed \ {e.s}) /\ e.s \in armed
  BY <1>1, <1>2, <1>5
<1>9. UNCHANGED <<rf, cancelled, reader, stack, bufs, handles, pc, sq, got>>
      /\ ring' = [ring EXCEPT ![rf[s].ring] = Tail(@)]
  BY DEF KernelReceives, frameVars
<1>10. TypeOK'
  <2>1. ring' \in [Groups -> Seq(Ids)]
    BY <1>2, <1>4, <1>9 DEF TypeOK, RingOf
  <2>2. cq' \in Seq(Cqe) /\ armed' \subseteq Streams
    BY <1>2, <1>5, <1>6, <1>8 DEF TypeOK
  <2>3. QED BY <1>2, <1>3, <1>9, <2>1, <2>2 DEF TypeOK
<1>11. Readers'
  BY <1>5, <1>6, <1>7, <1>8, <1>9, <1>10, CompletionReaders DEF Readers, Queues
<1>12. QED BY <1>3, <1>5, <1>6, <1>11

\* The end of file, or no buffer.
LEMMA KernelEndsReaders ==
    ASSUME Readers, NEW s \in Streams, KernelEnds(s)
    PROVE  Readers'
<1>1. PICK kind \in {"eof"} \cup Errors : cq' = Append(cq, Ended(s, kind))
  BY DEF KernelEnds, Errors
<1> DEFINE e == Ended(s, kind)
<1>2. e \in Cqe /\ Proper(e) /\ e.s = s /\ ~e.more
  BY EndedProper
<1>3. cq' = Append(cq, e)
  BY <1>1
<1> HIDE DEF e
<1>4. /\ s \in armed /\ armed' = armed \ {s}
      /\ UNCHANGED <<rf, cancelled, reader, ring, stack, bufs, handles, pc, sq,
                     arrived, got>>
  BY DEF KernelEnds, frameVars, ringVars
<1>5. TypeOK'
  BY <1>2, <1>3, <1>4 DEF Readers, TypeOK
<1>6. QED BY <1>2, <1>3, <1>4, <1>5, CompletionReaders DEF Readers, Queues

\* The kernel takes a request.
LEMMA KernelTakesReaders ==
    ASSUME Readers, KernelTakes
    PROVE  Readers'
<1> DEFINE o == Head(sq)
<1>1. /\ sq \in Seq(Sqe) /\ sq # <<>> /\ TypeOK /\ Queues
      /\ sq' = Tail(sq)
      /\ UNCHANGED <<rf, cancelled, reader, ring, stack, bufs, handles, pc,
                     arrived, got>>
  BY DEF Readers, TypeOK, KernelTakes, frameVars, ringVars
<1>2. /\ sq' \in Seq(Sqe) /\ o \in Sqe /\ OneAsks(sq')
      /\ \A t : Asks(sq, t) <=> Asks(sq', t) \/ (o.op = "recv" /\ o.s = t)
      /\ o.op = "recv" => ~Asks(sq', o.s)
  BY <1>1, AskTail DEF Queues
<1>3. /\ o.op = "recv" => armed' = armed \cup {o.s} /\ cq' = cq
      /\ o.op # "recv" => /\ armed' = armed \ {o.s}
                          /\ cq' = IF o.s \in armed
                                   THEN Append(cq, Ended(o.s, "ECANCELED"))
                                   ELSE cq
  BY DEF KernelTakes
<1> HIDE DEF o
<1>4. o.s \in Streams
  BY <1>2 DEF Sqe
<1>5. CASE o.op = "recv"
  <2>1. armed' = armed \cup {o.s} /\ cq' = cq
    BY <1>3, <1>5
  <2>2. TypeOK'
    BY <1>1, <1>2, <1>4, <2>1 DEF TypeOK
  <2>3. Queues'
    BY <1>1, <1>2, <2>1 DEF Queues
  <2>4. ASSUME NEW t \in Streams PROVE Under(t)' /\ Served(t)'
    <3>1. CASE t # o.s
      <4>1. (Asks(sq', t) <=> Asks(sq, t)) /\ (t \in armed' <=> t \in armed)
        BY <1>2, <2>1, <3>1
      <4>2. QED BY <1>1, <2>1, <4>1, Elsewhere DEF Readers
    <3>2. CASE t = o.s
      <4>1. Asks(sq, t) /\ ~Asks(sq', t) /\ t \in armed'
        BY <1>2, <1>5, <2>1, <3>2
      <4>2. Under(t) /\ Served(t)
        BY DEF Readers
      <4>3. ~Tells(cq, t) /\ ~Stops(cq, t)
        BY <4>1, <4>2 DEF Under, Tells, Stops
      <4>4. Under(t)'
        BY <1>1, <2>1, <4>1, <4>2, <4>3 DEF Under
      <4>5. Served(t)'
        BY <1>1, <4>2 DEF Served
      <4>6. QED BY <4>4, <4>5
    <3>3. QED BY <3>1, <3>2
  <2>5. QED BY <2>2, <2>3, <2>4 DEF Readers
<1>6. CASE o.op # "recv" /\ o.s \in armed
  <2> DEFINE e == Ended(o.s, "ECANCELED")
  <2>1. e \in Cqe /\ Proper(e) /\ e.s = o.s /\ ~e.more
    BY <1>4, EndedProper DEF Errors
  <2>2. cq' = Append(cq, e) /\ armed' = armed \ {o.s}
    BY <1>3, <1>6
  <2> HIDE DEF e
  <2>3. TypeOK'
    BY <1>1, <1>2, <2>1, <2>2 DEF TypeOK
  <2>4. \A t \in Streams : Asks(sq', t) <=> Asks(sq, t)
    BY <1>2, <1>6
  <2>5. QED BY <1>1, <1>2, <1>6, <2>1, <2>2, <2>3, <2>4, CompletionReaders
<1>7. CASE o.op # "recv" /\ o.s \notin armed
  <2>1. cq' = cq /\ armed' = armed
    BY <1>3, <1>7
  <2>2. TypeOK'
    BY <1>1, <1>2, <2>1 DEF TypeOK
  <2>3. Queues'
    BY <1>1, <1>2, <2>1 DEF Queues
  <2>4. \A t \in Streams : Asks(sq', t) <=> Asks(sq, t)
    BY <1>2, <1>7
  <2>5. \A t \in Streams : Under(t)' /\ Served(t)'
    BY <1>1, <2>1, <2>4, Elsewhere DEF Readers
  <2>6. QED BY <2>2, <2>3, <2>5 DEF Readers
<1>8. QED BY <1>5, <1>6, <1>7

\* What processing a completion does to the frame.
LEMMA ProcessFrame ==
    ASSUME TypeOK, NEW e \in Cqe, Process(e)
    PROVE  /\ rf' \in [Streams -> Frame]
           /\ \A t \in Streams \ {e.s} : rf'[t] = rf[t]
           /\ rf'[e.s].initiated = e.more /\ rf'[e.s].h = FALSE
           /\ rf'[e.s].buffers = BuffersAfter(e)
           /\ BuffersAfter(e) \in Seq(0..MaxData)
           /\ rf'[e.s].ec = IF e.kind \in Errors THEN ErrorOf(e) ELSE rf[e.s].ec
           /\ e.kind \in Errors => ErrorOf(e) # NoError
           /\ rf'[e.s].ring = rf[e.s].ring /\ rf'[e.s].group = rf[e.s].group
<1> DEFINE s == e.s
           ec == IF e.kind \in Errors THEN ErrorOf(e) ELSE rf[s].ec
           f == [rf[s] EXCEPT !.initiated = e.more, !.h = FALSE, !.ec = ec,
                              !.buffers = BuffersAfter(e)]
<1>1. /\ s \in Streams /\ rf[s] \in Frame /\ rf \in [Streams -> Frame]
      /\ rf[s].buffers \in Seq(0..MaxData) /\ e.n \in 0..MaxData
      /\ e.more \in BOOLEAN /\ rf[s].ec \in Errors \cup {NoError}
  BY DEF TypeOK, Cqe, Frame
<1>2. BuffersAfter(e) \in Seq(0..MaxData)
  <2>1. Append(rf[s].buffers, e.n) \in Seq(0..MaxData)
    BY <1>1
  <2>2. QED BY <1>1, <2>1 DEF BuffersAfter
<1>3. e.kind \in Errors => ErrorOf(e) \in Errors /\ ErrorOf(e) # NoError
  BY DEF ErrorOf, Errors, NoError
<1>4. ec \in Errors \cup {NoError}
  BY <1>1, <1>3
<1>5. rf' = [rf EXCEPT ![s] = f]
  BY <1>1 DEF Process
<1> HIDE DEF ec
<1>6. /\ f \in Frame /\ f.initiated = e.more /\ f.h = FALSE /\ f.ec = ec
      /\ f.buffers = BuffersAfter(e)
      /\ f.ring = rf[s].ring /\ f.group = rf[s].group
  BY <1>1, <1>2, <1>4 DEF Frame
<1> HIDE DEF f
<1>7. /\ rf' \in [Streams -> Frame] /\ rf'[s] = f
      /\ \A t \in Streams \ {s} : rf'[t] = rf[t]
  BY <1>1, <1>5, <1>6
<1>8. QED BY <1>2, <1>3, <1>6, <1>7 DEF ec

\* The loop processes a completion.
LEMMA ReapReaders ==
    ASSUME Readers, Reap
    PROVE  Readers'
<1> DEFINE e == Head(cq)
           s == e.s
<1>1. /\ TypeOK /\ Queues /\ cq \in Seq(Cqe) /\ cq # <<>>
      /\ Process(e) /\ cq' = Tail(cq)
      /\ UNCHANGED <<cancelled, reader, ring, pc, sq, armed, arrived, got>>
  BY DEF Readers, TypeOK, Reap
<1>2. /\ cq' \in Seq(Cqe) /\ e \in Cqe /\ StopIsLast(cq') /\ Proper(e)
      /\ \A i \in 1..Len(cq') : Proper(cq'[i])
      /\ \A t : Tells(cq, t) <=> Tells(cq', t) \/ s = t
      /\ \A t : Stops(cq, t) <=> Stops(cq', t) \/ (s = t /\ ~e.more)
      /\ ~e.more => ~Tells(cq', s)
  BY <1>1, TellTail DEF Queues
<1>3. s \in Streams /\ e.more \in BOOLEAN /\ e.id \in Ids \cup {0} /\ e.n \in 0..MaxData
  BY <1>2 DEF Cqe
<1>4. Under(s) /\ Served(s) /\ Tells(cq, s)
  BY <1>2, <1>3 DEF Readers
<1>5. /\ rf[s].initiated /\ rf[s].ec = NoError /\ ~Zero(rf[s].buffers)
      /\ Tidy(rf[s].buffers) /\ ~Asks(sq, s)
  BY <1>4 DEF Under
<1>6. /\ rf' \in [Streams -> Frame]
      /\ \A t \in Streams \ {s} : rf'[t] = rf[t]
      /\ rf'[s].initiated = e.more /\ rf'[s].h = FALSE
      /\ rf'[s].buffers = BuffersAfter(e)
      /\ rf'[s].ec = IF e.kind \in Errors THEN ErrorOf(e) ELSE rf[s].ec
      /\ e.kind \in Errors => ErrorOf(e) # NoError
  BY <1>1, <1>2, ProcessFrame
<1>7. /\ handles' = IF rf[s].h THEN Append(handles, s) ELSE handles
      /\ handles \in Seq(Streams)
  BY <1>1 DEF Process, Collect, TypeOK
<1>8. /\ e.more => e.kind = "data"
      /\ e.kind = "data" => e.n > 0 /\ e.id \in Ids /\ e.kind \notin Errors
  BY <1>2 DEF Proper, Errors
<1>9. e.kind \notin Errors => rf'[s].buffers = Append(rf[s].buffers, e.n)
  BY <1>6 DEF BuffersAfter
<1>10. e.kind \in Errors => rf'[s].buffers = rf[s].buffers
  BY <1>6 DEF BuffersAfter
<1>11. stack' \in [Groups -> Seq(Ids)] /\ bufs' \in [Groups -> SUBSET Ids]
  <2>1. rf[s].ring \in Groups
    BY <1>1, <1>3 DEF TypeOK, Frame
  <2>2. CASE TakesBuffer(e)
    <3>1. e.id \in Ids
      BY <1>8, <2>2 DEF TakesBuffer
    <3>2. /\ bufs' = [bufs EXCEPT ![rf[s].ring] = @ \ {e.id}]
          /\ stack' = [stack EXCEPT ![rf[s].ring] = Append(@, e.id)]
      BY <1>1, <2>2 DEF Process
    <3>3. bufs' \in [Groups -> SUBSET Ids]
      BY <1>1, <3>2 DEF TypeOK
    <3>4. Append(stack[rf[s].ring], e.id) \in Seq(Ids)
      BY <1>1, <2>1, <3>1 DEF TypeOK
    <3>5. stack' \in [Groups -> Seq(Ids)]
      BY <1>1, <3>2, <3>4 DEF TypeOK
    <3>6. QED BY <3>3, <3>5
  <2>3. CASE ~TakesBuffer(e)
    BY <1>1, <2>3 DEF Process, TypeOK
  <2>4. QED BY <2>2, <2>3
<1> HIDE DEF s, e
<1>12. /\ handles' \in Seq(Streams)
       /\ \A t : Times(handles', t) = Times(handles, t) + Bit(rf[s].h /\ s = t)
       /\ \A t : Times(handles, t) \in Nat
  <2>1. /\ \A q \in Seq(Streams) : \A t : Times(q, t) \in Nat
        /\ \A q \in Seq(Streams), x \in Streams : \A t :
              Times(Append(q, x), t) = Times(q, t) + Bit(x = t)
    BY Handles DEF TimesLaws
  <2>2. CASE rf[s].h
    BY <1>3, <1>7, <2>1, <2>2 DEF Bit
  <2>3. CASE ~rf[s].h
    BY <1>7, <2>1, <2>3 DEF Bit
  <2>4. QED BY <2>2, <2>3
<1>13. TypeOK'
  BY <1>1, <1>2, <1>6, <1>11, <1>12 DEF TypeOK
<1>14. Queues'
  BY <1>1, <1>2 DEF Queues, Proper
<1>15. /\ Tidy(rf'[s].buffers)
       /\ e.more => ~Zero(rf'[s].buffers)
       /\ rf'[s].buffers # <<>> \/ rf'[s].ec # NoError
  <2>1. CASE e.kind \in Errors
    BY <1>5, <1>6, <1>8, <1>10, <2>1
  <2>2. CASE e.kind \notin Errors
    <3>1. rf[s].buffers \in Seq(0..MaxData)
      BY <1>1, <1>3 DEF TypeOK, Frame
    <3>2. /\ Tidy(rf'[s].buffers) /\ rf'[s].buffers # <<>>
          /\ Zero(rf'[s].buffers) <=> e.n = 0
      <4> DEFINE q == rf[s].buffers
                 x == e.n
      <4>1. q \in Seq(0..MaxData) /\ x \in 0..MaxData /\ Tidy(q) /\ ~Zero(q)
            /\ rf'[s].buffers = Append(q, x)
        BY <1>3, <1>5, <1>9, <2>2, <3>1
      <4> HIDE DEF q
      <4>2. QED BY <4>1, TidyAppend
    <3>3. e.more => e.n # 0
      BY <1>3, <1>8
    <3>4. QED BY <3>2, <3>3
  <2>3. QED BY <2>1, <2>2
<1>16. ASSUME NEW t \in Streams PROVE Under(t)' /\ Served(t)'
  <2>1. CASE t # s
    <3>1. /\ rf'[t] = rf[t] /\ Times(handles', t) = Times(handles, t)
          /\ Tells(cq', t) <=> Tells(cq, t)
          /\ Stops(cq', t) <=> Stops(cq, t)
      BY <1>2, <1>6, <1>12, <2>1 DEF Bit
    <3>2. QED BY <1>1, <3>1, Elsewhere DEF Readers
  <2>2. CASE t = s
    <3>1. /\ Under(t) /\ Served(t) /\ rf[t].initiated /\ ~Asks(sq, t)
          /\ rf'[t].initiated = e.more /\ ~rf'[t].h
          /\ Tidy(rf'[t].buffers) /\ (e.more => ~Zero(rf'[t].buffers))
          /\ rf'[t].buffers # <<>> \/ rf'[t].ec # NoError
      BY <1>4, <1>5, <1>6, <1>15, <2>2
    <3>2. Under(t)'
      <4>1. CASE e.more
        <5>1. rf'[t].initiated /\ rf'[t].ec = NoError
          BY <1>5, <1>6, <1>8, <2>2, <4>1
        <5>2. (Stops(cq', t) <=> Stops(cq, t)) /\ (Tells(cq', t) => Tells(cq, t))
          BY <1>2, <4>1
        <5>3. QED BY <1>1, <3>1, <4>1, <5>1, <5>2 DEF Under
      <4>2. CASE ~e.more
        <5>1. Stops(cq, t) /\ ~Tells(cq', t) /\ ~rf'[t].initiated
          BY <1>2, <2>2, <3>1, <4>2
        <5>2. ~Stops(cq', t)
          BY <5>1 DEF Stops, Tells
        <5>3. t \notin armed
          BY <3>1, <5>1 DEF Under
        <5>4. QED BY <1>1, <3>1, <5>1, <5>2, <5>3 DEF Under
      <4>3. QED BY <4>1, <4>2
    <3>3. Served(t)'
      <4>1. Times(handles', t) = Times(handles, t) + Bit(rf[t].h)
            /\ Times(handles, t) \in Nat
        BY <1>12, <2>2 DEF Bit
      <4>2. CASE reader[t] = "waiting"
        <5>1. Times(handles', t) = 1
          BY <3>1, <4>1, <4>2 DEF Served, Bit
        <5>2. QED BY <1>1, <3>1, <4>2, <5>1 DEF Served
      <4>3. CASE reader[t] # "waiting"
        <5>1. Times(handles', t) = 0
          BY <3>1, <4>1, <4>3 DEF Served, Bit
        <5>2. QED BY <1>1, <3>1, <4>3, <5>1 DEF Served
      <4>4. QED BY <4>2, <4>3
    <3>4. QED BY <3>2, <3>3
  <2>3. QED BY <2>1, <2>2
<1>17. QED BY <1>13, <1>14, <1>16 DEF Readers

\* Every step keeps the invariant of the readers.
LEMMA NextReaders == Readers /\ [Next]_vars => Readers'
<1> SUFFICES ASSUME Readers, [Next]_vars PROVE Readers'
  OBVIOUS
<1>1. ASSUME UserStep PROVE Readers'
  BY <1>1, SuspendReaders, ReturnReaders, CancelReaders, QuietStepReaders
  DEF UserStep
<1>2. ASSUME LoopStep PROVE Readers'
  BY <1>2, QuietStepReaders, ReturnReaders, KernelTakesReaders, ReapReaders
  DEF LoopStep
<1>3. ASSUME KernelStep PROVE Readers'
  BY <1>3, KernelReceivesReaders, KernelEndsReaders DEF KernelStep
<1>4. ASSUME NEW s \in Streams, TimerStrikes(s) PROVE Readers'
  BY <1>4, CancelReaders
<1>5. ASSUME UNCHANGED vars PROVE Readers'
  <2>1. UNCHANGED <<rf, cancelled, reader, ring, stack, bufs, handles, pc, sq,
                    armed, cq, arrived, got>>
    BY <1>5 DEF vars, frameVars, ringVars, kernVars
  <2>2. TypeOK'
    BY <2>1 DEF Readers, TypeOK
  <2>3. QED BY <2>1, <2>2, QuietReaders DEF kernVars
<1>6. QED BY <1>1, <1>2, <1>3, <1>4, <1>5 DEF Next

\* The invariant of the readers holds in every reachable state.
THEOREM ReadersHold == Spec => []Readers
<1>1. Init => Readers
  BY InitReaders
<1>2. Readers /\ [Next]_vars => Readers'
  BY NextReaders
<1>3. QED BY <1>1, <1>2, PTL DEF Spec

\* ReaderIsServed: a coroutine waits as long as a receive is under way and
\* nothing has come, it is resumed once and with something to return, and a
\* completion finds no error unreported.
THEOREM ReaderIsServedHolds == Spec => []ReaderIsServed
<1>1. ASSUME Readers PROVE ReaderIsServed
  <2>1. ResumedWithSomething
    BY <1>1 DEF ResumedWithSomething, Readers, Served, Times
  <2>2. OneErrorAtATime
    <3> SUFFICES ASSUME NEW i \in 1..Len(cq)
                 PROVE  /\ ~cq[i].more => \A j \in i + 1..Len(cq) : cq[j].s # cq[i].s
                        /\ rf[cq[i].s].initiated /\ rf[cq[i].s].ec = NoError
      BY DEF OneErrorAtATime
    <3>1. cq \in Seq(Cqe) /\ cq[i] \in Cqe /\ Len(cq) \in Nat
      BY <1>1 DEF Readers, TypeOK
    <3>2. cq[i].s \in Streams
      BY <3>1 DEF Cqe
    <3>3. Tells(cq, cq[i].s)
      BY DEF Tells
    <3>4. rf[cq[i].s].initiated /\ rf[cq[i].s].ec = NoError
      BY <1>1, <3>2, <3>3 DEF Readers, Under
    <3>5. ASSUME ~cq[i].more, NEW j \in i + 1..Len(cq) PROVE cq[j].s # cq[i].s
      <4>1. j \in 1..Len(cq) /\ ~(j <= i)
        BY <3>1
      <4>2. QED BY <1>1, <3>5, <4>1 DEF Readers, Queues, StopIsLast
    <3>6. QED BY <3>4, <3>5
  <2>3. QED BY <2>1, <2>2 DEF ReaderIsServed
<1>2. QED BY <1>1, ReadersHold, PTL

-----------------------------------------------------------------------------
(* What is read is what was sent.                                          *)

\* The data of a stream are numbers.
LEMMA FlowTypes ==
    ASSUME TypeOK, NEW s \in Streams
    PROVE  /\ got[s] \in Seq(Nat) /\ rf[s].buffers \in Seq(Nat)
           /\ Len(got[s]) \in Nat /\ Len(rf[s].buffers) \in Nat
           /\ arrived[s] \in Nat /\ Seen(s) \in Nat
<1>1. /\ got[s] \in Seq(0..MaxData) /\ rf[s].buffers \in Seq(0..MaxData)
      /\ arrived[s] \in 0..MaxData
  BY DEF TypeOK, Frame
<1>2. \A q \in Seq(0..MaxData) : q \in Seq(Nat) /\ Len(q) \in Nat
  BY RecvAssumption
<1>3. Zero(got[s]) => Len(got[s]) > 0
  BY <1>1 DEF Zero
<1>4. Zero(rf[s].buffers) => Len(rf[s].buffers) > 0
  BY <1>1 DEF Zero
<1>5. Seen(s) \in Nat
  <2>1. Len(got[s]) \in Nat /\ Len(rf[s].buffers) \in Nat
    BY <1>1, <1>2
  <2> DEFINE x == Len(got[s])
             y == Len(rf[s].buffers)
             b == AtEnd(s)
  <2>2. x \in Nat /\ y \in Nat /\ (b => x > 0 \/ y > 0)
    BY <1>3, <1>4, <2>1 DEF AtEnd
  <2>3. Seen(s) = (x + y) - Bit(b)
    BY DEF Seen
  <2> HIDE DEF x, y, b
  <2>4. (x + y) - Bit(b) \in Nat
    BY <2>2 DEF Bit
  <2>5. QED BY <2>3, <2>4
<1>6. QED BY <1>1, <1>2, <1>5, RecvAssumption

\* A stream whose data stay where they are.
LEMMA FlowElsewhere ==
    ASSUME NEW t \in Streams, Flow(t),
           rf'[t].buffers = rf[t].buffers, got'[t] = got[t],
           AtEnd(t) => ~rf'[t].initiated,
           Zero(got[t]) => reader'[t] \in {"eof", "gone"},
           arrived'[t] = arrived[t],
           Brings(cq', t, Seen(t), arrived[t])
    PROVE  Flow(t)'
<1>1. /\ Zero(got'[t]) <=> Zero(got[t])
      /\ Zero(rf'[t].buffers) <=> Zero(rf[t].buffers)
  OBVIOUS
<1>2. (AtEnd(t)' <=> AtEnd(t)) /\ Seen(t)' = Seen(t)
  BY <1>1 DEF AtEnd, Seen, Bit
<1>3. QED BY <1>1, <1>2 DEF Flow

\* Nothing has been sent when the program starts.
LEMMA InitFlows == Init => Flows
<1> SUFFICES ASSUME Init, NEW s \in Streams PROVE Flow(s)
  BY DEF Flows
<1>1. PICK g \in Groups :
         rf[s] = [buffers |-> <<>>, ec |-> NoError, h |-> FALSE,
                  initiated |-> FALSE, group |-> g, ring |-> g]
  BY DEF Init
<1>2. rf[s].buffers = <<>> /\ got[s] = <<>> /\ cq = <<>> /\ arrived[s] = 0
  BY <1>1 DEF Init
<1>3. ~AtEnd(s)
  BY <1>2 DEF AtEnd, Zero
<1>4. Seen(s) = 0
  BY <1>2, <1>3 DEF Seen, Bit
<1>5. Counts(got[s], 0) /\ Counts(rf[s].buffers, Len(got[s]))
  BY <1>2 DEF Counts
<1>6. Brings(cq, s, Seen(s), arrived[s])
  BY <1>2, <1>4 DEF Brings
<1>7. QED BY <1>2, <1>3, <1>4, <1>5, <1>6 DEF Flow, AtEnd

\* Steps that touch no data.
LEMMA QuietFlows ==
    ASSUME Flows, UNCHANGED <<cq, arrived, got>>,
           \A t \in Streams :
              /\ rf'[t].buffers = rf[t].buffers
              /\ rf'[t].initiated => rf[t].initiated \/ ~AtEnd(t)
              /\ Zero(got[t]) /\ reader[t] \in {"eof", "gone"}
                    => reader'[t] \in {"eof", "gone"}
    PROVE  Flows'
<1> SUFFICES ASSUME NEW t \in Streams PROVE Flow(t)'
  BY DEF Flows
<1>1. Flow(t)
  BY DEF Flows
<1>2. QED BY <1>1, FlowElsewhere DEF Flow

\* The steps of the loop and of the users that do so.
LEMMA QuietStepFlows ==
    ASSUME Readers, Flows,
           \/ \E g \in Groups : Recycle(g)
           \/ \E s \in Streams : \/ RecvSuspends(s) \/ AsyncCancel(s)
                                 \/ DropStream(s) \/ TimerStrikes(s)
                                 \/ \E g \in Groups : SetBufferGroup(s, g)
           \/ SubmitFull \/ SubmitAndWait \/ SubmitDone \/ ReapDone
    PROVE  Flows' /\ UNCHANGED <<cq, arrived, got>>
           /\ \A t \in Streams : rf'[t].buffers = rf[t].buffers
<1>1. TypeOK
  BY DEF Readers
<1>2. ASSUME UNCHANGED <<rf, cq, arrived, got>>,
             \A t \in Streams : reader[t] \in {"eof", "gone"}
                                   => reader'[t] \in {"eof", "gone"}
      PROVE  Flows'
  BY <1>2, QuietFlows
<1>3. ASSUME NEW g \in Groups, Recycle(g) PROVE Flows' /\ UNCHANGED <<rf, cq, arrived, got>>
  BY <1>2, <1>3 DEF Recycle, frameVars, kernVars
<1>4. ASSUME NEW s \in Streams, RecvSuspends(s)
      PROVE  Flows' /\ UNCHANGED <<cq, arrived, got>>
             /\ \A t \in Streams : rf'[t].buffers = rf[t].buffers
  <2>1. /\ UNCHANGED <<cq, arrived, got>> /\ reader[s] = "idle"
        /\ reader' = [reader EXCEPT ![s] = "waiting"]
        /\ rf[s].buffers = <<>>
    BY <1>4 DEF RecvSuspends
  <2>2. \A t \in Streams : /\ rf'[t].buffers = rf[t].buffers
                           /\ t # s => rf'[t].initiated = rf[t].initiated
    BY <1>1, <1>4, SuspendFrame
  <2>3. ~Zero(got[s]) /\ ~AtEnd(s)
    <3>1. ~Zero(got[s])
      BY <2>1 DEF Flows, Flow
    <3>2. QED BY <2>1, <3>1 DEF AtEnd, Zero
  <2>4. \A t \in Streams \ {s} : reader'[t] = reader[t]
    BY <1>1, <2>1 DEF TypeOK
  <2>5. QED BY <2>1, <2>2, <2>3, <2>4, QuietFlows
<1>5. ASSUME NEW s \in Streams, AsyncCancel(s) \/ TimerStrikes(s)
      PROVE  Flows' /\ UNCHANGED <<rf, cq, arrived, got>>
  BY <1>2, <1>5 DEF AsyncCancel, TimerStrikes, frameVars
<1>6. ASSUME NEW s \in Streams, DropStream(s)
      PROVE  Flows' /\ UNCHANGED <<rf, cq, arrived, got>>
  <2>1. UNCHANGED <<rf, cq, arrived, got>>
        /\ reader' = [reader EXCEPT ![s] = "gone"]
    BY <1>6 DEF DropStream
  <2>2. QED BY <1>1, <1>2, <2>1 DEF TypeOK
<1>7. ASSUME NEW s \in Streams, NEW g \in Groups, SetBufferGroup(s, g)
      PROVE  Flows' /\ UNCHANGED <<cq, arrived, got>>
             /\ \A t \in Streams : rf'[t].buffers = rf[t].buffers
  <2>1. UNCHANGED <<reader, cq, arrived, got>>
    BY <1>7 DEF SetBufferGroup, kernVars
  <2>2. \A t \in Streams : rf'[t].buffers = rf[t].buffers
                           /\ rf'[t].initiated = rf[t].initiated
    BY <1>1, <1>7 DEF SetBufferGroup, TypeOK, Frame
  <2>3. QED BY <2>1, <2>2, QuietFlows
<1>8. ASSUME SubmitFull \/ SubmitAndWait \/ SubmitDone \/ ReapDone
      PROVE  Flows' /\ UNCHANGED <<rf, cq, arrived, got>>
  BY <1>2, <1>8
  DEF SubmitFull, SubmitAndWait, SubmitDone, ReapDone, frameVars, kernVars
<1>9. QED BY <1>3, <1>4, <1>5, <1>6, <1>7, <1>8

\* Who returns from async_recv has been waiting or has not been at the end.
LEMMA ReturnsFlows ==
    ASSUME Readers, Flows, NEW s \in Streams, NEW h \in BOOLEAN, RecvReturns(s, h),
           reader[s] \in {"idle", "waiting"}, UNCHANGED <<cq, arrived>>
    PROVE  /\ Flows' /\ ~Zero(got[s])
           /\ \A t \in Streams \ {s} : got'[t] = got[t] /\ rf'[t] = rf[t]
           /\ rf[s].buffers = <<>> => got' = got
           /\ rf[s].buffers # <<>> =>
                 got' = [got EXCEPT ![s] = got[s] \o rf[s].buffers]
           /\ rf'[s].buffers = <<>>
<1>1. TypeOK /\ Flow(s) /\ Tidy(rf[s].buffers)
  BY DEF Readers, Flows, Under
<1>2. /\ \A t \in Streams \ {s} : /\ rf'[t] = rf[t] /\ reader'[t] = reader[t]
                                  /\ got'[t] = got[t]
      /\ rf'[s].buffers = <<>> /\ rf'[s].initiated = rf[s].initiated
  BY <1>1, ReturnsType
<1>3. ~Zero(got[s])
  BY <1>1 DEF Flow
<1>4. ASSUME NEW t \in Streams \ {s} PROVE Flow(t)'
  <2>1. Flow(t)
    BY DEF Flows
  <2>2. QED BY <1>2, <2>1, FlowElsewhere DEF Flow
<1>5. CASE rf[s].buffers = <<>>
  <2>1. got' = got
    BY <1>5 DEF RecvReturns
  <2>2. Flow(s)'
    BY <1>1, <1>2, <1>3, <1>5, <2>1, FlowElsewhere DEF Flow
  <2>3. QED BY <1>2, <1>3, <1>4, <1>5, <2>1, <2>2 DEF Flows
<1>6. CASE rf[s].buffers # <<>>
  <2> DEFINE b == rf[s].buffers
             a == got[s]
  <2>1. /\ got' = [got EXCEPT ![s] = a \o b]
        /\ reader' = [reader EXCEPT ![s] = IF Len(b) > 0 /\ Last(b) = 0
                                           THEN "eof" ELSE "idle"]
    BY <1>6 DEF RecvReturns
  <2>2. /\ a \in Seq(Nat) /\ b \in Seq(Nat) /\ Len(a) \in Nat /\ Len(b) \in Nat
        /\ arrived[s] \in Nat /\ Seen(s) \in Nat
    BY <1>1, FlowTypes
  <2>3. got'[s] = a \o b
    BY <1>1, <2>1 DEF TypeOK
  <2>4. Zero(b) => reader'[s] = "eof"
    <3>1. Zero(b) => Len(b) > 0 /\ Last(b) = 0
      BY <2>2 DEF Zero, Last
    <3>2. QED BY <1>1, <2>1, <3>1 DEF TypeOK
  <2>5. /\ Counts(a, 0) /\ Counts(b, Len(a)) /\ ~Zero(a) /\ b # <<>>
        /\ Zero(b) => ~rf[s].initiated
        /\ Brings(cq, s, Seen(s), arrived[s]) /\ Seen(s) <= arrived[s]
    BY <1>1, <1>3, <1>6 DEF Flow, AtEnd
  <2>6. Seen(s) = (Len(a) + Len(b)) - Bit(Zero(b))
    BY <2>5 DEF Seen, AtEnd, Bit
  <2> HIDE DEF a, b
  <2>7. /\ Counts(a \o b, 0) /\ (Zero(a \o b) <=> Zero(b))
        /\ Len(a \o b) = Len(a) + Len(b)
    BY <2>2, <2>5, CountsJoin
  <2>8. AtEnd(s)' <=> Zero(b)
    BY <1>2, <2>3, <2>7 DEF AtEnd, Zero
  <2>9. Seen(s)' = Seen(s)
    <3>1. Len(rf'[s].buffers) = 0 /\ Len(got'[s]) = Len(a) + Len(b)
      BY <1>2, <2>3, <2>7
    <3>2. Seen(s)' = (Len(got'[s]) + Len(rf'[s].buffers)) - Bit(Zero(b))
      BY <2>8 DEF Seen, Bit
    <3>3. QED BY <2>2, <2>6, <3>1, <3>2 DEF Bit
  <2>10. Counts(rf'[s].buffers, Len(got'[s]))
    BY <1>2 DEF Counts
  <2>11. Flow(s)'
    BY <1>2, <2>3, <2>4, <2>5, <2>7, <2>8, <2>9, <2>10 DEF Flow
  <2>12. QED BY <1>2, <1>3, <1>4, <1>6, <2>1, <2>11 DEF Flows, a, b
<1>7. QED BY <1>5, <1>6

\* A coroutine returns from async_recv.
LEMMA ReturnFlows ==
    ASSUME Readers, Flows, Resume \/ \E s \in Streams : RecvAtOnce(s)
    PROVE  /\ Flows' /\ UNCHANGED <<cq, arrived>>
           /\ \E s \in Streams, h \in BOOLEAN :
                 RecvReturns(s, h) /\ reader[s] \in {"idle", "waiting"}
<1>1. ASSUME NEW s \in Streams, RecvAtOnce(s)
      PROVE  /\ reader[s] \in {"idle", "waiting"} /\ UNCHANGED <<cq, arrived>>
             /\ \E h \in BOOLEAN : RecvReturns(s, h)
  BY <1>1 DEF RecvAtOnce, kernVars, Readers, TypeOK, Frame
<1>2. ASSUME Resume
      PROVE  /\ UNCHANGED <<cq, arrived>>
             /\ \E s \in Streams, h \in BOOLEAN :
                   RecvReturns(s, h) /\ reader[s] \in {"idle", "waiting"}
  <2>1. handles \in Seq(Streams) /\ handles # <<>> /\ Head(handles) \in Streams
        /\ RecvReturns(Head(handles), rf[Head(handles)].h)
        /\ UNCHANGED <<cq, arrived>>
    BY <1>2 DEF Resume, Readers, TypeOK, kernVars
  <2>2. PICK s \in Streams : s = Head(handles)
    BY <2>1
  <2>3. Times(handles, s) # 0
    <3>1. 1 \in 1..Len(handles) /\ handles[1] = s
      BY <2>1, <2>2
    <3>2. \A q \in Seq(Streams) : \A x :
             Times(q, x) = 0 <=> \A i \in 1..Len(q) : q[i] # x
      BY Handles DEF TimesLaws
    <3>3. QED BY <2>1, <3>1, <3>2
  <2>4. reader[s] = "waiting"
    BY <2>3 DEF Readers, Served
  <2>5. RecvReturns(s, rf[s].h) /\ rf[s].h \in BOOLEAN
    BY <2>1, <2>2 DEF Readers, TypeOK, Frame
  <2>6. QED BY <2>1, <2>4, <2>5
<1>3. /\ UNCHANGED <<cq, arrived>>
      /\ \E s \in Streams, h \in BOOLEAN :
            RecvReturns(s, h) /\ reader[s] \in {"idle", "waiting"}
  BY <1>1, <1>2
<1>4. QED BY <1>3, ReturnsFlows

\* The kernel ends a receive or takes a request.
LEMMA EndedStep ==
    ASSUME TypeOK, KernelTakes \/ \E s \in Streams : KernelEnds(s)
    PROVE  /\ UNCHANGED <<rf, ringVars, reader, arrived, got>>
           /\ \/ cq' = cq
              \/ \E s \in Streams, kind \in {"eof"} \cup Errors :
                    cq' = Append(cq, Ended(s, kind))
<1>1. ASSUME KernelTakes
      PROVE  /\ UNCHANGED <<rf, ringVars, reader, arrived, got>>
             /\ \/ cq' = cq
                \/ \E s \in Streams, kind \in {"eof"} \cup Errors :
                      cq' = Append(cq, Ended(s, kind))
  <2>1. Head(sq).s \in Streams
    <3>1. sq \in Seq(Sqe) /\ sq # <<>>
      BY <1>1 DEF KernelTakes, TypeOK
    <3>2. Head(sq) \in Sqe
      BY <3>1
    <3>3. QED BY <3>2 DEF Sqe
  <2>2. cq' = cq \/ cq' = Append(cq, Ended(Head(sq).s, "ECANCELED"))
    BY <1>1 DEF KernelTakes
  <2>3. "ECANCELED" \in {"eof"} \cup Errors
    BY DEF Errors
  <2>4. QED BY <1>1, <2>1, <2>2, <2>3 DEF KernelTakes, frameVars
<1>2. ASSUME NEW s \in Streams, KernelEnds(s)
      PROVE  /\ UNCHANGED <<rf, ringVars, reader, arrived, got>>
             /\ \E kind \in {"eof"} \cup Errors : cq' = Append(cq, Ended(s, kind))
  BY <1>2 DEF KernelEnds, frameVars, Errors
<1>3. QED BY <1>1, <1>2

\* No chunk moves then.
LEMMA EndedFlows ==
    ASSUME Readers, Flows, KernelTakes \/ \E s \in Streams : KernelEnds(s)
    PROVE  Flows'
<1>1. /\ UNCHANGED <<rf, reader, arrived, got>>
      /\ \/ cq' = cq
         \/ \E s \in Streams, kind \in {"eof"} \cup Errors :
               cq' = Append(cq, Ended(s, kind))
  BY EndedStep DEF Readers
<1>2. ASSUME NEW t \in Streams PROVE Flow(t)'
  <2>1. Flow(t) /\ Brings(cq, t, Seen(t), arrived[t])
    BY DEF Flows, Flow
  <2>2. Brings(cq', t, Seen(t), arrived[t])
    <3>1. ASSUME NEW s \in Streams, NEW kind \in {"eof"} \cup Errors,
                 cq' = Append(cq, Ended(s, kind))
          PROVE  Brings(cq', t, Seen(t), arrived[t])
      <4>1. Ended(s, kind) \in Cqe /\ Ended(s, kind).kind # "data"
        BY EndedProper DEF Errors
      <4>2. cq \in Seq(Cqe)
        BY DEF Readers, TypeOK
      <4>3. QED BY <2>1, <3>1, <4>1, <4>2, BringsAppend
    <3>2. QED BY <1>1, <2>1, <3>1
  <2>3. QED BY <1>1, <2>1, <2>2, FlowElsewhere DEF Flow
<1>3. QED BY <1>2 DEF Flows

\* A chunk arrives.
LEMMA KernelReceivesFlows ==
    ASSUME Readers, Flows, NEW s \in Streams, KernelReceives(s)
    PROVE  Flows'
<1>1. /\ TypeOK /\ cq \in Seq(Cqe) /\ UNCHANGED <<rf, reader, got>>
  BY DEF Readers, TypeOK, KernelReceives, frameVars
<1>2. PICK e \in Cqe : /\ cq' = Append(cq, e) /\ e.s = s /\ e.kind = "data"
                       /\ e.n = arrived[s] + 1
  BY KernelReceivesReaders
<1>3. arrived' = [arrived EXCEPT ![s] = arrived[s] + 1]
  BY KernelReceivesReaders
<1>4. ASSUME NEW t \in Streams, t # s PROVE Flow(t)'
  <2>1. Flow(t) /\ Brings(cq, t, Seen(t), arrived[t]) /\ arrived'[t] = arrived[t]
    BY <1>1, <1>3, <1>4 DEF Flows, Flow, TypeOK
  <2>2. Brings(cq', t, Seen(t), arrived[t])
    BY <1>1, <1>2, <1>4, <2>1, BringsAppend
  <2>3. QED BY <1>1, <2>1, <2>2, FlowElsewhere DEF Flow
<1>5. Flow(s)'
  <2>1. /\ Flow(s) /\ Brings(cq, s, Seen(s), arrived[s]) /\ Seen(s) <= arrived[s]
        /\ arrived'[s] = arrived[s] + 1
    BY <1>1, <1>3 DEF Flows, Flow, TypeOK
  <2>2. Seen(s) \in Nat /\ arrived[s] \in Nat
    BY <1>1, FlowTypes
  <2>3. Brings(cq', s, Seen(s), arrived'[s])
    BY <1>1, <1>2, <2>1, <2>2, BringsNext
  <2>4. Seen(s)' = Seen(s) /\ (AtEnd(s)' <=> AtEnd(s))
    BY <1>1 DEF Seen, AtEnd
  <2>5. Seen(s)' <= arrived'[s]
    BY <2>1, <2>2, <2>4
  <2>6. QED BY <1>1, <2>1, <2>3, <2>4, <2>5 DEF Flow
<1>6. QED BY <1>4, <1>5 DEF Flows

\* A completion is processed: a chunk is the next one, the end of file comes
\* when every chunk has been seen.
LEMMA ReapFlows ==
    ASSUME Readers, Flows, Reap
    PROVE  Flows'
<1>1. /\ TypeOK /\ Queues /\ cq \in Seq(Cqe) /\ cq # <<>>
      /\ Process(Head(cq)) /\ cq' = Tail(cq)
      /\ UNCHANGED <<reader, armed, arrived, got>>
  BY DEF Readers, TypeOK, Reap
<1>2. /\ Head(cq) \in Cqe /\ Proper(Head(cq))
      /\ \A t : Tells(cq, t) <=> Tells(cq', t) \/ Head(cq).s = t
  BY <1>1, TellTail DEF Queues
<1>3. PICK e \in Cqe : e = Head(cq)
  BY <1>2
<1>4. PICK s \in Streams : s = e.s
  BY DEF Cqe
<1>5. /\ \A t \in Streams \ {s} : rf'[t] = rf[t]
      /\ rf'[s].initiated = e.more
      /\ rf'[s].buffers = BuffersAfter(e)
  BY <1>1, <1>3, <1>4, ProcessFrame
<1>6. ASSUME NEW t \in Streams, t # s PROVE Flow(t)'
  <2>1. Flow(t) /\ Brings(cq, t, Seen(t), arrived[t])
    BY DEF Flows, Flow
  <2>2. Brings(cq', t, Seen(t), arrived[t])
    BY <1>1, <1>3, <1>4, <1>6, <2>1, BringsTail
  <2>3. QED BY <1>1, <1>5, <1>6, <2>1, <2>2, FlowElsewhere DEF Flow
<1>7. /\ Flow(s) /\ Under(s) /\ Tells(cq, s)
  BY <1>2, <1>3, <1>4 DEF Flows, Readers
<1>8. rf[s].initiated /\ ~AtEnd(s) /\ ~Zero(got[s]) /\ ~Zero(rf[s].buffers)
  BY <1>7 DEF Under, Flow, AtEnd
<1> DEFINE a == got[s]
           b == rf[s].buffers
<1>9. /\ a \in Seq(Nat) /\ b \in Seq(Nat) /\ Len(a) \in Nat /\ Len(b) \in Nat
      /\ arrived[s] \in Nat /\ Seen(s) \in Nat
  BY <1>1, FlowTypes
<1>10. Seen(s) = Len(a) + Len(b)
  BY <1>8, <1>9 DEF Seen, Bit
<1>11. /\ Brings(cq, s, Seen(s), arrived[s]) /\ Seen(s) <= arrived[s]
       /\ Counts(a, 0) /\ Counts(b, Len(a))
  BY <1>7 DEF Flow
<1>12. e.n \in Nat /\ (e.kind = "data" => e.n > 0)
       /\ (e.kind # "data" => e.n = 0 /\ ~e.more)
  <2>1. e.n \in 0..MaxData
    BY DEF Cqe
  <2>2. QED BY <1>2, <1>3, <2>1, RecvAssumption DEF Proper
<1>13. CASE e.kind \in Errors
  <2>1. rf'[s].buffers = rf[s].buffers
    BY <1>4, <1>5, <1>13 DEF BuffersAfter
  <2>2. e.kind # "data"
    BY <1>13 DEF Errors
  <2>3. Brings(cq', s, Seen(s), arrived[s])
    BY <1>1, <1>3, <1>11, <2>2, BringsTail
  <2>4. Flow(s)'
    BY <1>1, <1>7, <1>8, <2>1, <2>3, FlowElsewhere
  <2>5. QED BY <1>6, <2>4 DEF Flows
<1>14. CASE e.kind \notin Errors
  <2>1. rf'[s].buffers = Append(b, e.n) /\ got'[s] = a
    BY <1>1, <1>4, <1>5, <1>14 DEF BuffersAfter
  <2>2. e.kind = "data" => /\ e.n = Seen(s) + 1 /\ Seen(s) + 1 <= arrived[s]
                           /\ Brings(cq', s, Seen(s) + 1, arrived[s])
    BY <1>1, <1>3, <1>4, <1>9, <1>11, BringsFirst
  <2>3. e.kind # "data" => Brings(cq', s, Seen(s), arrived[s])
    BY <1>1, <1>3, <1>11, BringsTail
  <2>4. ~Zero(a) /\ ~Zero(b) /\ Tidy(b) /\ rf'[s].initiated = e.more
    BY <1>5, <1>7, <1>8 DEF Under
  <2> HIDE DEF a, b
  <2>5. e.n = (Len(a) + Len(b)) + 1 \/ e.n = 0
    BY <1>9, <1>10, <1>12, <2>2
  <2>6. Counts(Append(b, e.n), Len(a)) /\ Len(Append(b, e.n)) = Len(b) + 1
    BY <1>9, <1>11, <1>12, <2>4, <2>5, CountsAppend
  <2>7. Zero(Append(b, e.n)) <=> e.n = 0
    BY <1>9, <1>12, <2>4, TidyAppend
  <2>8. AtEnd(s)' <=> e.n = 0
    BY <2>1, <2>4, <2>7 DEF AtEnd
  <2>9. Seen(s)' = (Len(a) + (Len(b) + 1)) - Bit(e.n = 0)
    BY <2>1, <2>6, <2>8 DEF Seen, Bit
  <2>10. CASE e.kind = "data"
    <3>1. e.n # 0 /\ Bit(e.n = 0) = 0
      BY <1>12, <2>10 DEF Bit
    <3>2. Seen(s)' = Seen(s) + 1
      BY <1>9, <1>10, <2>9, <3>1
    <3>3. Seen(s)' <= arrived'[s] /\ Brings(cq', s, Seen(s)', arrived'[s])
      BY <1>1, <2>2, <2>10, <3>2
    <3>4. Flow(s)'
      BY <1>11, <2>1, <2>4, <2>6, <2>8, <3>1, <3>3 DEF Flow
    <3>5. QED BY <1>6, <3>4 DEF Flows
  <2>11. CASE e.kind # "data"
    <3>1. e.n = 0 /\ Bit(e.n = 0) = 1 /\ ~e.more
      BY <1>12, <2>11 DEF Bit
    <3>2. Seen(s)' = Seen(s)
      BY <1>9, <1>10, <2>9, <3>1
    <3>3. Seen(s)' <= arrived'[s] /\ Brings(cq', s, Seen(s)', arrived'[s])
      BY <1>1, <1>11, <2>3, <2>11, <3>2
    <3>4. Flow(s)'
      BY <1>11, <2>1, <2>4, <2>6, <3>1, <3>3 DEF Flow
    <3>5. QED BY <1>6, <3>4 DEF Flows
  <2>12. QED BY <2>10, <2>11
<1>15. QED BY <1>13, <1>14

\* Every step keeps the data in order.
LEMMA NextFlows == Readers /\ Flows /\ [Next]_vars => Flows'
<1> SUFFICES ASSUME Readers, Flows, [Next]_vars PROVE Flows'
  OBVIOUS
<1>1. ASSUME UserStep PROVE Flows'
  BY <1>1, QuietStepFlows, ReturnFlows DEF UserStep
<1>2. ASSUME LoopStep PROVE Flows'
  BY <1>2, QuietStepFlows, ReturnFlows, EndedFlows, ReapFlows DEF LoopStep
<1>3. ASSUME KernelStep PROVE Flows'
  BY <1>3, KernelReceivesFlows, EndedFlows DEF KernelStep
<1>4. ASSUME NEW s \in Streams, TimerStrikes(s) PROVE Flows'
  BY <1>4, QuietStepFlows
<1>5. ASSUME UNCHANGED vars PROVE Flows'
  BY <1>5, QuietFlows DEF vars, frameVars, kernVars
<1>6. QED BY <1>1, <1>2, <1>3, <1>4, <1>5 DEF Next

\* The data are in order in every reachable state.
LEMMA FlowsHold == Spec => [](Readers /\ Flows)
<1>1. Init => Readers /\ Flows
  BY InitReaders, InitFlows
<1>2. (Readers /\ Flows) /\ [Next]_vars => (Readers /\ Flows)'
  BY NextReaders, NextFlows
<1>3. QED BY <1>1, <1>2, PTL DEF Spec

-----------------------------------------------------------------------------
(* The refinement of Channel.                                              *)

\* A completion reports the end of file of s.
EofIn(q, s) == \E i \in 1..Len(q) : q[i].s = s /\ q[i].kind = "eof"

\* Such a completion comes and goes.
LEMMA EofAppend ==
    ASSUME NEW q \in Seq(Cqe), NEW e \in Cqe
    PROVE  \A s : EofIn(Append(q, e), s) <=>
                     EofIn(q, s) \/ (e.s = s /\ e.kind = "eof")
<1> DEFINE a == Append(q, e)
<1>1. /\ Len(a) = Len(q) + 1 /\ Len(q) \in Nat
      /\ \A i \in 1..Len(q) : a[i] = q[i]
      /\ a[Len(q) + 1] = e
  OBVIOUS
<1> HIDE DEF a
<1>2. /\ \A i \in 1..Len(a) : i \in 1..Len(q) \/ i = Len(q) + 1
      /\ \A i \in 1..Len(q) : i \in 1..Len(a)
      /\ Len(q) + 1 \in 1..Len(a)
  BY <1>1
<1>3. \A s : EofIn(a, s) <=> EofIn(q, s) \/ (e.s = s /\ e.kind = "eof")
  BY <1>1, <1>2 DEF EofIn
<1>4. QED BY <1>3 DEF a

LEMMA EofTail ==
    ASSUME NEW q \in Seq(Cqe), q # <<>>
    PROVE  \A s : EofIn(q, s) <=>
                     EofIn(Tail(q), s) \/ (Head(q).s = s /\ Head(q).kind = "eof")
<1> DEFINE a == Tail(q)
<1>1. /\ Len(q) = Len(a) + 1 /\ Len(a) \in Nat
      /\ \A i \in 1..Len(a) : a[i] = q[i + 1]
      /\ Head(q) = q[1]
  OBVIOUS
<1> HIDE DEF a
<1>2. /\ \A i \in 1..Len(a) : i + 1 \in 1..Len(q)
      /\ 1 \in 1..Len(q)
      /\ \A i \in 1..Len(q) : i = 1 \/ (i - 1 \in 1..Len(a) /\ a[i - 1] = q[i])
  BY <1>1
<1>3. \A s : EofIn(q, s) <=> EofIn(a, s) \/ (Head(q).s = s /\ Head(q).kind = "eof")
  BY <1>1, <1>2 DEF EofIn
<1>4. QED BY <1>3 DEF a

\* What the mapping makes of the data of a stream.
LEMMA Shape ==
    ASSUME NEW b \in Seq(Nat), NEW g \in Seq(Nat), Tidy(b), Counts(g, 0)
    PROVE  /\ 0 \in ToSet(b \o g) <=> Zero(b) \/ Zero(g)
           /\ 0 \in ToSet(g) <=> Zero(g)
           /\ Len(g) - Bit(Zero(g)) \in Nat
           /\ Data(g) = [i \in 1..Len(g) - Bit(Zero(g)) |-> i]
           /\ Len(Data(g)) = Len(g) - Bit(Zero(g))
<1>1. Tidy(g)
  BY CountsTidy
<1>2. (0 \in ToSet(b) <=> Zero(b)) /\ (0 \in ToSet(g) <=> Zero(g))
  BY <1>1, ZeroInSet
<1>3. 0 \in ToSet(b \o g) <=> 0 \in ToSet(b) \/ 0 \in ToSet(g)
  <2> DEFINE c == b \o g
  <2>1. /\ Len(c) = Len(b) + Len(g) /\ Len(b) \in Nat /\ Len(g) \in Nat
        /\ DOMAIN c = 1..Len(c) /\ DOMAIN b = 1..Len(b) /\ DOMAIN g = 1..Len(g)
        /\ \A i \in 1..Len(b) : c[i] = b[i]
        /\ \A i \in 1..Len(g) : c[Len(b) + i] = g[i]
        /\ \A i \in 1..Len(b) + Len(g) : i > Len(b) =>
              i - Len(b) \in 1..Len(g) /\ c[i] = g[i - Len(b)]
    <3>1. c \in Seq(Nat)
      BY Joined
    <3>2. DOMAIN c = 1..Len(c) /\ DOMAIN b = 1..Len(b) /\ DOMAIN g = 1..Len(g)
      BY <3>1
    <3>3. QED BY <3>2, Joined
  <2> HIDE DEF c
  <2>2. 0 \in ToSet(b) => 0 \in ToSet(c)
    <3>1. \A i \in 1..Len(b) : i \in 1..Len(c)
      BY <2>1
    <3>2. QED BY <2>1, <3>1 DEF ToSet
  <2>3. ASSUME 0 \in ToSet(g) PROVE 0 \in ToSet(c)
    <3>1. PICK i \in 1..Len(g) : g[i] = 0
      BY <2>1, <2>3 DEF ToSet
    <3>2. Len(b) + i \in 1..Len(c) /\ c[Len(b) + i] = 0
      BY <2>1, <3>1
    <3>3. QED BY <2>1, <3>2 DEF ToSet
  <2>4. ASSUME 0 \in ToSet(c) PROVE 0 \in ToSet(b) \/ 0 \in ToSet(g)
    <3>1. PICK i \in 1..Len(c) : c[i] = 0
      BY <2>1, <2>4 DEF ToSet
    <3>2. CASE i \in 1..Len(b)
      BY <2>1, <3>1, <3>2 DEF ToSet
    <3>3. CASE i > Len(b)
      <4>1. i - Len(b) \in 1..Len(g) /\ g[i - Len(b)] = 0
        BY <2>1, <3>1, <3>3
      <4>2. QED BY <2>1, <4>1 DEF ToSet
    <3>4. QED BY <2>1, <3>2, <3>3
  <2>5. QED BY <2>2, <2>3, <2>4 DEF c
<1>4. /\ Data(g) \in Seq(Nat) /\ Len(Data(g)) \in Nat
      /\ Len(Data(g)) = Len(g) - Bit(Zero(g))
      /\ \A i \in 1..Len(Data(g)) : i \in 1..Len(g) /\ Data(g)[i] = g[i]
  BY <1>1, DataOf
<1>5. Data(g) = [i \in 1..Len(Data(g)) |-> i]
  <2> DEFINE d == Data(g)
  <2>1. \A i \in 1..Len(d) : d[i] = i
    <3> SUFFICES ASSUME NEW i \in 1..Len(d) PROVE d[i] = i
      OBVIOUS
    <3>1. i \in 1..Len(g) /\ d[i] = g[i] /\ i \in Nat
      BY <1>4
    <3>2. g[i] = 0 + i \/ (g[i] = 0 /\ i = Len(g))
      BY <3>1 DEF Counts
    <3>3. CASE g[i] = 0 /\ i = Len(g)
      <4>1. Zero(g)
        BY <3>1, <3>3 DEF Zero
      <4>2. Len(d) = Len(g) - 1
        BY <1>4, <4>1 DEF Bit
      <4>3. QED BY <1>4, <3>1, <3>3, <4>2
    <3>4. QED BY <3>1, <3>2, <3>3
  <2> HIDE DEF d
  <2>2. d \in Seq(Nat)
    BY <1>4 DEF d
  <2>3. d = [i \in 1..Len(d) |-> i]
    BY <2>1, <2>2
  <2>4. QED BY <2>3 DEF d
<1>6. QED BY <1>2, <1>3, <1>4, <1>5

\* The mapping in a state and in its successor.
LEMMA Mapping ==
    ASSUME Readers, Flows, NEW s \in Streams
    PROVE  /\ EndSeen(s) <=> EofIn(cq, s) \/ Zero(rf[s].buffers) \/ Zero(got[s])
           /\ 0 \in ToSet(got[s]) <=> Zero(got[s])
           /\ Len(got[s]) - Bit(Zero(got[s])) \in Nat
           /\ Data(got[s]) = [i \in 1..Len(got[s]) - Bit(Zero(got[s])) |-> i]
           /\ Len(Data(got[s])) = Len(got[s]) - Bit(Zero(got[s]))
<1>1. rf[s].buffers \in Seq(Nat) /\ got[s] \in Seq(Nat)
  BY FlowTypes DEF Readers
<1>2. Tidy(rf[s].buffers) /\ Counts(got[s], 0)
  BY DEF Readers, Under, Flows, Flow
<1>3. QED BY <1>1, <1>2, Shape DEF EndSeen, EofIn

LEMMA MappingNext ==
    ASSUME Readers', Flows', NEW s \in Streams
    PROVE  /\ EndSeen(s)' <=> EofIn(cq', s) \/ Zero(rf'[s].buffers) \/ Zero(got'[s])
           /\ 0 \in ToSet(got'[s]) <=> Zero(got'[s])
           /\ Data(got'[s]) = [i \in 1..Len(got'[s]) - Bit(Zero(got'[s])) |-> i]
<1>1. rf'[s].buffers \in Seq(Nat) /\ got'[s] \in Seq(Nat)
  <2>1. got'[s] \in Seq(0..MaxData) /\ rf'[s].buffers \in Seq(0..MaxData)
    BY DEF Readers, TypeOK, Frame
  <2>2. \A q \in Seq(0..MaxData) : q \in Seq(Nat)
    BY RecvAssumption
  <2>3. QED BY <2>1, <2>2
<1>2. Tidy(rf'[s].buffers) /\ Counts(got'[s], 0)
  BY DEF Readers, Under, Flows, Flow
<1>3. QED BY <1>1, <1>2, Shape DEF EndSeen, EofIn

\* A step that is none of the channel.
LEMMA Stutters ==
    ASSUME \A t \in Streams : (EndSeen(t)' <=> EndSeen(t)) /\ got'[t] = got[t],
           arrived' = arrived
    PROVE  UNCHANGED Abstract!vars
<1>1. [t \in Streams |-> EndSeen(t)]' = [t \in Streams |-> EndSeen(t)]
  BY DEF EndSeen
<1>2. [t \in Streams |-> Data(got[t])]' = [t \in Streams |-> Data(got[t])]
  OBVIOUS
<1>3. [t \in Streams |-> 0 \in ToSet(got[t])]' = [t \in Streams |-> 0 \in ToSet(got[t])]
  OBVIOUS
<1>4. QED BY <1>1, <1>2, <1>3 DEF Abstract!vars

\* The channel is empty when the program starts.
LEMMA InitRefines == Init => Abstract!Init
<1> SUFFICES ASSUME Init PROVE Abstract!Init
  OBVIOUS
<1>1. ASSUME NEW s \in Streams
      PROVE  ~EndSeen(s) /\ Data(got[s]) = <<>> /\ 0 \notin ToSet(got[s])
  <2>1. PICK g \in Groups :
           rf[s] = [buffers |-> <<>>, ec |-> NoError, h |-> FALSE,
                    initiated |-> FALSE, group |-> g, ring |-> g]
    BY DEF Init
  <2>2. rf[s].buffers = <<>> /\ got[s] = <<>> /\ cq = <<>>
    BY <2>1 DEF Init
  <2>3. 0 \notin ToSet(got[s]) /\ 0 \notin ToSet(rf[s].buffers \o got[s])
    BY <2>2 DEF ToSet
  <2>4. Data(got[s]) = <<>>
    BY <2>2 DEF Data
  <2>5. QED BY <2>2, <2>3, <2>4 DEF EndSeen
<1>2. [s \in Streams |-> EndSeen(s)] = [s \in Streams |-> FALSE]
  <2>1. \A s \in Streams : EndSeen(s) = FALSE
    BY <1>1 DEF EndSeen
  <2>2. QED BY <2>1
<1>3. [s \in Streams |-> Data(got[s])] = [s \in Streams |-> <<>>]
  BY <1>1
<1>4. [s \in Streams |-> 0 \in ToSet(got[s])] = [s \in Streams |-> FALSE]
  <2>1. \A s \in Streams : (0 \in ToSet(got[s])) = FALSE
    BY <1>1
  <2>2. QED BY <2>1
<1>5. arrived = [s \in Streams |-> 0]
  BY DEF Init
<1>6. QED BY <1>2, <1>3, <1>4, <1>5 DEF Abstract!Init

\* The steps that touch no data are none of the channel.
LEMMA QuietRefines ==
    ASSUME UNCHANGED <<cq, arrived, got>>,
           \A t \in Streams : rf'[t].buffers = rf[t].buffers
    PROVE  UNCHANGED Abstract!vars
<1>1. \A t \in Streams : EndSeen(t)' <=> EndSeen(t)
  BY DEF EndSeen
<1>2. QED BY <1>1, Stutters

\* A receive the kernel holds has not come to the end.
LEMMA OpenWhileArmed ==
    ASSUME Readers, Flows, NEW s \in Streams, s \in armed
    PROVE  ~EndSeen(s)
<1>1. Under(s) /\ Flow(s) /\ Queues
  BY DEF Readers, Flows
<1>2. ~Stops(cq, s) /\ rf[s].initiated
  BY <1>1 DEF Under
<1>3. ~EofIn(cq, s)
  <2>1. \A i \in 1..Len(cq) : cq[i].kind = "eof" => ~cq[i].more
    BY <1>1 DEF Queues, Proper
  <2>2. QED BY <1>2, <2>1 DEF EofIn, Stops
<1>4. ~Zero(rf[s].buffers) /\ ~Zero(got[s])
  BY <1>1, <1>2 DEF Flow, AtEnd
<1>5. QED BY <1>3, <1>4, Mapping

\* A chunk that arrives is sent on the channel.
LEMMA KernelReceivesRefines ==
    ASSUME Readers, Flows, Readers', Flows', NEW s \in Streams, KernelReceives(s)
    PROVE  Abstract!Send(s)
<1>1. /\ s \in armed /\ UNCHANGED <<rf, got>> /\ cq \in Seq(Cqe)
      /\ arrived \in [Streams -> 0..MaxData]
  BY DEF KernelReceives, frameVars, Readers, TypeOK
<1>2. PICK e \in Cqe : cq' = Append(cq, e) /\ e.kind = "data"
  BY KernelReceivesReaders
<1>3. /\ arrived[s] + 1 \in 0..MaxData
      /\ arrived' = [arrived EXCEPT ![s] = arrived[s] + 1]
  BY KernelReceivesReaders
<1>4. ~EndSeen(s)
  BY <1>1, OpenWhileArmed
<1>5. \A t \in Streams : EofIn(cq', t) <=> EofIn(cq, t)
  BY <1>1, <1>2, EofAppend
<1>6. \A t \in Streams : EndSeen(t)' <=> EndSeen(t)
  BY <1>1, <1>5, Mapping, MappingNext
<1>7. [t \in Streams |-> EndSeen(t)]' = [t \in Streams |-> EndSeen(t)]
  BY <1>6 DEF EndSeen
<1>8. arrived[s] + 1 \in arrived[s] + 1..MaxData
  BY <1>1, <1>3, RecvAssumption
<1>9. [t \in Streams |-> EndSeen(t)][s] = FALSE
  BY <1>4 DEF EndSeen
<1>10. UNCHANGED <<[t \in Streams |-> EndSeen(t)],
                   [t \in Streams |-> Data(got[t])],
                   [t \in Streams |-> 0 \in ToSet(got[t])]>>
  BY <1>1, <1>7
<1>11. QED BY <1>3, <1>8, <1>9, <1>10 DEF Abstract!Send

\* The end of file closes it, a lack of buffers does not.
LEMMA KernelEndsRefines ==
    ASSUME Readers, Flows, Readers', Flows', NEW s \in Streams, KernelEnds(s)
    PROVE  Abstract!Close(s) \/ UNCHANGED Abstract!vars
<1>1. /\ s \in armed /\ UNCHANGED <<rf, got, arrived>> /\ cq \in Seq(Cqe)
  BY DEF KernelEnds, frameVars, Readers, TypeOK
<1>2. PICK kind \in {"eof"} \cup Errors : cq' = Append(cq, Ended(s, kind))
  BY DEF KernelEnds, Errors
<1>3. /\ Ended(s, kind) \in Cqe /\ Ended(s, kind).s = s
      /\ Ended(s, kind).kind = kind
  BY EndedProper
<1>4. \A t \in Streams : EofIn(cq', t) <=> EofIn(cq, t) \/ (s = t /\ kind = "eof")
  BY <1>1, <1>2, <1>3, EofAppend
<1>5. \A t \in Streams : EndSeen(t)' <=> EndSeen(t) \/ (s = t /\ kind = "eof")
  BY <1>1, <1>4, Mapping, MappingNext
<1>6. CASE kind # "eof"
  BY <1>1, <1>5, <1>6, Stutters
<1>7. CASE kind = "eof"
  <2>1. [t \in Streams |-> EndSeen(t)][s] = FALSE
    BY <1>1, OpenWhileArmed DEF EndSeen
  <2>2. [t \in Streams |-> EndSeen(t)]'
           = [[t \in Streams |-> EndSeen(t)] EXCEPT ![s] = TRUE]
    BY <1>5, <1>7 DEF EndSeen
  <2>3. UNCHANGED <<arrived, [t \in Streams |-> Data(got[t])],
                    [t \in Streams |-> 0 \in ToSet(got[t])]>>
    BY <1>1
  <2>4. QED BY <2>1, <2>2, <2>3 DEF Abstract!Close
<1>8. QED BY <1>6, <1>7

\* A request the kernel takes says nothing about the data.
LEMMA KernelTakesRefines ==
    ASSUME Readers, Flows, Readers', Flows', KernelTakes
    PROVE  UNCHANGED Abstract!vars
<1>1. UNCHANGED <<rf, got, arrived>> /\ cq \in Seq(Cqe) /\ sq \in Seq(Sqe) /\ sq # <<>>
  BY DEF KernelTakes, frameVars, Readers, TypeOK
<1>2. Head(sq) \in Sqe
  BY <1>1
<1>3. PICK s \in Streams : s = Head(sq).s
  BY <1>2 DEF Sqe
<1>4. cq' = cq \/ cq' = Append(cq, Ended(s, "ECANCELED"))
  BY <1>3 DEF KernelTakes
<1>5. Ended(s, "ECANCELED") \in Cqe /\ Ended(s, "ECANCELED").kind # "eof"
  BY EndedProper DEF Errors
<1>6. \A t \in Streams : EofIn(cq', t) <=> EofIn(cq, t)
  <2>1. \A t : EofIn(Append(cq, Ended(s, "ECANCELED")), t) <=> EofIn(cq, t)
    BY <1>1, <1>5, EofAppend
  <2>2. QED BY <1>4, <2>1
<1>7. \A t \in Streams : EndSeen(t)' <=> EndSeen(t)
  BY <1>1, <1>6, Mapping, MappingNext
<1>8. QED BY <1>1, <1>7, Stutters

\* The end of file moves from the completion to the frame.
LEMMA ReapRefines ==
    ASSUME Readers, Flows, Readers', Flows', Reap
    PROVE  UNCHANGED Abstract!vars
<1>1. /\ TypeOK /\ Queues /\ cq \in Seq(Cqe) /\ cq # <<>>
      /\ Process(Head(cq)) /\ cq' = Tail(cq) /\ UNCHANGED <<arrived, got>>
  BY DEF Readers, TypeOK, Reap
<1>2. /\ Head(cq) \in Cqe /\ Proper(Head(cq)) /\ \A t : Head(cq).s = t => Tells(cq, t)
  BY <1>1, TellTail DEF Queues
<1>3. PICK e \in Cqe : e = Head(cq)
  BY <1>2
<1>4. PICK s \in Streams : s = e.s
  BY DEF Cqe
<1>5. /\ \A t \in Streams \ {s} : rf'[t] = rf[t]
      /\ rf'[s].buffers = BuffersAfter(e)
  BY <1>1, <1>3, <1>4, ProcessFrame
<1>6. Under(s) /\ Tells(cq, s)
  BY <1>2, <1>3, <1>4 DEF Readers
<1>7. ~Zero(rf[s].buffers) /\ Tidy(rf[s].buffers)
  BY <1>6 DEF Under
<1>8. Zero(rf'[s].buffers) <=> e.kind = "eof"
  <2>1. CASE e.kind \in Errors
    BY <1>4, <1>5, <1>7, <2>1 DEF BuffersAfter, Errors
  <2>2. CASE e.kind \notin Errors
    <3>1. rf'[s].buffers = Append(rf[s].buffers, e.n)
      BY <1>4, <1>5, <2>2 DEF BuffersAfter
    <3>2. e.n \in 0..MaxData /\ e.kind \in {"data", "eof"}
      BY <2>2 DEF Cqe
    <3>3. e.n = 0 <=> e.kind = "eof"
      BY <1>2, <1>3, <3>2 DEF Proper
    <3>4. rf[s].buffers \in Seq(0..MaxData)
      BY <1>1 DEF TypeOK, Frame
    <3>5. Zero(Append(rf[s].buffers, e.n)) <=> e.n = 0
      BY <1>7, <3>2, <3>4, TidyAppend
    <3>6. QED BY <3>1, <3>3, <3>5
  <2>3. QED BY <2>1, <2>2
<1>9. \A t \in Streams : EofIn(cq, t) <=> EofIn(cq', t) \/ (s = t /\ e.kind = "eof")
  BY <1>1, <1>3, <1>4, EofTail
<1>10. ASSUME NEW t \in Streams PROVE EndSeen(t)' <=> EndSeen(t)
  <2>1. EndSeen(t) <=> EofIn(cq, t) \/ Zero(rf[t].buffers) \/ Zero(got[t])
    BY Mapping
  <2>2. EndSeen(t)' <=> EofIn(cq', t) \/ Zero(rf'[t].buffers) \/ Zero(got[t])
    BY <1>1, MappingNext
  <2>3. QED BY <1>5, <1>7, <1>8, <1>9, <2>1, <2>2
<1>11. QED BY <1>1, <1>10, Stutters

\* What async_recv returns is received, the end of file after the last chunk.
LEMMA ReturnsRefines ==
    ASSUME Readers, Flows, Readers', Flows', NEW s \in Streams, NEW h \in BOOLEAN,
           RecvReturns(s, h), reader[s] \in {"idle", "waiting"},
           UNCHANGED <<cq, arrived>>
    PROVE  Abstract!Receive(s) \/ UNCHANGED Abstract!vars
<1>1. /\ ~Zero(got[s])
      /\ \A t \in Streams \ {s} : got'[t] = got[t] /\ rf'[t] = rf[t]
      /\ rf[s].buffers = <<>> => got' = got
      /\ rf[s].buffers # <<>> =>
            got' = [got EXCEPT ![s] = got[s] \o rf[s].buffers]
      /\ rf'[s].buffers = <<>>
  BY ReturnsFlows
<1>2. CASE rf[s].buffers = <<>>
  <2>1. \A t \in Streams : rf'[t].buffers = rf[t].buffers
    BY <1>1, <1>2
  <2>2. QED BY <1>1, <1>2, <2>1, QuietRefines
<1>3. CASE rf[s].buffers # <<>>
  <2> DEFINE a == got[s]
             b == rf[s].buffers
             n == Seen(s)
             last == Zero(b)
  <2>1. TypeOK /\ Flow(s) /\ Under(s)
    BY DEF Readers, Flows
  <2>2. /\ a \in Seq(Nat) /\ b \in Seq(Nat) /\ Len(a) \in Nat /\ Len(b) \in Nat
        /\ arrived[s] \in Nat /\ n \in Nat
    BY <2>1, FlowTypes
  <2>3. /\ ~Zero(a) /\ b # <<>> /\ Counts(a, 0) /\ Counts(b, Len(a))
        /\ n = (Len(a) + Len(b)) - Bit(last) /\ n <= arrived[s]
    BY <1>1, <1>3, <2>1 DEF Flow, Seen, AtEnd, Bit
  <2>4. got'[s] = a \o b
    BY <1>1, <1>3, <2>1 DEF TypeOK
  <2>5. last => n = arrived[s]
    <3>1. ASSUME last PROVE ~Tells(cq, s)
      <4>1. ~rf[s].initiated
        BY <2>1, <3>1 DEF Flow, AtEnd
      <4>2. QED BY <2>1, <4>1 DEF Under
    <3>2. cq \in Seq(Cqe) /\ Brings(cq, s, n, arrived[s])
      BY <2>1 DEF TypeOK, Flow
    <3>3. QED BY <2>2, <2>3, <3>1, <3>2, BringsNone
  <2>6. last => EndSeen(s)
    BY Mapping
  <2>7. Data(a) = [i \in 1..Len(a) |-> i] /\ Len(Data(a)) = Len(a) /\ 0 \notin ToSet(a)
    <3>1. Len(a) - Bit(Zero(a)) = Len(a)
      BY <2>2, <2>3 DEF Bit
    <3>2. /\ 0 \in ToSet(a) <=> Zero(a)
          /\ Data(a) = [i \in 1..Len(a) - Bit(Zero(a)) |-> i]
          /\ Len(Data(a)) = Len(a) - Bit(Zero(a))
      BY Mapping
    <3>3. QED BY <2>3, <3>1, <3>2
  <2>8. /\ EndSeen(s)' <=> EndSeen(s)
        /\ 0 \in ToSet(got'[s]) <=> last
        /\ Data(got'[s]) = [i \in 1..n |-> i]
    <3>1. /\ EndSeen(s) <=> EofIn(cq, s) \/ last \/ Zero(a)
          /\ EndSeen(s)' <=> EofIn(cq, s) \/ Zero(rf'[s].buffers) \/ Zero(got'[s])
          /\ 0 \in ToSet(got'[s]) <=> Zero(got'[s])
          /\ Data(got'[s]) = [i \in 1..Len(got'[s]) - Bit(Zero(got'[s])) |-> i]
      BY Mapping, MappingNext
    <3>2. ~Zero(rf'[s].buffers)
      BY <1>1 DEF Zero
    <3> HIDE DEF a, b, n
    <3>3. (Zero(a \o b) <=> last) /\ Len(a \o b) = Len(a) + Len(b)
      BY <2>2, <2>3, CountsJoin
    <3>4. Len(got'[s]) - Bit(Zero(got'[s])) = n
      BY <2>3, <2>4, <3>3 DEF Bit
    <3>5. QED BY <2>3, <2>4, <3>1, <3>2, <3>3, <3>4
  <2>9. n \in Len(a)..arrived[s] /\ (n > Len(a) \/ last)
    <3> HIDE DEF a, b, n, last
    <3>1. Len(b) > 0
      BY <2>2, <2>3
    <3>2. QED BY <2>2, <2>3, <3>1 DEF Bit
  <2> DEFINE rec == [t \in Streams |-> Data(got[t])]
             end == [t \in Streams |-> EndSeen(t)]
             eof == [t \in Streams |-> 0 \in ToSet(got[t])]
  <2>10. rec[s] = Data(a) /\ (end[s] <=> EndSeen(s)) /\ ~eof[s]
    BY <2>7
  <2>11. rec' = [rec EXCEPT ![s] = [i \in 1..n |-> i]]
    BY <1>1, <2>8
  <2>12. eof' = [eof EXCEPT ![s] = last]
    <3>1. (0 \in ToSet(got'[s])) = last
      BY <2>8 DEF Zero
    <3>2. \A t \in Streams \ {s} : (0 \in ToSet(got'[t])) = (0 \in ToSet(got[t]))
      BY <1>1
    <3> HIDE DEF last
    <3>3. QED BY <3>1, <3>2
  <2>13. UNCHANGED <<arrived, end>>
    <3>1. \A t \in Streams : EndSeen(t)' <=> EndSeen(t)
      BY <1>1, <2>8 DEF EndSeen
    <3>2. QED BY <3>1 DEF EndSeen
  <2>14. last \in BOOLEAN
    BY DEF Zero
  <2>15. \E m \in Len(rec[s])..arrived[s], l \in BOOLEAN :
            /\ m > Len(rec[s]) \/ l
            /\ l => end[s] /\ m = arrived[s]
            /\ rec' = [rec EXCEPT ![s] = [i \in 1..m |-> i]]
            /\ eof' = [eof EXCEPT ![s] = l]
    <3>1. Len(rec[s]) = Len(a) /\ (last => end[s])
      BY <2>6, <2>7, <2>10
    <3> HIDE DEF rec, end, eof, a, b, n, last
    <3>2. QED BY <2>5, <2>9, <2>11, <2>12, <2>14, <3>1
  <2>16. Abstract!Receive(s)
    BY <2>10, <2>13, <2>15 DEF Abstract!Receive
  <2>17. QED BY <2>16
<1>4. QED BY <1>2, <1>3

\* Every step is one of the channel, or none.
LEMMA StepRefines ==
    Readers /\ Flows /\ Readers' /\ Flows' /\ [Next]_vars
        => [Abstract!Next]_(Abstract!vars)
<1> SUFFICES ASSUME Readers, Flows, Readers', Flows', [Next]_vars
             PROVE  Abstract!Next \/ UNCHANGED Abstract!vars
  OBVIOUS
<1>1. ASSUME \/ \E g \in Groups : Recycle(g)
             \/ \E s \in Streams : \/ RecvSuspends(s) \/ AsyncCancel(s)
                                   \/ DropStream(s) \/ TimerStrikes(s)
                                   \/ \E g \in Groups : SetBufferGroup(s, g)
             \/ SubmitFull \/ SubmitAndWait \/ SubmitDone \/ ReapDone
      PROVE  UNCHANGED Abstract!vars
  BY <1>1, QuietStepFlows, QuietRefines
<1>2. ASSUME Resume \/ \E s \in Streams : RecvAtOnce(s)
      PROVE  Abstract!Next \/ UNCHANGED Abstract!vars
  <2>1. UNCHANGED <<cq, arrived>>
    BY <1>2, ReturnFlows
  <2>2. PICK s \in Streams, h \in BOOLEAN :
           RecvReturns(s, h) /\ reader[s] \in {"idle", "waiting"}
    BY <1>2, ReturnFlows
  <2>3. QED BY <2>1, <2>2, ReturnsRefines DEF Abstract!Next
<1>3. ASSUME KernelStep PROVE Abstract!Next \/ UNCHANGED Abstract!vars
  BY <1>3, KernelReceivesRefines, KernelEndsRefines DEF KernelStep, Abstract!Next
<1>4. ASSUME KernelTakes \/ Reap PROVE UNCHANGED Abstract!vars
  BY <1>4, KernelTakesRefines, ReapRefines
<1>5. ASSUME UNCHANGED vars PROVE UNCHANGED Abstract!vars
  BY <1>5, QuietRefines DEF vars, frameVars, kernVars
<1>6. QED BY <1>1, <1>2, <1>3, <1>4, <1>5 DEF Next, UserStep, LoopStep

\* RefinesChannel: what async_recv returns is what the peer sent, in order,
\* without gap or repetition, and the end of file once and last.
THEOREM RefinesChannelHolds == Spec => RefinesChannel
<1>1. Init => Abstract!Init
  BY InitRefines
<1>2. Spec => [](Readers /\ Flows)
  BY FlowsHold
<1>3. Readers /\ Flows /\ Readers' /\ Flows' /\ [Next]_vars
         => [Abstract!Next]_(Abstract!vars)
  BY StepRefines
<1>4. QED BY <1>1, <1>2, <1>3, PTL DEF Spec, RefinesChannel, Abstract!Spec

-----------------------------------------------------------------------------
(* The ids of the rings.                                                   *)

\* What a sequence holds.
LEMMA InSet ==
    ASSUME NEW T, NEW q \in Seq(T)
    PROVE  /\ \A x : x \in ToSet(q) <=> \E i \in 1..Len(q) : q[i] = x
           /\ \A i \in 1..Len(q) : q[i] \in ToSet(q)
<1>1. DOMAIN q = 1..Len(q)
  OBVIOUS
<1>2. QED BY <1>1 DEF ToSet

LEMMA SetAppend ==
    ASSUME NEW T, NEW q \in Seq(T), NEW x \in T
    PROVE  /\ ToSet(Append(q, x)) = ToSet(q) \cup {x}
           /\ Inj(q) /\ x \notin ToSet(q) => Inj(Append(q, x))
<1> DEFINE a == Append(q, x)
<1>1. /\ a \in Seq(T) /\ Len(a) = Len(q) + 1 /\ Len(q) \in Nat
      /\ \A i \in 1..Len(q) : a[i] = q[i]
      /\ a[Len(q) + 1] = x
  OBVIOUS
<1> HIDE DEF a
<1>2. /\ \A i \in 1..Len(a) : i \in 1..Len(q) \/ i = Len(q) + 1
      /\ \A i \in 1..Len(q) : i \in 1..Len(a)
      /\ Len(q) + 1 \in 1..Len(a)
  BY <1>1
<1>3. \A y : (y \in ToSet(a) <=> \E i \in 1..Len(a) : a[i] = y)
             /\ (y \in ToSet(q) <=> \E i \in 1..Len(q) : q[i] = y)
  BY <1>1, InSet
<1>4. ToSet(a) = ToSet(q) \cup {x}
  BY <1>1, <1>2, <1>3
<1>5. ASSUME Inj(q), x \notin ToSet(q) PROVE Inj(a)
  BY <1>1, <1>2, <1>3, <1>5 DEF Inj
<1>6. QED BY <1>4, <1>5 DEF a

LEMMA SetTail ==
    ASSUME NEW T, NEW q \in Seq(T), q # <<>>
    PROVE  /\ ToSet(q) = ToSet(Tail(q)) \cup {Head(q)} /\ Head(q) \in T
           /\ Inj(q) => Inj(Tail(q)) /\ Head(q) \notin ToSet(Tail(q))
<1> DEFINE a == Tail(q)
<1>1. /\ a \in Seq(T) /\ Len(q) = Len(a) + 1 /\ Len(a) \in Nat
      /\ \A i \in 1..Len(a) : a[i] = q[i + 1]
      /\ Head(q) = q[1] /\ Head(q) \in T
  OBVIOUS
<1> HIDE DEF a
<1>2. /\ \A i \in 1..Len(a) : i + 1 \in 1..Len(q) /\ i + 1 # 1
      /\ 1 \in 1..Len(q)
      /\ \A i \in 1..Len(q) : i = 1 \/ (i - 1 \in 1..Len(a) /\ a[i - 1] = q[i])
      /\ \A i, j \in 1..Len(a) : i + 1 = j + 1 => i = j
  BY <1>1
<1>3. \A y : (y \in ToSet(a) <=> \E i \in 1..Len(a) : a[i] = y)
             /\ (y \in ToSet(q) <=> \E i \in 1..Len(q) : q[i] = y)
  BY <1>1, InSet
<1>4. ToSet(q) = ToSet(a) \cup {Head(q)}
  <2>1. ASSUME NEW y \in ToSet(q) PROVE y \in ToSet(a) \/ y = Head(q)
    BY <1>1, <1>2, <1>3
  <2>2. ASSUME NEW y \in ToSet(a) PROVE y \in ToSet(q)
    BY <1>1, <1>2, <1>3
  <2>3. Head(q) \in ToSet(q)
    BY <1>1, <1>2, <1>3
  <2>4. QED BY <2>1, <2>2, <2>3
<1>5. ASSUME Inj(q) PROVE Inj(a) /\ Head(q) \notin ToSet(a)
  <2>1. Inj(a)
    <3> SUFFICES ASSUME NEW i \in 1..Len(a), NEW j \in 1..Len(a), a[i] = a[j]
                 PROVE  i = j
      BY DEF Inj
    <3>1. i + 1 \in 1..Len(q) /\ j + 1 \in 1..Len(q) /\ q[i + 1] = q[j + 1]
      BY <1>1, <1>2
    <3>2. i + 1 = j + 1
      BY <1>5, <3>1 DEF Inj
    <3>3. QED BY <1>2, <3>2
  <2>2. ASSUME NEW i \in 1..Len(a), a[i] = Head(q) PROVE FALSE
    <3>1. i + 1 \in 1..Len(q) /\ i + 1 # 1 /\ 1 \in 1..Len(q) /\ q[i + 1] = q[1]
      BY <1>1, <1>2, <2>2
    <3>2. QED BY <1>5, <3>1 DEF Inj
  <2>3. QED BY <1>3, <2>1, <2>2
<1>6. QED BY <1>1, <1>4, <1>5 DEF a

\* The kernel takes a buffer from the ring.
LEMMA TakenApart ==
    ASSUME NEW r \in Seq(Ids), NEW k \in Seq(Ids), NEW N, Apart(r, k, N), r # <<>>
    PROVE  Apart(Tail(r), k, N \cup {Head(r)}) /\ Head(r) \notin N
<1>1. /\ ToSet(r) = ToSet(Tail(r)) \cup {Head(r)}
      /\ Inj(Tail(r)) /\ Head(r) \notin ToSet(Tail(r))
  BY SetTail DEF Apart
<1>2. QED BY <1>1 DEF Apart

\* Its completion is processed.
LEMMA StackedApart ==
    ASSUME NEW r \in Seq(Ids), NEW k \in Seq(Ids), NEW N, NEW x \in Ids,
           Apart(r, k, N \cup {x}), x \notin N
    PROVE  /\ Apart(r, Append(k, x), N)
           /\ ToSet(Append(k, x)) = ToSet(k) \cup {x}
<1>1. x \notin ToSet(k) /\ x \notin ToSet(r)
  BY DEF Apart
<1>2. ToSet(Append(k, x)) = ToSet(k) \cup {x} /\ Inj(Append(k, x))
  BY <1>1, SetAppend DEF Apart
<1>3. QED BY <1>1, <1>2 DEF Apart

\* The ids in back have gone back to the ring r, the ones in low are still on
\* the stack.
Restored(r, k, N, low, back) ==
    Apart(r \o back, low, N) /\ ToSet(low) = ToSet(k) \ ToSet(back)

\* The ids at the top of the stack go back to the ring.
LEMMA ReturnedApart ==
    ASSUME NEW r \in Seq(Ids), NEW k \in Seq(Ids), NEW N, Apart(r, k, N),
           NEW m \in Nat, m <= Len(k),
           NEW low, low = SubSeq(k, 1, Len(k) - m),
           NEW back, back = Reverse(SubSeq(k, (Len(k) - m) + 1, Len(k)))
    PROVE  Restored(r, k, N, low, back)
<1>1. /\ low \in Seq(Ids) /\ Len(low) = Len(k) - m
      /\ \A i \in 1..Len(low) : i \in 1..Len(k) /\ low[i] = k[i]
      /\ back \in Seq(Ids) /\ Len(back) = m
      /\ \A i \in 1..m : (Len(k) + 1) - i \in 1..Len(k)
                         /\ back[i] = k[(Len(k) + 1) - i]
  <2>1. Turned(Ids, k, m, low, back)
    BY TurnOver
  <2>2. QED BY <2>1 DEF Turned
<1>2. /\ Len(k) \in Nat /\ Len(k) - m \in Nat
      /\ \A i, j \in 1..m : (Len(k) + 1) - i = (Len(k) + 1) - j => i = j
      /\ \A i \in 1..m, j \in 1..Len(k) - m : (Len(k) + 1) - i # j
      /\ \A i \in 1..Len(k) : \/ i \in 1..Len(k) - m
                              \/ /\ (Len(k) + 1) - i \in 1..m
                                 /\ (Len(k) + 1) - ((Len(k) + 1) - i) = i
  OBVIOUS
<1>3. Inj(r) /\ Inj(k)
  BY DEF Apart
<1>4. Inj(low)
  BY <1>1, <1>3 DEF Inj
<1>5. Inj(back)
  <2> SUFFICES ASSUME NEW i \in 1..m, NEW j \in 1..m, back[i] = back[j]
               PROVE  i = j
    BY <1>1 DEF Inj
  <2>1. /\ (Len(k) + 1) - i \in 1..Len(k) /\ (Len(k) + 1) - j \in 1..Len(k)
        /\ k[(Len(k) + 1) - i] = k[(Len(k) + 1) - j]
    BY <1>1
  <2>2. (Len(k) + 1) - i = (Len(k) + 1) - j
    BY <1>3, <2>1 DEF Inj
  <2>3. QED BY <1>2, <2>2
<1>6. /\ \A y : y \in ToSet(low) <=> \E i \in 1..Len(low) : low[i] = y
      /\ \A y : y \in ToSet(back) <=> \E i \in 1..Len(back) : back[i] = y
      /\ \A y : y \in ToSet(k) <=> \E i \in 1..Len(k) : k[i] = y
      /\ \A y : y \in ToSet(r) <=> \E i \in 1..Len(r) : r[i] = y
  <2>1. \A q \in Seq(Ids) : \A y : y \in ToSet(q) <=> \E i \in 1..Len(q) : q[i] = y
    BY InSet
  <2>2. low \in Seq(Ids) /\ back \in Seq(Ids)
    BY <1>1
  <2>3. QED BY <2>1, <2>2, Zenon
<1>7. ToSet(low) \cap ToSet(back) = {}
  <2> SUFFICES ASSUME NEW y \in ToSet(low), y \in ToSet(back) PROVE FALSE
    OBVIOUS
  <2>1. PICK i \in 1..Len(low) : low[i] = y
    BY <1>6
  <2>2. PICK j \in 1..m : back[j] = y
    BY <1>1, <1>6
  <2>3. /\ i \in 1..Len(k) /\ (Len(k) + 1) - j \in 1..Len(k)
        /\ k[i] = k[(Len(k) + 1) - j]
    BY <1>1, <2>1, <2>2
  <2>4. i = (Len(k) + 1) - j
    BY <1>3, <2>3 DEF Inj
  <2>5. QED BY <1>1, <1>2, <2>4
<1>8. ToSet(low) \cup ToSet(back) = ToSet(k)
  <2>1. ToSet(low) \subseteq ToSet(k)
    BY <1>1, <1>6
  <2>2. ToSet(back) \subseteq ToSet(k)
    BY <1>1, <1>6
  <2>3. ASSUME NEW i \in 1..Len(k) PROVE k[i] \in ToSet(low) \cup ToSet(back)
    <3>1. CASE i \in 1..Len(k) - m
      BY <1>1, <1>6, <3>1
    <3>2. CASE /\ (Len(k) + 1) - i \in 1..m
               /\ (Len(k) + 1) - ((Len(k) + 1) - i) = i
      <4>1. back[(Len(k) + 1) - i] = k[i]
        BY <1>1, <3>2
      <4>2. QED BY <1>1, <1>6, <3>2, <4>1
    <3>3. QED BY <1>2, <3>1, <3>2
  <2>4. QED BY <1>6, <2>1, <2>2, <2>3
<1>9. ToSet(r) \cap ToSet(back) = {}
  BY <1>8 DEF Apart
<1> DEFINE c == r \o back
<1>10. /\ c \in Seq(Ids) /\ Len(c) = Len(r) + m /\ Len(r) \in Nat
       /\ \A i \in 1..Len(r) : i \in 1..Len(c) /\ c[i] = r[i]
       /\ \A i \in 1..m : Len(r) + i \in 1..Len(c) /\ c[Len(r) + i] = back[i]
       /\ \A i \in 1..Len(c) : \/ i \in 1..Len(r)
                               \/ /\ i - Len(r) \in 1..m
                                  /\ c[i] = back[i - Len(r)]
  <2>1. /\ c \in Seq(Ids) /\ Len(c) = Len(r) + m /\ Len(r) \in Nat
        /\ \A i \in 1..Len(r) : c[i] = r[i]
        /\ \A i \in 1..m : c[Len(r) + i] = back[i]
        /\ \A i \in 1..Len(r) + m : i > Len(r) =>
              i - Len(r) \in 1..m /\ c[i] = back[i - Len(r)]
    BY <1>1, Joined
  <2> HIDE DEF c
  <2>2. QED BY <2>1
<1> HIDE DEF c
<1>11. ToSet(c) = ToSet(r) \cup ToSet(back)
  <2>1. \A y : y \in ToSet(c) <=> \E i \in 1..Len(c) : c[i] = y
    <3>1. c \in Seq(Ids)
      BY <1>10
    <3>2. QED BY <3>1, InSet
  <2>2. ToSet(r) \subseteq ToSet(c)
    BY <1>6, <1>10, <2>1
  <2>3. ToSet(back) \subseteq ToSet(c)
    <3> SUFFICES ASSUME NEW y \in ToSet(back) PROVE y \in ToSet(c)
      OBVIOUS
    <3>1. PICK i \in 1..m : back[i] = y
      BY <1>1, <1>6
    <3>2. Len(r) + i \in 1..Len(c) /\ c[Len(r) + i] = back[i]
      BY <1>10
    <3>3. QED BY <2>1, <3>1, <3>2
  <2>4. ASSUME NEW i \in 1..Len(c) PROVE c[i] \in ToSet(r) \cup ToSet(back)
    <3>1. CASE i \in 1..Len(r)
      BY <1>6, <1>10, <3>1
    <3>2. CASE i - Len(r) \in 1..m /\ c[i] = back[i - Len(r)]
      BY <1>1, <1>6, <3>2
    <3>3. QED BY <1>10, <3>1, <3>2
  <2>5. QED BY <2>1, <2>2, <2>3, <2>4
<1>12. Inj(c)
  <2> SUFFICES ASSUME NEW i \in 1..Len(c), NEW j \in 1..Len(c), c[i] = c[j]
               PROVE  i = j
    BY DEF Inj
  <2>1. /\ \A x \in 1..Len(r) : r[x] \in ToSet(r)
        /\ \A x \in 1..m : back[x] \in ToSet(back)
    BY <1>1, <1>6
  <2>2. CASE i \in 1..Len(r) /\ j \in 1..Len(r)
    BY <1>3, <1>10, <2>2 DEF Inj
  <2>3. CASE i \in 1..Len(r) /\ j - Len(r) \in 1..m /\ c[j] = back[j - Len(r)]
    BY <1>9, <1>10, <2>1, <2>3
  <2>4. CASE j \in 1..Len(r) /\ i - Len(r) \in 1..m /\ c[i] = back[i - Len(r)]
    BY <1>9, <1>10, <2>1, <2>4
  <2>5. CASE /\ i - Len(r) \in 1..m /\ c[i] = back[i - Len(r)]
             /\ j - Len(r) \in 1..m /\ c[j] = back[j - Len(r)]
    <3>1. i - Len(r) = j - Len(r)
      BY <1>1, <1>5, <2>5 DEF Inj
    <3>2. QED BY <1>10, <3>1
  <2>6. QED BY <1>10, <2>2, <2>3, <2>4, <2>5
<1>13. Apart(c, low, N)
  BY <1>4, <1>7, <1>8, <1>9, <1>11, <1>12 DEF Apart
<1>14. ToSet(low) = ToSet(k) \ ToSet(back)
  BY <1>7, <1>8
<1>15. QED BY <1>13, <1>14 DEF Restored, c

\* A completion more names its buffer.
LEMMA NamedAppend ==
    ASSUME NEW q \in Seq(Cqe), NEW e \in Cqe, NEW f, NEW g
    PROVE  /\ ~Hit(e, f, g) =>
                 /\ Named(Append(q, e), f, g) = Named(q, f, g)
                 /\ Once(q, f, g) => Once(Append(q, e), f, g)
           /\ Hit(e, f, g) =>
                 /\ Named(Append(q, e), f, g) = Named(q, f, g) \cup {e.id}
                 /\ Once(q, f, g) /\ e.id \notin Named(q, f, g)
                       => Once(Append(q, e), f, g)
<1> DEFINE a == Append(q, e)
           z == Len(q) + 1
<1>1. /\ Len(a) = z /\ Len(q) \in Nat
      /\ \A i \in 1..Len(q) : a[i] = q[i]
      /\ a[z] = e
  OBVIOUS
<1>2. /\ \A i \in 1..Len(a) : i \in 1..Len(q) \/ i = z
      /\ \A i \in 1..Len(q) : i \in 1..Len(a)
      /\ z \in 1..Len(a)
  BY <1>1
<1> HIDE DEF a, z
<1>3. \A i : i \in Hits(a, f, g) <=> i \in Hits(q, f, g) \/ (i = z /\ Hit(e, f, g))
  BY <1>1, <1>2 DEF Hits
<1>4. \A i \in Hits(q, f, g) : a[i] = q[i]
  BY <1>1 DEF Hits
<1>5. ASSUME ~Hit(e, f, g)
      PROVE  Named(a, f, g) = Named(q, f, g) /\ (Once(q, f, g) => Once(a, f, g))
  <2>1. Hits(a, f, g) = Hits(q, f, g)
    BY <1>3, <1>5
  <2>2. QED BY <1>4, <2>1 DEF Named, Once
<1>6. ASSUME Hit(e, f, g)
      PROVE  /\ Named(a, f, g) = Named(q, f, g) \cup {e.id}
             /\ Once(q, f, g) /\ e.id \notin Named(q, f, g) => Once(a, f, g)
  <2>1. Hits(a, f, g) = Hits(q, f, g) \cup {z}
    BY <1>3, <1>6
  <2>2. QED BY <1>1, <1>4, <2>1 DEF Named, Once
<1>7. QED BY <1>5, <1>6 DEF a

\* The first completion is processed.
LEMMA NamedTail ==
    ASSUME NEW q \in Seq(Cqe), q # <<>>, NEW f, NEW g, Once(q, f, g)
    PROVE  /\ Once(Tail(q), f, g)
           /\ ~Hit(Head(q), f, g) => Named(Tail(q), f, g) = Named(q, f, g)
           /\ Hit(Head(q), f, g) =>
                 /\ Named(q, f, g) = Named(Tail(q), f, g) \cup {Head(q).id}
                 /\ Head(q).id \notin Named(Tail(q), f, g)
<1> DEFINE a == Tail(q)
<1>1. /\ Len(q) = Len(a) + 1 /\ Len(a) \in Nat
      /\ \A i \in 1..Len(a) : a[i] = q[i + 1]
      /\ Head(q) = q[1]
  OBVIOUS
<1> HIDE DEF a
<1>2. /\ \A i \in 1..Len(a) : i + 1 \in 1..Len(q) /\ i + 1 # 1
      /\ 1 \in 1..Len(q)
      /\ \A i \in 1..Len(q) :
            i = 1 \/ (i - 1 \in 1..Len(a) /\ a[i - 1] = q[i] /\ (i - 1) + 1 = i)
      /\ \A i, j \in 1..Len(a) : i + 1 = j + 1 => i = j
  BY <1>1
<1>3. \A i \in Hits(a, f, g) : /\ i + 1 \in Hits(q, f, g) /\ q[i + 1] = a[i]
                               /\ i \in 1..Len(a)
  BY <1>1, <1>2 DEF Hits
<1>4. \A i \in Hits(q, f, g) : i = 1 \/ (i - 1 \in Hits(a, f, g) /\ a[i - 1] = q[i])
  BY <1>1, <1>2 DEF Hits
<1>5. 1 \in Hits(q, f, g) <=> Hit(Head(q), f, g)
  BY <1>1, <1>2 DEF Hits
<1>6. Once(a, f, g)
  <2> SUFFICES ASSUME NEW i \in Hits(a, f, g), NEW j \in Hits(a, f, g),
                      a[i].id = a[j].id
               PROVE  i = j
    BY DEF Once
  <2>1. i + 1 = j + 1
    BY <1>3 DEF Once
  <2>2. QED BY <1>2, <1>3, <2>1
<1>7. Named(a, f, g) \subseteq Named(q, f, g)
  BY <1>3 DEF Named
<1>8. ASSUME ~Hit(Head(q), f, g) PROVE Named(q, f, g) \subseteq Named(a, f, g)
  BY <1>4, <1>5, <1>8 DEF Named
<1>9. ASSUME Hit(Head(q), f, g)
      PROVE  /\ Named(q, f, g) = Named(a, f, g) \cup {Head(q).id}
             /\ Head(q).id \notin Named(a, f, g)
  <2>1. Head(q).id \in Named(q, f, g)
    BY <1>1, <1>5, <1>9 DEF Named
  <2>2. Named(q, f, g) \subseteq Named(a, f, g) \cup {Head(q).id}
    BY <1>1, <1>4 DEF Named
  <2>3. ASSUME NEW i \in Hits(a, f, g), a[i].id = Head(q).id PROVE FALSE
    <3>1. i + 1 = 1
      BY <1>1, <1>3, <1>5, <1>9, <2>3 DEF Once
    <3>2. QED BY <1>2, <1>3, <3>1
  <2>4. Head(q).id \notin Named(a, f, g)
    BY <2>3 DEF Named
  <2>5. QED BY <1>7, <2>1, <2>2, <2>4
<1>10. QED BY <1>6, <1>7, <1>8, <1>9 DEF a

\* The frames of streams without completions do not matter.
LEMMA NamedSame ==
    ASSUME NEW q \in Seq(Cqe), NEW f, NEW h, NEW g,
           \A s \in Streams : Tells(q, s) => h[s].ring = f[s].ring
    PROVE  /\ Named(q, h, g) = Named(q, f, g)
           /\ Once(q, f, g) => Once(q, h, g)
<1>1. ASSUME NEW i \in 1..Len(q) PROVE h[q[i].s].ring = f[q[i].s].ring
  <2>1. q[i] \in Cqe
    OBVIOUS
  <2>2. q[i].s \in Streams
    BY <2>1 DEF Cqe
  <2>3. Tells(q, q[i].s)
    BY DEF Tells
  <2>4. QED BY <2>2, <2>3
<1>2. Hits(q, h, g) = Hits(q, f, g)
  BY <1>1 DEF Hits, Hit
<1>3. QED BY <1>2 DEF Named, Once

\* What is unread is a finite set.
LEMMA UnreadFinite ==
    ASSUME NEW f, NEW g
    PROVE  /\ IsFiniteSet(Unread(f, g)) /\ Cardinality(Unread(f, g)) \in Nat
<1>1. IsFiniteSet(1..MaxData + 1)
  BY RecvAssumption, FS_Interval
<1>2. IsFiniteSet(Streams \X (1..MaxData + 1))
  BY <1>1, RecvAssumption, FS_Product
<1>3. Unread(f, g) \in SUBSET (Streams \X (1..MaxData + 1))
  BY DEF Unread
<1>4. QED BY <1>2, <1>3, FS_Subset, FS_CardinalityType

\* It stays when the data that are unread do.
LEMMA UnreadSame ==
    ASSUME NEW f, NEW h, NEW g,
           \A s \in Streams : Len(Data(h[s].buffers)) = Len(Data(f[s].buffers))
                              /\ (h[s].ring = f[s].ring
                                    \/ \A n \in 1..MaxData + 1 :
                                          ~(n <= Len(Data(f[s].buffers))))
    PROVE  Unread(h, g) = Unread(f, g)
<1>1. ASSUME NEW p \in Streams \X (1..MaxData + 1)
      PROVE  /\ h[p[1]].ring = g /\ p[2] <= Len(Data(h[p[1]].buffers))
             <=> /\ f[p[1]].ring = g /\ p[2] <= Len(Data(f[p[1]].buffers))
  <2>1. p[1] \in Streams /\ p[2] \in 1..MaxData + 1
    OBVIOUS
  <2>2. QED BY <2>1
<1>2. QED BY <1>1 DEF Unread

\* A buffer more is unread.
LEMMA UnreadMore ==
    ASSUME NEW f, NEW h, NEW s \in Streams,
           \A t \in Streams : h[t].ring = f[t].ring,
           \A t \in Streams \ {s} : h[t].buffers = f[t].buffers,
           Len(Data(f[s].buffers)) \in Nat,
           Len(Data(f[s].buffers)) <= MaxData,
           Len(Data(h[s].buffers)) = Len(Data(f[s].buffers)) + 1
    PROVE  /\ Cardinality(Unread(h, f[s].ring))
                 = Cardinality(Unread(f, f[s].ring)) + 1
           /\ \A g : g # f[s].ring => Unread(h, g) = Unread(f, g)
<1> DEFINE n == Len(Data(f[s].buffers))
           G == f[s].ring
<1>1. n \in Nat /\ n + 1 \in 1..MaxData + 1 /\ \A m \in Nat : m <= n + 1 <=> m <= n \/ m = n + 1
  BY RecvAssumption
<1>2. ASSUME NEW p \in Streams \X (1..MaxData + 1), NEW g
      PROVE  p \in Unread(h, g) <=>
                p \in Unread(f, g) \/ (g = G /\ p = <<s, n + 1>>)
  <2>1. p = <<p[1], p[2]>> /\ p[1] \in Streams /\ p[2] \in 1..MaxData + 1 /\ p[2] \in Nat
    OBVIOUS
  <2>2. CASE p[1] # s
    BY <2>1, <2>2 DEF Unread
  <2>3. CASE p[1] = s
    <3>1. p = <<s, n + 1>> <=> p[2] = n + 1
      BY <2>1, <2>3
    <3>2. p \in Unread(h, g) <=> h[s].ring = g /\ p[2] <= n + 1
      BY <2>1, <2>3 DEF Unread
    <3>3. p \in Unread(f, g) <=> f[s].ring = g /\ p[2] <= n
      BY <2>1, <2>3 DEF Unread
    <3>4. h[s].ring = G
      OBVIOUS
    <3> HIDE DEF n
    <3>5. QED BY <1>1, <2>1, <3>1, <3>2, <3>3, <3>4
  <2>4. QED BY <2>2, <2>3
<1>3. /\ <<s, n + 1>> \in Streams \X (1..MaxData + 1)
      /\ <<s, n + 1>> \notin Unread(f, G)
  <2>1. ~(n + 1 <= n)
    BY <1>1
  <2>2. QED BY <1>1, <2>1 DEF Unread
<1>4. Unread(h, G) = Unread(f, G) \cup {<<s, n + 1>>}
  <2>1. \A p \in Unread(h, G) : p \in Streams \X (1..MaxData + 1)
    BY DEF Unread
  <2>2. \A p \in Unread(f, G) : p \in Streams \X (1..MaxData + 1)
    BY DEF Unread
  <2> HIDE DEF n, G
  <2>3. QED BY <1>2, <1>3, <2>1, <2>2
<1>5. ASSUME NEW g, g # G PROVE Unread(h, g) = Unread(f, g)
  <2>1. \A p \in Unread(h, g) : p \in Streams \X (1..MaxData + 1)
    BY DEF Unread
  <2>2. \A p \in Unread(f, g) : p \in Streams \X (1..MaxData + 1)
    BY DEF Unread
  <2> HIDE DEF n, G
  <2>3. \A p \in Streams \X (1..MaxData + 1) : p \in Unread(h, g) <=> p \in Unread(f, g)
    BY <1>2, <1>5
  <2>4. QED BY <2>1, <2>2, <2>3
<1>6. Cardinality(Unread(h, G)) = Cardinality(Unread(f, G)) + 1
  <2> HIDE DEF n, G
  <2> DEFINE U == Unread(f, G)
             x == <<s, n + 1>>
  <2>1. IsFiniteSet(U) /\ x \notin U /\ Unread(h, G) = U \cup {x}
    BY <1>3, <1>4, UnreadFinite
  <2> HIDE DEF U, x
  <2>2. Cardinality(U \cup {x}) = Cardinality(U) + 1
    BY <2>1, FS_AddElement
  <2>3. QED BY <2>1, <2>2 DEF U
<1>7. QED BY <1>5, <1>6

\* The buffers of a stream are read.
LEMMA UnreadLess ==
    ASSUME NEW f, NEW h, NEW s \in Streams,
           \A t \in Streams : h[t].ring = f[t].ring,
           \A t \in Streams \ {s} : h[t].buffers = f[t].buffers,
           Len(Data(f[s].buffers)) \in Nat,
           Len(Data(f[s].buffers)) <= MaxData + 1,
           Len(Data(h[s].buffers)) = 0
    PROVE  /\ Cardinality(Unread(f, f[s].ring))
                 = Cardinality(Unread(h, f[s].ring)) + Len(Data(f[s].buffers))
           /\ \A g : g # f[s].ring => Unread(h, g) = Unread(f, g)
<1> DEFINE n == Len(Data(f[s].buffers))
           G == f[s].ring
           A == {s} \X (1..n)
<1>1. n \in Nat /\ n <= MaxData + 1
  OBVIOUS
<1>2. ASSUME NEW p \in Streams \X (1..MaxData + 1), NEW g
      PROVE  /\ p \in Unread(f, g) <=> p \in Unread(h, g) \/ (g = G /\ p \in A)
             /\ p \in Unread(h, g) => p \notin A
  <2>1. /\ p = <<p[1], p[2]>> /\ p[1] \in Streams /\ p[2] \in 1..MaxData + 1
        /\ p[2] \in Nat /\ p[2] > 0
    BY RecvAssumption
  <2>2. p \in A <=> p[1] = s /\ p[2] <= n
    BY <1>1, <2>1
  <2>3. CASE p[1] # s
    BY <2>1, <2>2, <2>3 DEF Unread
  <2>4. CASE p[1] = s
    <3>1. p \notin Unread(h, g)
      BY <2>1, <2>4 DEF Unread
    <3>2. p \in Unread(f, g) <=> f[s].ring = g /\ p[2] <= n
      BY <2>1, <2>4 DEF Unread
    <3>3. QED BY <2>2, <2>4, <3>1, <3>2
  <2>5. QED BY <2>3, <2>4
<1>3. A \subseteq Streams \X (1..MaxData + 1)
  BY <1>1, RecvAssumption
<1>4. /\ \A g : \A p \in Unread(h, g) : p \in Streams \X (1..MaxData + 1)
      /\ \A g : \A p \in Unread(f, g) : p \in Streams \X (1..MaxData + 1)
  BY DEF Unread
<1>5. IsFiniteSet(A) /\ Cardinality(A) = n
  <2> HIDE DEF n
  <2>1. IsFiniteSet(1..n) /\ Cardinality(1..n) = n
    <3>1. 1 \in Int /\ n \in Int
      BY <1>1
    <3>2. /\ IsFiniteSet(1..n)
          /\ Cardinality(1..n) = IF 1 > n THEN 0 ELSE (n - 1) + 1
      BY <3>1, FS_Interval
    <3>3. (IF 1 > n THEN 0 ELSE (n - 1) + 1) = n
      BY <1>1
    <3>4. QED BY <3>2, <3>3
  <2>2. IsFiniteSet({s}) /\ Cardinality({s}) = 1
    BY FS_Singleton
  <2>3. /\ IsFiniteSet({s} \X (1..n))
        /\ Cardinality({s} \X (1..n)) = Cardinality({s}) * Cardinality(1..n)
    BY <2>1, <2>2, FS_Product, Zenon
  <2>4. 1 * n = n
    BY <1>1
  <2>5. QED BY <2>1, <2>2, <2>3, <2>4
<1> HIDE DEF n, G, A
<1>6. Unread(f, G) = Unread(h, G) \cup A /\ Unread(h, G) \cap A = {}
  BY <1>2, <1>3, <1>4
<1>7. Cardinality(Unread(f, G)) = Cardinality(Unread(h, G)) + n
  BY <1>5, <1>6, UnreadFinite, DisjointSum
<1>8. ASSUME NEW g, g # G PROVE Unread(h, g) = Unread(f, g)
  <2>1. \A p \in Streams \X (1..MaxData + 1) : p \in Unread(h, g) <=> p \in Unread(f, g)
    BY <1>2, <1>8
  <2>2. QED BY <1>4, <2>1
<1>9. QED BY <1>7, <1>8 DEF n, G

-----------------------------------------------------------------------------
(* Every id is in one place.                                               *)

\* A ring that a step does not concern.
LEMMA PlaceSame ==
    ASSUME NEW g \in Groups, Place(g), ring'[g] = ring[g], stack'[g] = stack[g],
           bufs'[g] = bufs[g], Named(cq', rf', g) = Named(cq, rf, g),
           Once(cq, rf, g) => Once(cq', rf', g)
    PROVE  Place(g)'
BY DEF Place

\* The constructor of buf_ring offers every id to the kernel.
LEMMA InitPlaces == Init => Places
<1> SUFFICES ASSUME Init, NEW g \in Groups PROVE Place(g)
  BY DEF Places
<1>1. /\ ring[g] = FullRing /\ stack[g] = <<>> /\ bufs[g] = Ids /\ cq = <<>>
  BY DEF Init
<1>2. FullRing \in Seq(Ids) /\ Len(FullRing) = NumBufs
      /\ \A i \in 1..NumBufs : FullRing[i] = i
  BY RecvAssumption DEF FullRing, Ids
<1>3. Inj(FullRing)
  BY <1>2 DEF Inj
<1>4. ToSet(FullRing) = Ids
  <2>1. \A x : x \in ToSet(FullRing) <=> \E i \in 1..Len(FullRing) : FullRing[i] = x
    BY <1>2, InSet
  <2>2. ASSUME NEW x \in Ids PROVE x \in ToSet(FullRing)
    <3>1. x \in 1..Len(FullRing) /\ FullRing[x] = x
      BY <1>2 DEF Ids
    <3>2. QED BY <2>1, <3>1
  <2>3. ASSUME NEW x \in ToSet(FullRing) PROVE x \in Ids
    <3>1. PICK i \in 1..Len(FullRing) : FullRing[i] = x
      BY <2>1
    <3>2. QED BY <1>2, <3>1 DEF Ids
  <2>4. QED BY <2>2, <2>3
<1>5. ToSet(stack[g]) = {} /\ Inj(stack[g])
  BY <1>1 DEF ToSet, Inj
<1>6. Named(cq, rf, g) = {} /\ Once(cq, rf, g)
  BY <1>1 DEF Named, Once, Hits
<1>7. Apart(ring[g], stack[g], Named(cq, rf, g))
  BY <1>1, <1>3, <1>4, <1>5, <1>6 DEF Apart
<1>8. QED BY <1>1, <1>5, <1>6, <1>7 DEF Place

\* Steps that move no id.
LEMMA QuietPlaces ==
    ASSUME Places, cq \in Seq(Cqe), UNCHANGED <<ringVars, cq>>,
           \A s \in Streams : Tells(cq, s) => rf'[s].ring = rf[s].ring
    PROVE  Places'
<1> SUFFICES ASSUME NEW g \in Groups PROVE Place(g)'
  BY DEF Places
<1>1. UNCHANGED <<ring, stack, bufs, cq>> /\ Place(g)
  BY DEF ringVars, Places
<1>2. Named(cq, rf', g) = Named(cq, rf, g) /\ (Once(cq, rf, g) => Once(cq, rf', g))
  BY NamedSame
<1>3. QED BY <1>1, <1>2, PlaceSame

\* The steps of the loop and of the users that do so.
LEMMA QuietStepPlaces ==
    ASSUME Readers, Places,
           \/ \E s \in Streams : \/ RecvSuspends(s) \/ AsyncCancel(s)
                                 \/ DropStream(s) \/ TimerStrikes(s)
                                 \/ \E g \in Groups : SetBufferGroup(s, g)
           \/ SubmitFull \/ SubmitAndWait \/ SubmitDone \/ ReapDone
    PROVE  Places'
<1>1. TypeOK /\ cq \in Seq(Cqe)
  BY DEF Readers, TypeOK
<1>2. ASSUME NEW s \in Streams, RecvSuspends(s) PROVE Places'
  <2>1. UNCHANGED <<ringVars, cq>>
    BY <1>2 DEF RecvSuspends
  <2>2. /\ \A t \in Streams \ {s} : rf'[t] = rf[t]
        /\ rf'[s].ring = IF rf[s].initiated THEN rf[s].ring ELSE rf[s].group
    BY <1>1, <1>2, SuspendFrame
  <2>3. Tells(cq, s) => rf[s].initiated
    BY DEF Readers, Under
  <2>4. \A t \in Streams : Tells(cq, t) => rf'[t].ring = rf[t].ring
    BY <2>2, <2>3
  <2>5. QED BY <1>1, <2>1, <2>4, QuietPlaces
<1>3. ASSUME NEW s \in Streams, NEW g \in Groups, SetBufferGroup(s, g) PROVE Places'
  <2>1. UNCHANGED <<ringVars, cq>>
    BY <1>3 DEF SetBufferGroup, kernVars
  <2>2. \A t \in Streams : rf'[t].ring = rf[t].ring
    BY <1>1, <1>3 DEF SetBufferGroup, TypeOK, Frame
  <2>3. QED BY <1>1, <2>1, <2>2, QuietPlaces
<1>4. ASSUME UNCHANGED <<rf, ringVars, cq>> PROVE Places'
  BY <1>1, <1>4, QuietPlaces
<1>5. ASSUME NEW s \in Streams, AsyncCancel(s) \/ DropStream(s) \/ TimerStrikes(s)
      PROVE  Places'
  BY <1>4, <1>5 DEF AsyncCancel, DropStream, TimerStrikes, frameVars
<1>6. ASSUME SubmitFull \/ SubmitAndWait \/ SubmitDone \/ ReapDone PROVE Places'
  BY <1>4, <1>6
  DEF SubmitFull, SubmitAndWait, SubmitDone, ReapDone, frameVars, kernVars
<1>7. QED BY <1>2, <1>3, <1>5, <1>6

\* recycle_buffer moves one id from the stack to the ring.
LEMMA RecyclePlaces ==
    ASSUME Readers, Places, NEW G \in Groups, Recycle(G)
    PROVE  Places'
<1> SUFFICES ASSUME NEW g \in Groups PROVE Place(g)'
  BY DEF Places
<1>1. /\ TypeOK /\ UNCHANGED <<rf, cq>> /\ Place(g) /\ stack[G] # <<>>
      /\ stack' = [stack EXCEPT ![G] = Front(@)]
      /\ bufs' = [bufs EXCEPT ![G] = @ \cup {Last(stack[G])}]
      /\ ring' = [ring EXCEPT ![G] = Append(@, Last(stack[G]))]
  BY DEF Readers, Places, Recycle, frameVars, kernVars
<1>2. CASE g # G
  <2>1. ring'[g] = ring[g] /\ stack'[g] = stack[g] /\ bufs'[g] = bufs[g]
    BY <1>1, <1>2 DEF TypeOK
  <2>2. QED BY <1>1, <2>1, PlaceSame
<1>3. CASE g = G
  <2> DEFINE k == stack[g]
             r == ring[g]
             N == Named(cq, rf, g)
             low == SubSeq(k, 1, Len(k) - 1)
             back == Reverse(SubSeq(k, (Len(k) - 1) + 1, Len(k)))
             x == Last(k)
  <2>1. /\ ring'[g] = Append(r, x) /\ stack'[g] = Front(k)
        /\ bufs'[g] = bufs[g] \cup {x}
    BY <1>1, <1>3 DEF TypeOK
  <2>2. /\ r \in Seq(Ids) /\ k \in Seq(Ids) /\ k # <<>> /\ Apart(r, k, N)
        /\ Once(cq, rf, g) /\ bufs[g] = Ids \ ToSet(k)
    BY <1>1, <1>3 DEF TypeOK, Place
  <2>3. Front(k) = low /\ x = k[Len(k)]
    BY DEF Front, Last
  <2> HIDE DEF k, r, N, x
  <2>4. Len(k) \in Nat /\ 1 <= Len(k)
    BY <2>2
  <2>5. Restored(r, k, N, low, back)
    BY <2>2, <2>4, ReturnedApart
  <2>6. Turned(Ids, k, 1, low, back)
    BY <2>2, <2>4, TurnOver
  <2> HIDE DEF back, low
  <2>7. back \in Seq(Ids) /\ Len(back) = 1 /\ back[1] = x
    <3>1. /\ back \in Seq(Ids) /\ Len(back) = 1 /\ 1 \in 1..1
          /\ back[1] = k[(Len(k) + 1) - 1]
      BY <2>6 DEF Turned
    <3>2. (Len(k) + 1) - 1 = Len(k)
      BY <2>4
    <3>3. QED BY <2>3, <3>1, <3>2
  <2>8. x \in Ids
    <3>1. Len(k) \in 1..Len(k)
      BY <2>4
    <3>2. k[Len(k)] \in Ids
      BY <2>2, <3>1
    <3>3. QED BY <2>3, <3>2
  <2>9. r \o back = Append(r, x)
    <3>1. back = <<x>>
      BY <2>7, <2>8
    <3>2. r \o <<x>> = Append(r, x)
      BY <2>2, <2>8
    <3>3. QED BY <3>1, <3>2
  <2>10. ToSet(back) = {x}
    <3>1. \A y : y \in ToSet(back) <=> \E i \in 1..Len(back) : back[i] = y
      BY <2>7, InSet
    <3>2. QED BY <2>7, <3>1
  <2>11. bufs'[g] = Ids \ ToSet(low)
    BY <2>1, <2>2, <2>5, <2>8, <2>10 DEF Restored
  <2>12. Named(cq', rf', g) = N /\ Once(cq', rf', g)
    BY <1>1, <2>2 DEF N
  <2>13. Apart(ring'[g], stack'[g], N)
    BY <2>1, <2>3, <2>5, <2>9 DEF Restored
  <2>14. QED BY <2>1, <2>3, <2>11, <2>12, <2>13 DEF Place
<1>4. QED BY <1>2, <1>3

\* await_resume moves ids from the stack to the ring.
LEMMA ReturnsPlaces ==
    ASSUME Readers, Places, NEW s \in Streams, NEW h \in BOOLEAN, RecvReturns(s, h),
           UNCHANGED cq
    PROVE  Places'
<1> DEFINE G == rf[s].group
<1>1. /\ TypeOK /\ cq \in Seq(Cqe) /\ Tidy(rf[s].buffers) /\ G \in Groups
  BY DEF Readers, TypeOK, Under, Frame
<1>2. \A t \in Streams : rf'[t].ring = rf[t].ring
  <2>1. /\ \A t \in Streams \ {s} : rf'[t] = rf[t]
        /\ rf'[s].ring = rf[s].ring
    BY <1>1, ReturnsType
  <2>2. QED BY <2>1
<1>3. CASE rf[s].buffers = <<>>
  <2>1. UNCHANGED <<ringVars, cq>>
    BY <1>3 DEF RecvReturns
  <2>2. QED BY <1>1, <1>2, <2>1, QuietPlaces
<1>4. CASE rf[s].buffers # <<>>
  <2> SUFFICES ASSUME NEW g \in Groups PROVE Place(g)'
    BY DEF Places
  <2> DEFINE m == Replenish(s)
             q == stack[G]
             low == SubSeq(q, 1, Len(q) - m)
             back == Reverse(SubSeq(q, (Len(q) - m) + 1, Len(q)))
  <2>1. /\ stack' = [stack EXCEPT ![G] = low]
        /\ bufs' = [bufs EXCEPT ![G] = @ \cup ToSet(back)]
        /\ ring' = [ring EXCEPT ![G] = @ \o back]
    BY <1>4 DEF RecvReturns
  <2>2. m \in Nat /\ m <= Len(q)
    BY <1>1, ReplenishRange
  <2>3. /\ Place(g) /\ Named(cq', rf', g) = Named(cq, rf, g)
        /\ Once(cq, rf, g) => Once(cq', rf', g)
    BY <1>1, <1>2, NamedSame DEF Places
  <2> HIDE DEF m, low, back, G
  <2>4. CASE g # G
    <3>1. ring'[g] = ring[g] /\ stack'[g] = stack[g] /\ bufs'[g] = bufs[g]
      BY <1>1, <2>1, <2>4 DEF TypeOK
    <3>2. QED BY <2>3, <3>1, PlaceSame
  <2>5. CASE g = G
    <3> DEFINE r == ring[g]
               N == Named(cq, rf, g)
    <3>1. /\ ring'[g] = r \o back /\ stack'[g] = low
          /\ bufs'[g] = bufs[g] \cup ToSet(back)
      BY <1>1, <2>1, <2>5 DEF TypeOK
    <3>2. /\ r \in Seq(Ids) /\ q \in Seq(Ids) /\ Apart(r, q, N)
          /\ bufs[g] = Ids \ ToSet(q)
      BY <1>1, <2>3, <2>5 DEF TypeOK, Place
    <3>3. low = SubSeq(q, 1, Len(q) - m)
          /\ back = Reverse(SubSeq(q, (Len(q) - m) + 1, Len(q)))
      BY DEF low, back
    <3> HIDE DEF q, r, N
    <3>4. Restored(r, q, N, low, back)
      BY <2>2, <3>2, <3>3, ReturnedApart
    <3>5. ToSet(back) \subseteq Ids
      <4>1. Turned(Ids, q, m, low, back)
        BY <2>2, <3>2, <3>3, TurnOver
      <4>2. back \in Seq(Ids)
        BY <4>1 DEF Turned
      <4>3. \A y : y \in ToSet(back) <=> \E i \in 1..Len(back) : back[i] = y
        BY <4>2, InSet
      <4>4. QED BY <4>2, <4>3
    <3>6. bufs'[g] = Ids \ ToSet(low)
      BY <3>1, <3>2, <3>4, <3>5 DEF Restored
    <3>7. Apart(ring'[g], stack'[g], N)
      BY <3>1, <3>4 DEF Restored
    <3>8. Named(cq', rf', g) = N /\ Once(cq', rf', g)
      BY <2>3 DEF N, Place
    <3>9. QED BY <3>1, <3>6, <3>7, <3>8 DEF Place
  <2>6. QED BY <2>4, <2>5
<1>5. QED BY <1>3, <1>4

\* The kernel ends a receive or takes a request: no id moves.
LEMMA EndedPlaces ==
    ASSUME Readers, Places, KernelTakes \/ \E s \in Streams : KernelEnds(s)
    PROVE  Places'
<1>1. /\ UNCHANGED <<rf, ringVars>> /\ cq \in Seq(Cqe)
      /\ \/ cq' = cq
         \/ \E s \in Streams, kind \in {"eof"} \cup Errors :
               cq' = Append(cq, Ended(s, kind))
  BY EndedStep DEF Readers, TypeOK
<1>2. CASE cq' = cq
  BY <1>1, <1>2, QuietPlaces
<1>3. ASSUME NEW s \in Streams, NEW kind \in {"eof"} \cup Errors,
             cq' = Append(cq, Ended(s, kind))
      PROVE  Places'
  <2> SUFFICES ASSUME NEW g \in Groups PROVE Place(g)'
    BY DEF Places
  <2>1. Ended(s, kind) \in Cqe /\ Ended(s, kind).kind # "data"
    BY EndedProper DEF Errors
  <2>2. ~Hit(Ended(s, kind), rf, g)
    BY <2>1 DEF Hit
  <2>3. /\ Named(Append(cq, Ended(s, kind)), rf, g) = Named(cq, rf, g)
        /\ Once(cq, rf, g) => Once(Append(cq, Ended(s, kind)), rf, g)
    BY <1>1, <2>1, <2>2, NamedAppend
  <2>4. Place(g) /\ UNCHANGED <<ring, stack, bufs, rf>>
    BY <1>1 DEF Places, ringVars
  <2>5. QED BY <1>3, <2>3, <2>4, PlaceSame
<1>4. QED BY <1>1, <1>2, <1>3

\* A chunk arrives: its id moves from the ring to the completion.
LEMMA KernelReceivesPlaces ==
    ASSUME Readers, Places, NEW s \in Streams, KernelReceives(s)
    PROVE  Places'
<1> SUFFICES ASSUME NEW g \in Groups PROVE Place(g)'
  BY DEF Places
<1>1. /\ TypeOK /\ cq \in Seq(Cqe) /\ UNCHANGED <<rf, stack, bufs>> /\ Place(g)
      /\ ring' = [ring EXCEPT ![rf[s].ring] = Tail(@)] /\ RingOf(s) # <<>>
  BY DEF Readers, Places, TypeOK, KernelReceives, frameVars
<1>2. PICK e \in Cqe : /\ cq' = Append(cq, e) /\ e.s = s /\ e.kind = "data"
                       /\ e.id = Head(RingOf(s))
  BY KernelReceivesReaders
<1>3. Hit(e, rf, g) <=> rf[s].ring = g
  BY <1>2 DEF Hit
<1>4. CASE rf[s].ring # g
  <2>1. ring'[g] = ring[g]
    BY <1>1, <1>4 DEF TypeOK
  <2>2. /\ Named(cq', rf, g) = Named(cq, rf, g)
        /\ Once(cq, rf, g) => Once(cq', rf, g)
    BY <1>1, <1>2, <1>3, <1>4, NamedAppend
  <2>3. QED BY <1>1, <2>1, <2>2, PlaceSame
<1>5. CASE rf[s].ring = g
  <2> DEFINE r == ring[g]
             k == stack[g]
             N == Named(cq, rf, g)
  <2>1. /\ r \in Seq(Ids) /\ k \in Seq(Ids) /\ r # <<>> /\ Apart(r, k, N)
        /\ Once(cq, rf, g) /\ ring'[g] = Tail(r) /\ e.id = Head(r)
    BY <1>1, <1>2, <1>5 DEF TypeOK, Place, RingOf
  <2> HIDE DEF r, k, N
  <2>2. Apart(Tail(r), k, N \cup {Head(r)}) /\ Head(r) \notin N
    BY <2>1, TakenApart
  <2>3. Named(cq', rf, g) = N \cup {Head(r)} /\ Once(cq', rf, g)
    BY <1>1, <1>2, <1>3, <1>5, <2>1, <2>2, NamedAppend DEF N
  <2>4. QED BY <1>1, <2>1, <2>2, <2>3 DEF Place, k
<1>6. QED BY <1>4, <1>5

\* A completion is processed: its id moves to the stack.
LEMMA ReapPlaces ==
    ASSUME Readers, Places, Reap
    PROVE  Places'
<1> SUFFICES ASSUME NEW g \in Groups PROVE Place(g)'
  BY DEF Places
<1>1. /\ TypeOK /\ Queues /\ cq \in Seq(Cqe) /\ cq # <<>> /\ Place(g)
      /\ Process(Head(cq)) /\ cq' = Tail(cq) /\ UNCHANGED ring
  BY DEF Readers, Places, TypeOK, Reap
<1>2. Head(cq) \in Cqe /\ Proper(Head(cq)) /\ Tail(cq) \in Seq(Cqe)
  BY <1>1, TellTail DEF Queues
<1>3. PICK e \in Cqe : e = Head(cq)
  BY <1>2
<1>4. PICK s \in Streams : s = e.s
  BY DEF Cqe
<1>5. Process(e) /\ Proper(e)
  BY <1>1, <1>2, <1>3
<1>6. \A t \in Streams : rf'[t].ring = rf[t].ring
  <2>1. /\ \A t \in Streams \ {s} : rf'[t] = rf[t]
        /\ rf'[s].ring = rf[s].ring
    BY <1>1, <1>4, <1>5, ProcessFrame
  <2>2. QED BY <2>1
<1>7. /\ Named(cq', rf', g) = Named(cq', rf, g)
      /\ Once(cq', rf, g) => Once(cq', rf', g)
  <2> DEFINE f == rf'
             q == cq'
  <2>1. q \in Seq(Cqe) /\ \A t \in Streams : f[t].ring = rf[t].ring
    BY <1>1, <1>2, <1>6
  <2> HIDE DEF f, q
  <2>2. Named(q, f, g) = Named(q, rf, g) /\ (Once(q, rf, g) => Once(q, f, g))
    BY <2>1, NamedSame
  <2>3. QED BY <2>2 DEF f, q
<1>8. /\ Once(cq', rf, g)
      /\ ~Hit(e, rf, g) => Named(cq', rf, g) = Named(cq, rf, g)
      /\ Hit(e, rf, g) => /\ Named(cq, rf, g) = Named(cq', rf, g) \cup {e.id}
                          /\ e.id \notin Named(cq', rf, g)
  <2>1. Once(cq, rf, g)
    BY <1>1 DEF Place
  <2>2. QED BY <1>1, <1>3, <2>1, NamedTail
<1>9. CASE ~Hit(e, rf, g)
  <2>1. stack'[g] = stack[g] /\ bufs'[g] = bufs[g]
    <3>1. CASE TakesBuffer(e)
      <4>1. rf[s].ring # g
        BY <1>4, <1>9, <3>1 DEF Hit, TakesBuffer
      <4>2. /\ bufs' = [bufs EXCEPT ![rf[s].ring] = @ \ {e.id}]
            /\ stack' = [stack EXCEPT ![rf[s].ring] = Append(@, e.id)]
        BY <1>4, <1>5, <3>1 DEF Process
      <4>3. QED BY <1>1, <4>1, <4>2 DEF TypeOK
    <3>2. CASE ~TakesBuffer(e)
      BY <1>5, <3>2 DEF Process
    <3>3. QED BY <3>1, <3>2
  <2>2. QED BY <1>1, <1>7, <1>8, <1>9, <2>1, PlaceSame
<1>10. CASE Hit(e, rf, g)
  <2> DEFINE r == ring[g]
             k == stack[g]
             x == e.id
             N == Named(cq', rf, g)
  <2>1. e.kind = "data" /\ rf[s].ring = g /\ x \in Ids
    BY <1>4, <1>5, <1>10 DEF Hit, Proper
  <2>2. bufs'[g] = bufs[g] \ {x} /\ stack'[g] = Append(k, x)
    <3>1. /\ bufs' = [bufs EXCEPT ![g] = @ \ {x}]
          /\ stack' = [stack EXCEPT ![g] = Append(@, x)]
      BY <1>4, <1>5, <2>1 DEF Process, TakesBuffer
    <3>2. QED BY <1>1, <3>1 DEF TypeOK
  <2>3. /\ r \in Seq(Ids) /\ k \in Seq(Ids) /\ Apart(r, k, N \cup {x})
        /\ x \notin N /\ bufs[g] = Ids \ ToSet(k)
    BY <1>1, <1>8, <1>10 DEF TypeOK, Place
  <2>4. Named(cq', rf', g) = N /\ Once(cq', rf', g) /\ ring'[g] = r
    BY <1>1, <1>7, <1>8
  <2> HIDE DEF r, k, x, N
  <2>5. Apart(r, Append(k, x), N) /\ ToSet(Append(k, x)) = ToSet(k) \cup {x}
    BY <2>1, <2>3, StackedApart
  <2>6. bufs'[g] = Ids \ ToSet(stack'[g])
    BY <2>2, <2>3, <2>5
  <2>7. QED BY <2>2, <2>4, <2>5, <2>6 DEF Place
<1>11. QED BY <1>9, <1>10

\* Every step keeps every id in one place.
LEMMA NextPlaces == Readers /\ Flows /\ Places /\ [Next]_vars => Places'
<1> SUFFICES ASSUME Readers, Flows, Places, [Next]_vars PROVE Places'
  OBVIOUS
<1>1. ASSUME Resume \/ \E s \in Streams : RecvAtOnce(s) PROVE Places'
  <2>1. UNCHANGED cq
    BY <1>1, ReturnFlows
  <2>2. PICK s \in Streams, h \in BOOLEAN : RecvReturns(s, h)
    BY <1>1, ReturnFlows
  <2>3. QED BY <2>1, <2>2, ReturnsPlaces
<1>2. ASSUME UserStep PROVE Places'
  BY <1>1, <1>2, QuietStepPlaces, RecyclePlaces DEF UserStep
<1>3. ASSUME LoopStep PROVE Places'
  BY <1>1, <1>3, QuietStepPlaces, EndedPlaces, ReapPlaces DEF LoopStep
<1>4. ASSUME KernelStep PROVE Places'
  BY <1>4, KernelReceivesPlaces, EndedPlaces DEF KernelStep
<1>5. ASSUME NEW s \in Streams, TimerStrikes(s) PROVE Places'
  BY <1>5, QuietStepPlaces
<1>6. ASSUME UNCHANGED vars PROVE Places'
  <2>1. UNCHANGED <<ringVars, cq, rf>> /\ cq \in Seq(Cqe)
    BY <1>6 DEF vars, frameVars, kernVars, Readers, TypeOK
  <2>2. QED BY <2>1, QuietPlaces
<1>7. QED BY <1>2, <1>3, <1>4, <1>5, <1>6 DEF Next

\* A sequence without repetition has as many elements as entries.
LEMMA InjCard ==
    ASSUME NEW T, NEW q \in Seq(T), Inj(q)
    PROVE  IsFiniteSet(ToSet(q)) /\ Cardinality(ToSet(q)) = Len(q)
<1> DEFINE D == 1..Len(q)
<1>1. Len(q) \in Nat /\ IsFiniteSet(D) /\ Cardinality(D) = Len(q)
  <2>1. Len(q) \in Nat /\ 1 \in Int /\ Len(q) \in Int
    OBVIOUS
  <2>2. /\ IsFiniteSet(1..Len(q))
        /\ Cardinality(1..Len(q)) = IF 1 > Len(q) THEN 0 ELSE (Len(q) - 1) + 1
    BY <2>1, FS_Interval
  <2>3. QED BY <2>1, <2>2
<1>2. /\ \A x \in ToSet(q) : \E i \in D : q[i] = x
      /\ \A i \in D : q[i] \in ToSet(q)
  BY InSet
<1>3. q \in [D -> ToSet(q)]
  <2>1. q = [i \in D |-> q[i]]
    OBVIOUS
  <2>2. QED BY <1>2, <2>1, Zenon
<1>4. \A i, j \in D : q[i] = q[j] => i = j
  BY DEF Inj
<1> HIDE DEF D
<1>5. q \in Bijection(D, ToSet(q))
  BY <1>2, <1>3, <1>4, Fun_IsBij
<1>6. QED BY <1>1, <1>5, FS_Bijection DEF ExistsBijection

\* The completions name as many ids as there are of them.
LEMMA OnceCard ==
    ASSUME NEW q \in Seq(Cqe), NEW f, NEW g, Once(q, f, g)
    PROVE  /\ IsFiniteSet(Named(q, f, g))
           /\ Cardinality(Named(q, f, g)) = Cardinality(Hits(q, f, g))
<1> DEFINE D == Hits(q, f, g)
           N == Named(q, f, g)
           F == [i \in D |-> q[i].id]
<1>1. IsFiniteSet(D)
  <2>1. IsFiniteSet(1..Len(q))
    BY FS_Interval
  <2>2. D \in SUBSET (1..Len(q))
    BY DEF Hits
  <2>3. QED BY <2>1, <2>2, FS_Subset
<1>2. N = {q[i].id : i \in D}
  BY DEF Named
<1>3. \A i, j \in D : q[i].id = q[j].id => i = j
  BY DEF Once
<1> HIDE DEF D, N
<1>4. /\ F \in [D -> N]
      /\ \A i, j \in D : F[i] = F[j] => i = j
      /\ \A x \in N : \E i \in D : F[i] = x
  BY <1>2, <1>3
<1> HIDE DEF F
<1>5. F \in Bijection(D, N)
  BY <1>4, Fun_IsBij
<1>6. IsFiniteSet(N) /\ Cardinality(N) = Cardinality(D)
  BY <1>1, <1>5, FS_Bijection DEF ExistsBijection
<1>7. QED BY <1>6 DEF D, N

\* Ids in one place each add up to the number of buffers.
LEMMA ApartCard ==
    ASSUME NEW r \in Seq(Ids), NEW k \in Seq(Ids), NEW N, Apart(r, k, N),
           IsFiniteSet(N)
    PROVE  (Len(r) + Len(k)) + Cardinality(N) = NumBufs
<1>1. /\ IsFiniteSet(ToSet(r)) /\ Cardinality(ToSet(r)) = Len(r)
      /\ IsFiniteSet(ToSet(k)) /\ Cardinality(ToSet(k)) = Len(k)
  BY InjCard DEF Apart
<1> DEFINE R == ToSet(r)
           K == ToSet(k)
<1>2. /\ R \cap K = {} /\ (R \cup K) \cap N = {} /\ (R \cup K) \cup N = Ids
  BY DEF Apart
<1>3. IsFiniteSet(R \cup K) /\ Cardinality(R \cup K) = Len(r) + Len(k)
  <2> HIDE DEF R, K
  <2>1. IsFiniteSet(R) /\ IsFiniteSet(K) /\ R \cap K = {}
    BY <1>1, <1>2 DEF R, K
  <2>2. /\ IsFiniteSet(R \cup K)
        /\ Cardinality(R \cup K) = Cardinality(R) + Cardinality(K)
    BY <2>1, DisjointSum
  <2>3. QED BY <1>1, <2>2 DEF R, K
<1> DEFINE A == R \cup K
<1> HIDE DEF R, K
<1>4. IsFiniteSet(A) /\ A \cap N = {} /\ A \cup N = Ids
      /\ Cardinality(A) = Len(r) + Len(k)
  BY <1>2, <1>3
<1> HIDE DEF A
<1>5. Cardinality(A \cup N) = Cardinality(A) + Cardinality(N)
  BY <1>4, DisjointSum
<1>6. Cardinality(Ids) = NumBufs
  <2>1. NumBufs \in Int /\ 1 \in Int /\ ~(1 > NumBufs) /\ (NumBufs - 1) + 1 = NumBufs
    BY RecvAssumption
  <2>2. Cardinality(1..NumBufs)
           = IF 1 > NumBufs THEN 0 ELSE (NumBufs - 1) + 1
    BY <2>1, FS_Interval
  <2>3. QED BY <2>1, <2>2 DEF Ids
<1>7. QED BY <1>4, <1>5, <1>6

\* So the ids are conserved.
LEMMA Conserved ==
    ASSUME TypeOK, Places
    PROVE  BuffersConserved
<1> SUFFICES ASSUME NEW g \in Groups
             PROVE  /\ (Len(ring[g]) + Len(stack[g])) + Cardinality(IdsInCq(g)) = NumBufs
                    /\ ToSet(ring[g]) \cup ToSet(stack[g])
                          \cup {cq[i].id : i \in IdsInCq(g)} = Ids
                    /\ bufs[g] = Ids \ ToSet(stack[g])
  BY DEF BuffersConserved
<1>1. /\ Place(g) /\ cq \in Seq(Cqe) /\ ring[g] \in Seq(Ids) /\ stack[g] \in Seq(Ids)
  BY DEF Places, TypeOK
<1>2. IdsInCq(g) = Hits(cq, rf, g)
  BY DEF IdsInCq, Hits, Hit
<1>3. {cq[i].id : i \in IdsInCq(g)} = Named(cq, rf, g)
  BY <1>2 DEF Named
<1>4. /\ IsFiniteSet(Named(cq, rf, g))
      /\ Cardinality(Named(cq, rf, g)) = Cardinality(IdsInCq(g))
  BY <1>1, <1>2, OnceCard DEF Place
<1> DEFINE N == Named(cq, rf, g)
<1>5. Apart(ring[g], stack[g], N) /\ bufs[g] = Ids \ ToSet(stack[g])
  BY <1>1 DEF Place
<1> HIDE DEF N
<1>6. IsFiniteSet(N) /\ Cardinality(N) = Cardinality(IdsInCq(g))
      /\ {cq[i].id : i \in IdsInCq(g)} = N
  BY <1>3, <1>4 DEF N
<1>7. (Len(ring[g]) + Len(stack[g])) + Cardinality(N) = NumBufs
  BY <1>1, <1>5, <1>6, ApartCard
<1>8. QED BY <1>5, <1>6, <1>7 DEF Apart

\* Every id is in one place in every reachable state.
LEMMA PlacesHold == Spec => [](Readers /\ Flows /\ Places)
<1>1. Init => Readers /\ Flows /\ Places
  BY InitReaders, InitFlows, InitPlaces
<1>2. (Readers /\ Flows /\ Places) /\ [Next]_vars => (Readers /\ Flows /\ Places)'
  BY NextReaders, NextFlows, NextPlaces
<1>3. QED BY <1>1, <1>2, PTL DEF Spec

\* BuffersConserved, whatever the users do: an id is offered to the kernel, named
\* by a completion or on the stack, never lost and never in two places.
THEOREM BuffersConservedHolds == Spec => []BuffersConserved
<1>1. Readers /\ Flows /\ Places => BuffersConserved
  BY Conserved DEF Readers
<1>2. QED BY <1>1, PlacesHold, PTL

-----------------------------------------------------------------------------
(* What has been read is offered to the kernel again.                      *)

\* An empty frame has nothing to be read.
LEMMA NoData == Data(<<>>) = <<>> /\ Len(Data(<<>>)) = 0
<1>1. {i \in 1..Len(<<>>) : <<>>[i] = 0} = {}
  OBVIOUS
<1>2. QED BY <1>1 DEF Data

\* How much a frame can hold.
LEMMA FrameBound ==
    ASSUME Readers, Flows, NEW s \in Streams
    PROVE  /\ Len(Data(rf[s].buffers)) \in Nat
           /\ Len(Data(rf[s].buffers)) = Len(rf[s].buffers) - Bit(Zero(rf[s].buffers))
           /\ Len(Data(rf[s].buffers)) <= MaxData + 1
           /\ rf[s].initiated => Len(Data(rf[s].buffers)) <= MaxData
<1>1. /\ TypeOK /\ rf[s].buffers \in Seq(0..MaxData) /\ Tidy(rf[s].buffers)
      /\ Flow(s) /\ arrived[s] \in 0..MaxData /\ MaxData \in Nat
  BY RecvAssumption DEF Readers, TypeOK, Frame, Under, Flows
<1> DEFINE a == Len(got[s])
           b == Len(rf[s].buffers)
           d == Len(Data(rf[s].buffers))
           z == Zero(rf[s].buffers)
           e == AtEnd(s)
<1>2. a \in Nat /\ b \in Nat
  BY <1>1, FlowTypes
<1>3. d \in Nat /\ d = b - Bit(z)
  BY <1>1, DataOf
<1>4. (a + b) - Bit(e) <= arrived[s] /\ (rf[s].initiated => ~e)
  BY <1>1 DEF Flow, Seen
<1> HIDE DEF a, b, d, z, e
<1>5. d <= b
  BY <1>2, <1>3 DEF Bit
<1>6. d <= MaxData + 1
  BY <1>1, <1>2, <1>3, <1>4, <1>5 DEF Bit
<1>7. ~e => d <= MaxData
  BY <1>1, <1>2, <1>3, <1>4, <1>5 DEF Bit
<1>8. QED BY <1>3, <1>4, <1>6, <1>7 DEF b, d, z

\* The initial state.
LEMMA InitLevels == Init => Grouped /\ Levels
<1> SUFFICES ASSUME Init PROVE Grouped /\ Levels
  OBVIOUS
<1>1. Grouped
  BY DEF Init, Grouped
<1>2. ASSUME NEW g \in Groups PROVE Len(stack[g]) <= Cardinality(Unread(rf, g))
  <2>1. Len(stack[g]) = 0
    BY DEF Init
  <2>2. Cardinality(Unread(rf, g)) \in Nat
    BY UnreadFinite
  <2>3. QED BY <2>1, <2>2
<1>3. QED BY <1>1, <1>2 DEF Levels

\* Steps that neither read a buffer nor fill one.
LEMMA LevelsSame ==
    ASSUME Levels, UNCHANGED stack,
           \A s \in Streams : /\ rf'[s].buffers = rf[s].buffers
                              /\ rf'[s].ring = rf[s].ring \/ rf[s].buffers = <<>>
    PROVE  Levels'
<1> DEFINE f == rf'
<1>1. \A s \in Streams : /\ f[s].buffers = rf[s].buffers
                         /\ f[s].ring = rf[s].ring \/ rf[s].buffers = <<>>
  OBVIOUS
<1> HIDE DEF f
<1>2. ASSUME NEW s \in Streams, rf[s].buffers = <<>>, NEW n \in 1..MaxData + 1
      PROVE  ~(n <= Len(Data(rf[s].buffers)))
  <2>1. Len(Data(rf[s].buffers)) = 0
    BY <1>2, NoData
  <2>2. QED BY <2>1, RecvAssumption
<1>3. ASSUME NEW g \in Groups PROVE Unread(f, g) = Unread(rf, g)
  BY <1>1, <1>2, UnreadSame
<1>4. QED BY <1>3 DEF Levels, f

\* The steps of the loop, of the kernel and of the users that do so.
LEMMA QuietStepLevels ==
    ASSUME "regroup" \notin Uses, Readers, Grouped, Levels,
           \/ \E s \in Streams : \/ RecvSuspends(s) \/ AsyncCancel(s)
                                 \/ DropStream(s) \/ TimerStrikes(s)
                                 \/ \E g \in Groups : SetBufferGroup(s, g)
                                 \/ KernelReceives(s) \/ KernelEnds(s)
           \/ SubmitFull \/ SubmitAndWait \/ SubmitDone \/ ReapDone \/ KernelTakes
           \/ UNCHANGED vars
    PROVE  Grouped' /\ Levels'
<1>1. TypeOK
  BY DEF Readers
<1>2. ASSUME NEW s \in Streams, RecvSuspends(s) PROVE Grouped' /\ Levels'
  <2>1. UNCHANGED stack /\ rf[s].buffers = <<>>
    BY <1>2 DEF RecvSuspends, ringVars
  <2>2. /\ \A t \in Streams \ {s} : rf'[t] = rf[t]
        /\ rf'[s].ring = IF rf[s].initiated THEN rf[s].ring ELSE rf[s].group
        /\ rf'[s].group = rf[s].group /\ rf'[s].buffers = rf[s].buffers
    BY <1>1, <1>2, SuspendFrame
  <2>3. Grouped'
    BY <2>2 DEF Grouped
  <2>4. Levels'
    BY <2>1, <2>2, LevelsSame
  <2>5. QED BY <2>3, <2>4
<1>3. ASSUME NEW s \in Streams, NEW g \in Groups, SetBufferGroup(s, g)
      PROVE  Grouped' /\ Levels'
  <2>1. UNCHANGED stack /\ ~rf[s].initiated /\ rf[s].buffers = <<>>
    BY <1>3 DEF SetBufferGroup, ringVars
  <2>2. /\ \A t \in Streams : rf'[t].ring = rf[t].ring /\ rf'[t].buffers = rf[t].buffers
                              /\ rf'[t].initiated = rf[t].initiated
        /\ \A t \in Streams \ {s} : rf'[t].group = rf[t].group
    BY <1>1, <1>3 DEF SetBufferGroup, TypeOK, Frame
  <2>3. Grouped'
    BY <2>1, <2>2 DEF Grouped
  <2>4. Levels'
    BY <2>1, <2>2, LevelsSame
  <2>5. QED BY <2>3, <2>4
<1>4. ASSUME UNCHANGED <<rf, stack>> PROVE Grouped' /\ Levels'
  BY <1>4 DEF Grouped, Levels
<1>5. ASSUME NEW s \in Streams, \/ AsyncCancel(s) \/ DropStream(s) \/ TimerStrikes(s)
                                \/ KernelReceives(s) \/ KernelEnds(s)
      PROVE  Grouped' /\ Levels'
  BY <1>4, <1>5
  DEF AsyncCancel, DropStream, TimerStrikes, KernelReceives, KernelEnds, frameVars, ringVars
<1>6. ASSUME \/ SubmitFull \/ SubmitAndWait \/ SubmitDone \/ ReapDone \/ KernelTakes
             \/ UNCHANGED vars
      PROVE  Grouped' /\ Levels'
  BY <1>4, <1>6
  DEF SubmitFull, SubmitAndWait, SubmitDone, ReapDone, KernelTakes, vars, frameVars, ringVars
<1>7. QED BY <1>2, <1>3, <1>5, <1>6

\* recycle_buffer takes an id from the stack.
LEMMA RecycleLevels ==
    ASSUME Readers, Grouped, Levels, NEW G \in Groups, Recycle(G)
    PROVE  Grouped' /\ Levels'
<1>1. /\ TypeOK /\ UNCHANGED rf /\ stack[G] # <<>> /\ stack[G] \in Seq(Ids)
      /\ stack' = [stack EXCEPT ![G] = Front(stack[G])]
  BY DEF Readers, TypeOK, Recycle, frameVars
<1>2. Grouped'
  BY <1>1 DEF Grouped
<1>3. Len(Front(stack[G])) = Len(stack[G]) - 1 /\ Len(stack[G]) \in Nat
  BY <1>1 DEF Front
<1>4. ASSUME NEW g \in Groups PROVE Len(stack'[g]) <= Cardinality(Unread(rf', g))
  <2>1. Len(stack[g]) <= Cardinality(Unread(rf, g))
    BY DEF Levels
  <2>2. Len(stack[g]) \in Nat /\ Cardinality(Unread(rf, g)) \in Nat
    BY <1>1, UnreadFinite DEF TypeOK
  <2>3. CASE g # G
    <3>1. stack'[g] = stack[g]
      BY <1>1, <2>3 DEF TypeOK
    <3>2. QED BY <1>1, <2>1, <3>1
  <2>4. CASE g = G
    <3>1. stack'[g] = Front(stack[G])
      BY <1>1, <2>4 DEF TypeOK
    <3>2. Len(stack'[g]) = Len(stack[g]) - 1
      BY <1>3, <2>4, <3>1
    <3> DEFINE c == Cardinality(Unread(rf, g))
    <3>3. Cardinality(Unread(rf', g)) = c
      BY <1>1
    <3> HIDE DEF c
    <3>4. QED BY <2>1, <2>2, <3>2, <3>3 DEF c
  <2>5. QED BY <2>3, <2>4
<1>5. QED BY <1>2, <1>4 DEF Levels

\* await_resume takes an id from the stack for every buffer it returns, as long
\* as there is one.
LEMMA ReturnsLevels ==
    ASSUME Readers, Flows, Grouped, Levels, NEW s \in Streams, NEW h \in BOOLEAN,
           RecvReturns(s, h)
    PROVE  Grouped' /\ Levels'
<1> DEFINE G == rf[s].group
<1>1. TypeOK /\ Tidy(rf[s].buffers) /\ G \in Groups /\ rf[s].buffers \in Seq(0..MaxData)
  BY DEF Readers, TypeOK, Under, Frame
<1>2. /\ \A t \in Streams \ {s} : rf'[t] = rf[t]
      /\ rf'[s].ring = rf[s].ring /\ rf'[s].group = rf[s].group
      /\ rf'[s].buffers = <<>> /\ rf'[s].initiated = rf[s].initiated
  BY <1>1, ReturnsType
<1>3. Grouped'
  BY <1>2 DEF Grouped
<1>4. CASE rf[s].buffers = <<>>
  <2>1. UNCHANGED stack
    BY <1>4 DEF RecvReturns, ringVars
  <2>2. \A t \in Streams : rf'[t].buffers = rf[t].buffers /\ rf'[t].ring = rf[t].ring
    BY <1>2, <1>4
  <2>3. QED BY <1>3, <2>1, <2>2, LevelsSame
<1>5. CASE rf[s].buffers # <<>>
  <2> DEFINE m == Replenish(s)
             n == Len(Data(rf[s].buffers))
             q == stack[G]
             f == rf'
  <2>1. rf[s].ring = G
    BY <1>5 DEF Grouped
  <2>2. stack' = [stack EXCEPT ![G] = SubSeq(q, 1, Len(q) - m)]
    BY <1>5 DEF RecvReturns
  <2>3. q \in Seq(Ids) /\ Len(q) \in Nat /\ n \in Nat /\ n <= MaxData + 1
    BY <1>1, FrameBound DEF TypeOK
  <2>4. m = IF n < Len(q) THEN n ELSE Len(q)
    BY DEF Replenish
  <2>5. /\ \A t \in Streams : f[t].ring = rf[t].ring
        /\ \A t \in Streams \ {s} : f[t].buffers = rf[t].buffers
        /\ Len(Data(f[s].buffers)) = 0
    BY <1>2, NoData
  <2> HIDE DEF f
  <2>6. /\ Cardinality(Unread(rf, rf[s].ring))
              = Cardinality(Unread(f, rf[s].ring)) + n
        /\ \A g : g # rf[s].ring => Unread(f, g) = Unread(rf, g)
    BY <2>3, <2>5, UnreadLess
  <2>7. ASSUME NEW g \in Groups PROVE Len(stack'[g]) <= Cardinality(Unread(f, g))
    <3>1. Len(stack[g]) <= Cardinality(Unread(rf, g))
      BY DEF Levels
    <3>2. CASE g # G
      <4>1. stack'[g] = stack[g]
        BY <1>1, <2>2, <3>2 DEF TypeOK
      <4>2. Unread(f, g) = Unread(rf, g)
        BY <2>1, <2>6, <3>2
      <4>3. QED BY <3>1, <4>1, <4>2
    <3>3. CASE g = G
      <4> DEFINE c == Cardinality(Unread(rf, g))
                 d == Cardinality(Unread(f, g))
      <4>1. c = d + n /\ d \in Nat /\ Len(q) <= c
        BY <2>1, <2>6, <3>1, <3>3, UnreadFinite
      <4>2. stack'[g] = SubSeq(q, 1, Len(q) - m)
        BY <1>1, <2>2, <3>3 DEF TypeOK
      <4> HIDE DEF q, m, n, c, d
      <4>3. Len(q) - m \in 0..Len(q)
        BY <2>3, <2>4
      <4>4. Len(SubSeq(q, 1, Len(q) - m)) = Len(q) - m
        BY <2>3, <4>3
      <4>5. Len(q) - m <= d
        BY <2>3, <2>4, <4>1
      <4>6. QED BY <4>2, <4>4, <4>5 DEF d
    <3>4. QED BY <3>2, <3>3
  <2>8. QED BY <1>3, <2>7 DEF Levels, f
<1>6. QED BY <1>4, <1>5

\* A completion is processed: data puts an id on the stack and a buffer into the
\* frame, the others do neither.
LEMMA ReapLevels ==
    ASSUME Readers, Flows, Grouped, Levels, Reap
    PROVE  Grouped' /\ Levels'
<1>1. /\ TypeOK /\ Queues /\ cq \in Seq(Cqe) /\ cq # <<>>
      /\ Process(Head(cq))
  BY DEF Readers, TypeOK, Reap
<1>2. /\ Head(cq) \in Cqe /\ Proper(Head(cq)) /\ Tells(cq, Head(cq).s)
  BY <1>1, TellTail DEF Queues
<1>3. PICK e \in Cqe : e = Head(cq)
  BY <1>2
<1>4. PICK s \in Streams : s = e.s
  BY DEF Cqe
<1>5. Process(e) /\ Proper(e) /\ Tells(cq, s)
  BY <1>1, <1>2, <1>3, <1>4
<1>6. rf[s].initiated /\ ~Zero(rf[s].buffers) /\ Tidy(rf[s].buffers)
  BY <1>5 DEF Readers, Under
<1> DEFINE f == rf'
           b == rf[s].buffers
<1>7. /\ \A t \in Streams \ {s} : f[t] = rf[t]
      /\ f[s].ring = rf[s].ring /\ f[s].group = rf[s].group
      /\ f[s].buffers = BuffersAfter(e)
  BY <1>1, <1>4, <1>5, ProcessFrame
<1>8. Grouped'
  <2>1. rf[s].group = rf[s].ring
    BY <1>6 DEF Grouped
  <2>2. \A t \in Streams : rf'[t] = rf[t] \/ rf'[t].group = rf'[t].ring
    BY <1>7, <2>1
  <2>3. QED BY <2>2 DEF Grouped
<1>9. /\ b \in Seq(0..MaxData) /\ e.n \in 0..MaxData /\ rf[s].ring \in Groups
      /\ e.kind = "data" => e.n > 0 /\ e.id \in Ids /\ e.kind \notin Errors
      /\ e.kind # "data" => e.n = 0
  BY <1>1, <1>5 DEF TypeOK, Frame, Cqe, Proper, Errors
<1>10. Len(Data(b)) \in Nat /\ Len(Data(b)) <= MaxData /\ Len(Data(b)) = Len(b)
       /\ Len(b) \in Nat
  BY <1>6, <1>9, FrameBound DEF Bit
<1>11. ASSUME NEW x \in 0..MaxData
       PROVE  Len(Data(Append(b, x))) = IF x = 0 THEN Len(b) ELSE Len(b) + 1
  <2>1. Tidy(b) /\ ~Zero(b) /\ b \in Seq(0..MaxData)
    BY <1>6, <1>9
  <2> HIDE DEF b
  <2>2. QED BY <2>1, DataAppend
<1> HIDE DEF f, b
<1>12. \A t \in Streams : f[t].ring = rf[t].ring
  BY <1>7
<1>13. CASE e.kind = "data"
  <2> DEFINE G == rf[s].ring
  <2>1. f[s].buffers = Append(b, e.n) /\ e.n # 0
    BY <1>4, <1>7, <1>9, <1>13 DEF BuffersAfter, b
  <2>2. /\ \A t \in Streams \ {s} : f[t].buffers = rf[t].buffers
        /\ Len(Data(f[s].buffers)) = Len(Data(rf[s].buffers)) + 1
        /\ Len(Data(rf[s].buffers)) \in Nat /\ Len(Data(rf[s].buffers)) <= MaxData
    BY <1>7, <1>9, <1>10, <1>11, <2>1 DEF b
  <2>3. /\ Cardinality(Unread(f, G)) = Cardinality(Unread(rf, G)) + 1
        /\ \A g : g # G => Unread(f, g) = Unread(rf, g)
    BY <1>12, <2>2, UnreadMore
  <2>4. stack' = [stack EXCEPT ![G] = Append(@, e.id)]
    BY <1>4, <1>5, <1>13 DEF Process, TakesBuffer
  <2> HIDE DEF G
  <2>5. ASSUME NEW g \in Groups PROVE Len(stack'[g]) <= Cardinality(Unread(f, g))
    <3>1. /\ Len(stack[g]) <= Cardinality(Unread(rf, g))
          /\ stack[g] \in Seq(Ids) /\ Len(stack[g]) \in Nat
          /\ Cardinality(Unread(rf, g)) \in Nat
      BY <1>1, UnreadFinite DEF Levels, TypeOK
    <3>2. CASE g # G
      <4>1. stack'[g] = stack[g]
        BY <1>1, <2>4, <3>2 DEF TypeOK
      <4>2. QED BY <2>3, <3>1, <3>2, <4>1
    <3>3. CASE g = G
      <4>1. stack'[g] = Append(stack[g], e.id)
        BY <1>1, <2>4, <3>3 DEF TypeOK
      <4>2. Len(stack'[g]) = Len(stack[g]) + 1
        BY <1>9, <1>13, <3>1, <4>1
      <4> DEFINE c == Cardinality(Unread(rf, g))
                 d == Cardinality(Unread(f, g))
      <4>3. d = c + 1 /\ Len(stack[g]) <= c /\ c \in Nat
        BY <2>3, <3>1, <3>3
      <4> HIDE DEF c, d
      <4>4. Len(stack'[g]) <= d
        BY <3>1, <4>2, <4>3
      <4>5. QED BY <4>4 DEF d
    <3>4. QED BY <3>2, <3>3
  <2>6. QED BY <1>8, <2>5 DEF Levels, f
<1>14. CASE e.kind # "data"
  <2>1. UNCHANGED stack
    BY <1>5, <1>14 DEF Process, TakesBuffer
  <2>2. f[s].buffers = b \/ f[s].buffers = Append(b, 0)
    BY <1>4, <1>7, <1>9, <1>14 DEF BuffersAfter, b
  <2>3. 0 \in 0..MaxData
    BY RecvAssumption
  <2>4. Len(Data(f[s].buffers)) = Len(Data(rf[s].buffers))
    BY <1>10, <1>11, <2>2, <2>3 DEF b
  <2>5. \A t \in Streams : Len(Data(f[t].buffers)) = Len(Data(rf[t].buffers))
    BY <1>7, <2>4
  <2>6. \A g \in Groups : Unread(f, g) = Unread(rf, g)
    BY <1>12, <2>5, UnreadSame
  <2>7. QED BY <1>8, <2>1, <2>6 DEF Levels, f
<1>15. QED BY <1>13, <1>14

\* Every step does so.
LEMMA NextLevels ==
    ASSUME "regroup" \notin Uses
    PROVE  Readers /\ Flows /\ Grouped /\ Levels /\ [Next]_vars => Grouped' /\ Levels'
<1> SUFFICES ASSUME Readers, Flows, Grouped, Levels, [Next]_vars
             PROVE  Grouped' /\ Levels'
  OBVIOUS
<1>1. ASSUME Resume \/ \E s \in Streams : RecvAtOnce(s) PROVE Grouped' /\ Levels'
  <2>1. PICK s \in Streams, h \in BOOLEAN : RecvReturns(s, h)
    BY <1>1, ReturnFlows
  <2>2. QED BY <2>1, ReturnsLevels
<1>2. ASSUME UserStep PROVE Grouped' /\ Levels'
  BY <1>1, <1>2, QuietStepLevels, RecycleLevels DEF UserStep
<1>3. ASSUME LoopStep PROVE Grouped' /\ Levels'
  BY <1>1, <1>3, QuietStepLevels, ReapLevels DEF LoopStep
<1>4. ASSUME KernelStep PROVE Grouped' /\ Levels'
  BY <1>4, QuietStepLevels DEF KernelStep
<1>5. ASSUME NEW s \in Streams, TimerStrikes(s) PROVE Grouped' /\ Levels'
  BY <1>5, QuietStepLevels
<1>6. ASSUME UNCHANGED vars PROVE Grouped' /\ Levels'
  BY <1>6, QuietStepLevels
<1>7. QED BY <1>2, <1>3, <1>4, <1>5, <1>6 DEF Next

\* Nothing unread, nothing on the stack.
LEMMA Replenished ==
    ASSUME TypeOK, Levels
    PROVE  RingIsReplenished
<1> SUFFICES ASSUME NEW g \in Groups,
                    \A s \in Streams : rf[s].ring = g => Data(rf[s].buffers) = <<>>
             PROVE  stack[g] = <<>>
  BY DEF RingIsReplenished
<1>1. Unread(rf, g) = {}
  <2> SUFFICES ASSUME NEW p \in Streams \X (1..MaxData + 1), rf[p[1]].ring = g,
                      p[2] <= Len(Data(rf[p[1]].buffers))
               PROVE  FALSE
    BY DEF Unread
  <2>1. p[1] \in Streams /\ p[2] \in 1..MaxData + 1
    OBVIOUS
  <2>2. Len(Data(rf[p[1]].buffers)) = 0
    BY <2>1
  <2>3. QED BY <2>1, <2>2, RecvAssumption
<1>2. Cardinality(Unread(rf, g)) = 0
  BY <1>1, FS_EmptySet
<1>3. stack[g] \in Seq(Ids) /\ Len(stack[g]) <= 0
  BY <1>2 DEF TypeOK, Levels
<1>4. QED BY <1>3

\* BuffersSound, when set_buffer_group is not called while data is unread: ids
\* are neither lost nor doubled, and what has been read is offered to the kernel
\* again.
THEOREM BuffersSoundHolds ==
    ASSUME "regroup" \notin Uses
    PROVE  Spec => []BuffersSound
<1> DEFINE Inv == Readers /\ Flows /\ Places /\ Grouped /\ Levels
<1>1. Init => Inv
  BY InitReaders, InitFlows, InitPlaces, InitLevels
<1>2. Inv /\ [Next]_vars => Inv'
  BY NextReaders, NextFlows, NextPlaces, NextLevels
<1>3. Inv => BuffersSound
  BY Conserved, Replenished DEF Readers, BuffersSound
<1>4. QED BY <1>1, <1>2, <1>3, PTL DEF Spec
=============================================================================

------------------------------ MODULE Counting ------------------------------
(***************************************************************************)
(* Lemmas about counting: how often a queue holds something, and how many  *)
(* coroutines are in a state.  The reference counts of the library are     *)
(* sums of such numbers, and every step changes them by one or two.        *)
(***************************************************************************)
EXTENDS Naturals, Integers, Sequences, FiniteSets, FiniteSetTheorems,
        FunctionTheorems, TLAPS

Bit(b) == IF b THEN 1 ELSE 0

\* How many entries of the queue s are in S.
Occ(s, S) == Cardinality({i \in 1..Len(s) : s[i] \in S})

\* For how many elements of D the function f is in S.
Pop(f, D, S) == Cardinality({x \in D : f[x] \in S})

-----------------------------------------------------------------------------
(* Queues.                                                                 *)

\* The positions that are counted are a finite set, so the count is a number.
LEMMA OccNat ==
    ASSUME NEW T, NEW s \in Seq(T), NEW S
    PROVE  /\ Occ(s, S) \in Nat
           /\ IsFiniteSet({i \in 1..Len(s) : s[i] \in S})
<1>1. IsFiniteSet(1..Len(s))
  BY FS_Interval
<1>2. {i \in 1..Len(s) : s[i] \in S} \subseteq 1..Len(s)
  OBVIOUS
<1>3. IsFiniteSet({i \in 1..Len(s) : s[i] \in S})
  BY <1>1, <1>2, FS_Subset
<1>4. QED BY <1>3, FS_CardinalityType DEF Occ

\* Nothing is counted exactly when no entry is in S.
LEMMA OccZero ==
    ASSUME NEW T, NEW s \in Seq(T), NEW S
    PROVE  Occ(s, S) = 0 <=> \A i \in 1..Len(s) : s[i] \notin S
<1> DEFINE A == {i \in 1..Len(s) : s[i] \in S}
<1>1. IsFiniteSet(A) /\ Occ(s, S) = Cardinality(A)
  BY OccNat DEF Occ
<1>2. A = {} <=> \A i \in 1..Len(s) : s[i] \notin S
  OBVIOUS
<1> HIDE DEF A
<1>3. Cardinality(A) = 0 <=> A = {}
  BY <1>1, FS_EmptySet
<1>4. QED BY <1>1, <1>2, <1>3

\* The empty queue holds nothing.
LEMMA OccEmpty == \A S : Occ(<<>>, S) = 0
<1>1. SUFFICES ASSUME NEW S PROVE Occ(<<>>, S) = 0
  OBVIOUS
<1>2. {i \in 1..Len(<<>>) : <<>>[i] \in S} = {}
  OBVIOUS
<1>3. QED BY <1>2, FS_EmptySet DEF Occ

\* An entry at the end counts if it is in S.
LEMMA OccAppend ==
    ASSUME NEW T, NEW s \in Seq(T), NEW x \in T, NEW S
    PROVE  Occ(Append(s, x), S) = Occ(s, S) + Bit(x \in S)
<1> DEFINE a == Append(s, x)
           A == {i \in 1..Len(s) : s[i] \in S}
           B == {i \in 1..Len(a) : a[i] \in S}
           n == Len(s) + 1
<1>1. /\ Len(s) \in Nat /\ Len(a) = n /\ a[n] = x
      /\ \A i \in 1..Len(s) : a[i] = s[i]
  OBVIOUS
<1>2. /\ Occ(s, S) = Cardinality(A) /\ Occ(a, S) = Cardinality(B)
      /\ IsFiniteSet(A)
  BY OccNat DEF Occ
<1> HIDE DEF a
<1>3. n \notin A
  BY <1>1
<1>4. B = IF x \in S THEN A \cup {n} ELSE A
  BY <1>1
<1> HIDE DEF A, B, n
<1>5. Cardinality(A) \in Nat
  BY <1>2, FS_CardinalityType
<1>6. Cardinality(A \cup {n}) = Cardinality(A) + 1
  BY <1>2, <1>3, FS_AddElement
<1>7. Occ(a, S) = Occ(s, S) + Bit(x \in S)
  BY <1>2, <1>4, <1>5, <1>6 DEF Bit
<1>8. QED BY <1>7 DEF a

\* The entry that is taken from the front no longer counts.
LEMMA OccTail ==
    ASSUME NEW T, NEW s \in Seq(T), s # <<>>, NEW S
    PROVE  Occ(s, S) = Occ(Tail(s), S) + Bit(Head(s) \in S)
<1> DEFINE u == Tail(s)
           A == {i \in 1..Len(s) : s[i] \in S}
           B == {i \in 1..Len(u) : u[i] \in S}
           C == {i \in 2..Len(s) : s[i] \in S}
           f == [i \in B |-> i + 1]
<1>1. /\ Len(s) \in Nat \ {0} /\ Len(u) = Len(s) - 1 /\ Head(s) = s[1]
      /\ \A i \in 1..Len(u) : u[i] = s[i + 1]
      /\ u \in Seq(T)
  OBVIOUS
<1>2. /\ Occ(s, S) = Cardinality(A) /\ Occ(u, S) = Cardinality(B)
      /\ IsFiniteSet(A) /\ IsFiniteSet(B)
  BY <1>1, OccNat DEF Occ
<1> HIDE DEF u
<1>3. /\ f \in [B -> C]
      /\ \A i, j \in B : f[i] = f[j] => i = j
      /\ \A k \in C : \E i \in B : f[i] = k
  <2>1. f \in [B -> C]
    BY <1>1
  <2>2. \A i, j \in B : f[i] = f[j] => i = j
    BY <1>1
  <2>3. \A k \in C : \E i \in B : f[i] = k
    <3>1. TAKE k \in C
    <3>2. k - 1 \in B /\ f[k - 1] = k
      BY <1>1
    <3>3. QED BY <3>2
  <2>4. QED BY <2>1, <2>2, <2>3
<1>4. 1 \notin C
  OBVIOUS
<1>5. A = IF Head(s) \in S THEN C \cup {1} ELSE C
  BY <1>1
<1> HIDE DEF A, B, C, f
<1>6. f \in Bijection(B, C)
  BY <1>3, Fun_IsBij
<1>7. IsFiniteSet(C) /\ Cardinality(C) = Cardinality(B)
  BY <1>2, <1>6, FS_Bijection DEF ExistsBijection
<1>8. Cardinality(B) \in Nat
  BY <1>2, FS_CardinalityType
<1>9. Cardinality(C \cup {1}) = Cardinality(C) + 1
  BY <1>4, <1>7, FS_AddElement
<1>10. Occ(s, S) = Occ(u, S) + Bit(Head(s) \in S)
  BY <1>2, <1>5, <1>7, <1>8, <1>9 DEF Bit
<1>11. QED BY <1>10 DEF u

\* Two entries at the end are one after the other.
LEMMA ConcatTwo ==
    ASSUME NEW T, NEW s \in Seq(T), NEW x \in T, NEW y \in T
    PROVE  s \o <<x, y>> = Append(Append(s, x), y)
OBVIOUS

-----------------------------------------------------------------------------
(* Functions.                                                              *)

\* The count over a finite domain is a number.
LEMMA PopNat ==
    ASSUME NEW D, IsFiniteSet(D), NEW f, NEW S
    PROVE  Pop(f, D, S) \in Nat /\ IsFiniteSet({x \in D : f[x] \in S})
<1>1. IsFiniteSet({x \in D : f[x] \in S})
  BY FS_Subset
<1>2. QED BY <1>1, FS_CardinalityType DEF Pop

\* Nobody is counted exactly when f is never in S, everybody exactly when it
\* always is.
LEMMA PopZero ==
    ASSUME NEW D, IsFiniteSet(D), NEW f, NEW S
    PROVE  /\ Pop(f, D, S) = 0 <=> \A x \in D : f[x] \notin S
           /\ (\A x \in D : f[x] \in S) => Pop(f, D, S) = Cardinality(D)
<1> DEFINE A == {x \in D : f[x] \in S}
<1>1. IsFiniteSet(A) /\ Pop(f, D, S) = Cardinality(A)
  BY PopNat DEF Pop
<1>2. A = {} <=> \A x \in D : f[x] \notin S
  OBVIOUS
<1>3. (\A x \in D : f[x] \in S) => A = D
  OBVIOUS
<1> HIDE DEF A
<1>4. Cardinality(A) = 0 <=> A = {}
  BY <1>1, FS_EmptySet
<1>5. QED BY <1>1, <1>2, <1>3, <1>4

\* Changing one value changes the count by what it was and what it becomes.
LEMMA PopChange ==
    ASSUME NEW D, IsFiniteSet(D), NEW f, NEW g, NEW d \in D,
           \A x \in D \ {d} : g[x] = f[x], NEW S
    PROVE  Pop(g, D, S) + Bit(f[d] \in S) = Pop(f, D, S) + Bit(g[d] \in S)
<1> DEFINE A == {x \in D : f[x] \in S}
           B == {x \in D : g[x] \in S}
           C == {x \in D \ {d} : f[x] \in S}
<1>1. Pop(f, D, S) = Cardinality(A) /\ Pop(g, D, S) = Cardinality(B)
  BY DEF Pop
<1>2. C \in SUBSET D /\ d \notin C
  OBVIOUS
<1>3. /\ A = IF f[d] \in S THEN C \cup {d} ELSE C
      /\ B = IF g[d] \in S THEN C \cup {d} ELSE C
  OBVIOUS
<1> HIDE DEF A, B, C
<1>4. IsFiniteSet(C)
  BY <1>2, FS_Subset
<1>5. Cardinality(C) \in Nat
  BY <1>4, FS_CardinalityType
<1>6. Cardinality(C \cup {d}) = Cardinality(C) + 1
  BY <1>2, <1>4, FS_AddElement
<1>7. QED BY <1>1, <1>3, <1>5, <1>6 DEF Bit

-----------------------------------------------------------------------------
(* Queues of operations, which have a field op, and queues of handles.      *)

OfOp(s, op)  == Cardinality({i \in 1..Len(s) : s[i].op = op})
Times(s, x) == Cardinality({i \in 1..Len(s) : s[i] = x})

\* How many entries of a queue are of an operation, under every change a queue
\* undergoes; how often a queue holds an entry.
OpLaws(T) ==
    /\ \A op : OfOp(<<>>, op) = 0
    /\ \A s \in Seq(T) : \A op : OfOp(s, op) \in Nat
    /\ \A s \in Seq(T) : \A op :
          OfOp(s, op) = 0 <=> \A i \in 1..Len(s) : s[i].op # op
    /\ \A s \in Seq(T), x \in T : \A op :
          OfOp(Append(s, x), op) = OfOp(s, op) + Bit(x.op = op)
    /\ \A s \in Seq(T) : \A op : s # <<>> =>
          OfOp(s, op) = OfOp(Tail(s), op) + Bit(Head(s).op = op)

TimesLaws(T) ==
    /\ \A x : Times(<<>>, x) = 0
    /\ \A s \in Seq(T) : \A x : Times(s, x) \in Nat
    /\ \A s \in Seq(T) : \A x :
          Times(s, x) = 0 <=> \A i \in 1..Len(s) : s[i] # x
    /\ \A s \in Seq(T), y \in T : \A x :
          Times(Append(s, y), x) = Times(s, x) + Bit(y = x)
    /\ \A s \in Seq(T) : \A x : s # <<>> =>
          Times(s, x) = Times(Tail(s), x) + Bit(Head(s) = x)

\* Entries are counted one by one as they are queued and taken.
LEMMA OfOpFacts ==
    ASSUME NEW T
    PROVE  OpLaws(T)
<1> DEFINE K(op) == {x \in T : x.op = op}
<1>1. ASSUME NEW s \in Seq(T), NEW op PROVE OfOp(s, op) = Occ(s, K(op))
  <2>1. {i \in 1..Len(s) : s[i].op = op} = {i \in 1..Len(s) : s[i] \in K(op)}
    OBVIOUS
  <2>2. QED BY <2>1 DEF OfOp, Occ
<1>2. <<>> \in Seq(T)
  OBVIOUS
<1>3. \A op : OfOp(<<>>, op) = 0
  BY <1>1, <1>2, OccEmpty
<1>4. ASSUME NEW s \in Seq(T), NEW op
      PROVE  /\ OfOp(s, op) \in Nat
             /\ OfOp(s, op) = 0 <=> \A i \in 1..Len(s) : s[i].op # op
  <2>1. Occ(s, K(op)) \in Nat
    BY OccNat
  <2>2. Occ(s, K(op)) = 0 <=> \A i \in 1..Len(s) : s[i] \notin K(op)
    BY OccZero
  <2>3. \A i \in 1..Len(s) : s[i] \notin K(op) <=> s[i].op # op
    OBVIOUS
  <2>4. QED BY <1>1, <2>1, <2>2, <2>3
<1>5. ASSUME NEW s \in Seq(T), NEW x \in T, NEW op
      PROVE  OfOp(Append(s, x), op) = OfOp(s, op) + Bit(x.op = op)
  <2>1. Occ(Append(s, x), K(op)) = Occ(s, K(op)) + Bit(x \in K(op))
    BY OccAppend
  <2>2. Append(s, x) \in Seq(T) /\ (x \in K(op) <=> x.op = op)
    OBVIOUS
  <2> HIDE DEF K
  <2>3. QED BY <1>1, <2>1, <2>2 DEF Bit
<1>6. ASSUME NEW s \in Seq(T), NEW op, s # <<>>
      PROVE  OfOp(s, op) = OfOp(Tail(s), op) + Bit(Head(s).op = op)
  <2>1. Occ(s, K(op)) = Occ(Tail(s), K(op)) + Bit(Head(s) \in K(op))
    BY <1>6, OccTail
  <2>2. Tail(s) \in Seq(T) /\ Head(s) \in T
    BY <1>6
  <2>3. Head(s) \in K(op) <=> Head(s).op = op
    BY <2>2
  <2> HIDE DEF K
  <2>4. QED BY <1>1, <2>1, <2>2, <2>3 DEF Bit
<1>7. QED BY <1>3, <1>4, <1>5, <1>6 DEF OpLaws

\* The same for one entry.
LEMMA TimesFacts ==
    ASSUME NEW T
    PROVE  TimesLaws(T)
<1>1. ASSUME NEW s \in Seq(T), NEW x PROVE Times(s, x) = Occ(s, {x})
  <2>1. {i \in 1..Len(s) : s[i] = x} = {i \in 1..Len(s) : s[i] \in {x}}
    OBVIOUS
  <2>2. QED BY <2>1 DEF Times, Occ
<1>2. <<>> \in Seq(T)
  OBVIOUS
<1>3. \A x : Times(<<>>, x) = 0
  BY <1>1, <1>2, OccEmpty
<1>4. ASSUME NEW s \in Seq(T), NEW x
      PROVE  /\ Times(s, x) \in Nat
             /\ Times(s, x) = 0 <=> \A i \in 1..Len(s) : s[i] # x
  <2>1. Occ(s, {x}) \in Nat
    BY OccNat
  <2>2. Occ(s, {x}) = 0 <=> \A i \in 1..Len(s) : s[i] \notin {x}
    BY OccZero
  <2>3. QED BY <1>1, <2>1, <2>2
<1>5. ASSUME NEW s \in Seq(T), NEW y \in T, NEW x
      PROVE  Times(Append(s, y), x) = Times(s, x) + Bit(y = x)
  <2>1. Occ(Append(s, y), {x}) = Occ(s, {x}) + Bit(y \in {x})
    BY OccAppend
  <2>2. Append(s, y) \in Seq(T)
    OBVIOUS
  <2>3. QED BY <1>1, <2>1, <2>2 DEF Bit
<1>6. ASSUME NEW s \in Seq(T), NEW x, s # <<>>
      PROVE  Times(s, x) = Times(Tail(s), x) + Bit(Head(s) = x)
  <2>1. Occ(s, {x}) = Occ(Tail(s), {x}) + Bit(Head(s) \in {x})
    BY <1>6, OccTail
  <2>2. Tail(s) \in Seq(T)
    BY <1>6
  <2>3. QED BY <1>1, <2>1, <2>2 DEF Bit
<1>7. QED BY <1>3, <1>4, <1>5, <1>6 DEF TimesLaws

\* What is in a queue after an entry was put at its end, or two were.
LEMMA Entries ==
    ASSUME NEW T, NEW s \in Seq(T), NEW x \in T
    PROVE  /\ Append(s, x) \in Seq(T)
           /\ \A i \in 1..Len(Append(s, x)) :
                 \/ i \in 1..Len(s) /\ Append(s, x)[i] = s[i]
                 \/ Append(s, x)[i] = x
           /\ \A i \in 1..Len(s) :
                 i \in 1..Len(Append(s, x)) /\ Append(s, x)[i] = s[i]
           /\ Len(s) + 1 \in 1..Len(Append(s, x))
           /\ Append(s, x)[Len(s) + 1] = x
OBVIOUS

\* The same for two entries that are put there together.
LEMMA TwoEntries ==
    ASSUME NEW T, NEW s \in Seq(T), NEW x \in T, NEW y \in T
    PROVE  /\ s \o <<x, y>> \in Seq(T)
           /\ \A i \in 1..Len(s \o <<x, y>>) :
                 \/ i \in 1..Len(s) /\ (s \o <<x, y>>)[i] = s[i]
                 \/ (s \o <<x, y>>)[i] = x
                 \/ (s \o <<x, y>>)[i] = y
           /\ \A op : OfOp(s \o <<x, y>>, op)
                          = OfOp(s, op) + Bit(x.op = op) + Bit(y.op = op)
<1> DEFINE a == Append(s, x)
<1>1. /\ a \in Seq(T)
      /\ \A i \in 1..Len(a) : (i \in 1..Len(s) /\ a[i] = s[i]) \/ a[i] = x
  BY Entries
<1>2. \A op : OfOp(a, op) = OfOp(s, op) + Bit(x.op = op)
  BY OfOpFacts DEF OpLaws
<1> HIDE DEF a
<1>3. /\ Append(a, y) \in Seq(T)
      /\ \A i \in 1..Len(Append(a, y)) :
            (i \in 1..Len(a) /\ Append(a, y)[i] = a[i]) \/ Append(a, y)[i] = y
  BY <1>1, Entries
<1>4. \A op : OfOp(Append(a, y), op) = OfOp(a, op) + Bit(y.op = op)
  BY <1>1, OfOpFacts DEF OpLaws
<1> DEFINE b == Append(a, y)
<1>5. b = s \o <<x, y>>
  BY ConcatTwo DEF a
<1> HIDE DEF b
<1>6. /\ b \in Seq(T)
      /\ \A i \in 1..Len(b) :
            \/ i \in 1..Len(s) /\ b[i] = s[i]
            \/ b[i] = x
            \/ b[i] = y
  BY <1>1, <1>3 DEF b
<1>7. \A op : OfOp(b, op) = OfOp(s, op) + Bit(x.op = op) + Bit(y.op = op)
  BY <1>2, <1>4 DEF b
<1>8. QED BY <1>5, <1>6, <1>7, Zenon

\* What is left in a queue after its first entry was taken.
LEMMA TailEntries ==
    ASSUME NEW T, NEW s \in Seq(T), s # <<>>
    PROVE  /\ Tail(s) \in Seq(T) /\ Head(s) \in T
           /\ 1 \in 1..Len(s) /\ Head(s) = s[1]
           /\ \A i \in 1..Len(Tail(s)) :
                 i + 1 \in 1..Len(s) /\ Tail(s)[i] = s[i + 1]
OBVIOUS

\* No a comes after a b.
Precedes(s, a, b) ==
    \A i, j \in 1..Len(s) : s[i].op = a /\ s[j].op = b => i < j

\* The order of the entries of a queue, as they are queued and taken.
OrderLaws(T) ==
    /\ \A a, b : Precedes(<<>>, a, b)
    /\ \A s \in Seq(T) : \A a, b :
          OfOp(s, a) = 0 \/ OfOp(s, b) = 0 => Precedes(s, a, b)
    /\ \A s \in Seq(T), x \in T : \A a, b :
          a # b /\ Precedes(s, a, b) /\ (x.op = a => OfOp(s, b) = 0)
             => Precedes(Append(s, x), a, b)
    /\ \A s \in Seq(T) : \A a, b :
          s # <<>> /\ Precedes(s, a, b) => Precedes(Tail(s), a, b)
    /\ \A s \in Seq(T) : \A a, b :
          s # <<>> /\ Precedes(s, a, b) /\ Head(s).op = b => OfOp(s, a) = 0

\* Queues keep the order of their entries.
LEMMA OrderFacts ==
    ASSUME NEW T
    PROVE  OrderLaws(T)
<1>1. \A a, b : Precedes(<<>>, a, b)
  BY DEF Precedes
<1>2. \A s \in Seq(T) : \A op :
         OfOp(s, op) = 0 <=> \A i \in 1..Len(s) : s[i].op # op
  BY OfOpFacts DEF OpLaws
<1>3. ASSUME NEW s \in Seq(T), NEW a, NEW b, OfOp(s, a) = 0 \/ OfOp(s, b) = 0
      PROVE  Precedes(s, a, b)
  BY <1>2, <1>3 DEF Precedes
<1>4. ASSUME NEW s \in Seq(T), NEW x \in T, NEW a, NEW b, a # b,
             Precedes(s, a, b), x.op = a => OfOp(s, b) = 0
      PROVE  Precedes(Append(s, x), a, b)
  <2> DEFINE u == Append(s, x)
  <2>1. SUFFICES ASSUME NEW i \in 1..Len(u), NEW j \in 1..Len(u),
                        u[i].op = a, u[j].op = b
                 PROVE  i < j
    BY DEF Precedes
  <2>2. Len(s) \in Nat /\ Len(u) = Len(s) + 1
    OBVIOUS
  <2>3. \A k \in 1..Len(s) : u[k] = s[k]
    OBVIOUS
  <2>4. u[Len(s) + 1] = x
    OBVIOUS
  <2> HIDE DEF u
  <2>5. CASE j = Len(s) + 1
    BY <1>4, <2>1, <2>2, <2>4, <2>5
  <2>6. CASE j # Len(s) + 1
    <3>1. j \in 1..Len(s) /\ s[j].op = b
      BY <2>1, <2>2, <2>3, <2>6
    <3>2. OfOp(s, b) # 0
      BY <1>2, <3>1
    <3>3. i # Len(s) + 1
      BY <1>4, <2>1, <2>4, <3>2
    <3>4. i \in 1..Len(s) /\ s[i].op = a
      BY <2>1, <2>2, <2>3, <3>3
    <3>5. QED BY <1>4, <3>1, <3>4 DEF Precedes
  <2>7. QED BY <2>5, <2>6
<1>5. ASSUME NEW s \in Seq(T), NEW a, NEW b, s # <<>>, Precedes(s, a, b)
      PROVE  Precedes(Tail(s), a, b)
  <2> DEFINE u == Tail(s)
  <2>1. \A k \in 1..Len(u) : k \in Nat /\ k + 1 \in 1..Len(s) /\ u[k] = s[k + 1]
    BY <1>5
  <2> HIDE DEF u
  <2>2. SUFFICES ASSUME NEW i \in 1..Len(u), NEW j \in 1..Len(u),
                        u[i].op = a, u[j].op = b
                 PROVE  i < j
    BY DEF Precedes, u
  <2>3. i + 1 < j + 1
    BY <1>5, <2>1, <2>2 DEF Precedes
  <2>4. QED BY <2>1, <2>3
<1>6. ASSUME NEW s \in Seq(T), NEW a, NEW b, s # <<>>, Precedes(s, a, b),
             Head(s).op = b
      PROVE  OfOp(s, a) = 0
  <2>1. 1 \in 1..Len(s) /\ s[1].op = b
    BY <1>6
  <2>2. \A i \in 1..Len(s) : s[i].op # a
    BY <1>6, <2>1 DEF Precedes
  <2>3. QED BY <1>2, <2>2
<1>7. QED BY <1>1, <1>3, <1>4, <1>5, <1>6 DEF OrderLaws

\* Entries of other operations are put at the end of a queue.
LEMMA Suffix ==
    ASSUME NEW T, NEW s \in Seq(T), NEW t \in Seq(T), NEW O,
           \A i \in 1..Len(t) : t[i].op \in O
    PROVE  /\ s \o t \in Seq(T)
           /\ \A i \in 1..Len(s \o t) : (s \o t)[i].op \notin O =>
                 i \in 1..Len(s) /\ (s \o t)[i] = s[i]
           /\ \A op : op \notin O => OfOp(s \o t, op) = OfOp(s, op)
           /\ \A a, b : a \notin O /\ Precedes(s, a, b) => Precedes(s \o t, a, b)
           /\ \A i \in 1..Len(t) : \E j \in 1..Len(s \o t) : (s \o t)[j] = t[i]
           /\ \A i \in 1..Len(s) : i \in 1..Len(s \o t) /\ (s \o t)[i] = s[i]
<1> DEFINE u == s \o t
<1>1. /\ u \in Seq(T) /\ Len(u) = Len(s) + Len(t) /\ Len(s) \in Nat /\ Len(t) \in Nat
      /\ \A i \in 1..Len(s) : u[i] = s[i]
  OBVIOUS
<1>2. \A i \in 1..Len(t) : u[Len(s) + i] = t[i]
  OBVIOUS
<1> HIDE DEF u
<1>3. ASSUME NEW i \in 1..Len(u), i \notin 1..Len(s)
      PROVE  i > Len(s) /\ u[i].op \in O
  <2>1. i - Len(s) \in 1..Len(t) /\ i = Len(s) + (i - Len(s)) /\ i > Len(s)
    BY <1>1, <1>3
  <2>2. u[i] = t[i - Len(s)]
    BY <1>2, <2>1
  <2>3. QED BY <2>1, <2>2
<1>4. \A i \in 1..Len(u) : u[i].op \notin O => i \in 1..Len(s) /\ u[i] = s[i]
  BY <1>1, <1>3
<1>5. ASSUME NEW op, op \notin O PROVE OfOp(u, op) = OfOp(s, op)
  <2>1. \A i : i \in 1..Len(s) => i \in 1..Len(u)
    BY <1>1
  <2>2. {i \in 1..Len(u) : u[i].op = op} = {i \in 1..Len(s) : s[i].op = op}
    BY <1>1, <1>4, <1>5, <2>1
  <2>3. QED BY <2>2 DEF OfOp
<1>6. ASSUME NEW a, NEW b, a \notin O, Precedes(s, a, b) PROVE Precedes(u, a, b)
  <2>1. SUFFICES ASSUME NEW i \in 1..Len(u), NEW j \in 1..Len(u),
                        u[i].op = a, u[j].op = b
                 PROVE  i < j
    BY DEF Precedes
  <2>2. i \in 1..Len(s) /\ s[i].op = a
    BY <1>4, <1>6, <2>1
  <2>3. CASE j \in 1..Len(s)
    BY <1>1, <1>6, <2>1, <2>2, <2>3 DEF Precedes
  <2>4. CASE j \notin 1..Len(s)
    BY <1>1, <1>3, <2>2, <2>4
  <2>5. QED BY <2>3, <2>4
<1>7. ASSUME NEW i \in 1..Len(t) PROVE \E j \in 1..Len(u) : u[j] = t[i]
  <2>1. Len(s) + i \in 1..Len(u)
    BY <1>1
  <2>2. QED BY <1>2, <2>1
<1>8. \A i \in 1..Len(s) : i \in 1..Len(u) /\ u[i] = s[i]
  BY <1>1
<1>9. QED BY <1>1, <1>4, <1>5, <1>6, <1>7, <1>8 DEF u

\* The members of two sets with nothing in common.
LEMMA DisjointSum ==
    ASSUME NEW A, NEW B, IsFiniteSet(A), IsFiniteSet(B), A \cap B = {}
    PROVE  /\ IsFiniteSet(A \cup B)
           /\ Cardinality(A \cup B) = Cardinality(A) + Cardinality(B)
<1>1. /\ IsFiniteSet(A \cup B)
      /\ Cardinality(A \cup B) = Cardinality(A) + Cardinality(B) - Cardinality(A \cap B)
  BY FS_Union
<1>2. Cardinality(A) \in Nat /\ Cardinality(B) \in Nat /\ Cardinality(A \cap B) = 0
  BY FS_CardinalityType, FS_EmptySet
<1>3. QED BY <1>1, <1>2

\* A member more to choose from.
LEMMA FilterAdd ==
    ASSUME NEW D, IsFiniteSet(D), NEW x, x \notin D, NEW S
    PROVE  /\ IsFiniteSet({k \in D \cup {x} : k \in S})
           /\ Cardinality({k \in D \cup {x} : k \in S})
                 = Cardinality({k \in D : k \in S}) + Bit(x \in S)
<1> DEFINE A == {k \in D : k \in S}
           B == {k \in D \cup {x} : k \in S}
<1>1. IsFiniteSet(A) /\ x \notin A /\ Cardinality(A) \in Nat
  BY FS_Subset, FS_CardinalityType
<1>2. B = IF x \in S THEN A \cup {x} ELSE A
  OBVIOUS
<1> HIDE DEF A, B
<1>3. IsFiniteSet(A \cup {x}) /\ Cardinality(A \cup {x}) = Cardinality(A) + 1
  BY <1>1, FS_AddElement
<1>4. IsFiniteSet(B) /\ Cardinality(B) = Cardinality(A) + Bit(x \in S)
  <2>1. CASE x \in S
    BY <1>2, <1>3, <2>1 DEF Bit
  <2>2. CASE x \notin S
    BY <1>1, <1>2, <2>2 DEF Bit
  <2>3. QED BY <2>1, <2>2
<1>5. QED BY <1>4 DEF A, B
=============================================================================

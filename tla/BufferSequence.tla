--------------------------- MODULE BufferSequence ---------------------------
(***************************************************************************)
(* fiona::recv_buffer_sequence: doubly linked lists of recv_buffers.  A    *)
(* heap holds the links and the fields of every list; each operation is an *)
(* operator from heap to heap.  The sentry of a list is a node that has    *)
(* the name of the list.                                                   *)
(***************************************************************************)
EXTENDS Naturals, Sequences, FiniteSets, SequencesExt

CONSTANTS Lists,  \* the recv_buffer_sequences
          Bufs,   \* the recv_buffers, by the address of their header
          Null    \* a null pointer

ASSUME BufferSequenceAssumption ==
    Lists \cap Bufs = {} /\ Null \notin Lists \cup Bufs

Nodes == Lists \cup Bufs

Heaps == [next : [Nodes -> Nodes \cup {Null}], prev : [Nodes -> Nodes \cup {Null}],
          head : [Lists -> Nodes \cup {Null}], tail : [Lists -> Nodes \cup {Null}],
          num : [Lists -> Nat]]

\* Default constructed headers and lists.
EmptyHeap == [next |-> [n \in Nodes |-> Null], prev |-> [n \in Nodes |-> Null],
              head |-> [q \in Lists |-> Null], tail |-> [q \in Lists |-> Null],
              num |-> [q \in Lists |-> 0]]

SetNext(h, p, n) == [h EXCEPT !.next[p] = n]
SetPrev(h, p, n) == [h EXCEPT !.prev[p] = n]

PushBack(h, q, p) ==
    LET t == h.tail[q]
        linked == IF t = Null THEN h ELSE SetPrev(SetNext(h, t, p), p, t)
    IN  [SetPrev(SetNext(linked, p, q), q, p) EXCEPT
            !.tail[q] = p, !.head[q] = IF @ = Null THEN p ELSE @,
            !.num[q] = @ + 1]

\* Mutant of PopFront: the last buffer leaves head_ and tail_ behind.
PopFrontKeepsTail(h, q) ==
    LET p == h.head[q]
        n == h.next[p]
    IN  [SetPrev(SetPrev(SetNext(h, p, Null), p, Null), n, Null) EXCEPT
            !.head[q] = n, !.num[q] = @ - 1]

\* The buffer it returns is h.head[q].
PopFront(h, q) ==
    LET p == h.head[q]
        n == h.next[p]
        cut == SetPrev(SetPrev(SetNext(h, p, Null), p, Null), n, Null)
    IN  IF p = h.tail[q]
        THEN [cut EXCEPT !.head[q] = Null, !.tail[q] = Null, !.num[q] = @ - 1]
        ELSE [cut EXCEPT !.head[q] = n, !.num[q] = @ - 1]

\* The buffers of list q, from head_ along next_.
Contents(h, q) ==
    LET nth[i \in 1..h.num[q]] ==
            IF i = 1 THEN h.head[q] ELSE h.next[nth[i - 1]]
    IN  [i \in 1..h.num[q] |-> nth[i]]

\* free_list: a buffer that is allocated later has a new header.
FreeList(h, q) ==
    LET freed == ToSet(Contents(h, q)) \cup {q} IN
    IF h.head[q] = Null THEN h
    ELSE [h EXCEPT !.head[q] = Null, !.tail[q] = Null, !.num[q] = 0,
                   !.next = [n \in Nodes |-> IF n \in freed THEN Null ELSE @[n]],
                   !.prev = [n \in Nodes |-> IF n \in freed THEN Null ELSE @[n]]]

\* The move constructor, and move assignment, which frees the target first.
MoveTo(h, q, from) ==
    LET f == IF h.num[q] # 0 THEN FreeList(h, q) ELSE h
        m == [f EXCEPT !.head[q] = f.head[from], !.head[from] = Null,
                       !.tail[q] = f.tail[from], !.tail[from] = Null,
                       !.num[q] = f.num[from], !.num[from] = 0]
        p == SetPrev(SetPrev(m, from, Null), q, m.tail[q])
    IN  IF m.tail[q] = Null THEN p ELSE SetNext(p, m.tail[q], q)

Concat(h, q, from) ==
    LET t == h.tail[q]
        joined == SetPrev(SetNext(h, t, h.head[from]), h.head[from], t)
        closed == SetPrev(SetPrev(SetNext(joined, h.tail[from], q),
                                  q, h.tail[from]), from, Null)
    IN  IF h.num[from] = 0 THEN h
        ELSE IF h.num[q] = 0 THEN MoveTo(h, q, from)
        ELSE [closed EXCEPT !.tail[q] = h.tail[from], !.num[q] = @ + h.num[from],
                            !.head[from] = Null, !.tail[from] = Null,
                            !.num[from] = 0]

\* List q is s: next_ leads through s to the sentry, prev_ back from the sentry
\* to the first buffer, which has no predecessor.
IsList(h, q, s) ==
    /\ h.num[q] = Len(s)
    /\ IF s = <<>> THEN h.head[q] = Null /\ h.tail[q] = Null /\ h.prev[q] = Null
       ELSE /\ h.head[q] = s[1] /\ h.tail[q] = s[Len(s)]
            /\ h.prev[s[1]] = Null /\ h.next[s[Len(s)]] = q
            /\ h.prev[q] = s[Len(s)]
            /\ \A i \in 1..Len(s) - 1 : /\ h.next[s[i]] = s[i + 1]
                                        /\ h.prev[s[i + 1]] = s[i]

Listed(h, q) == ToSet(Contents(h, q))

\* Every list is one, no buffer is twice in a list or in two lists, and a buffer
\* in none has null links.
WellFormed(h) ==
    /\ \A q \in Lists : /\ IsList(h, q, Contents(h, q))
                        /\ Cardinality(Listed(h, q)) = h.num[q]
    /\ \A q, r \in Lists : q # r => Listed(h, q) \cap Listed(h, r) = {}
    /\ \A p \in Bufs \ UNION {Listed(h, q) : q \in Lists} :
          h.next[p] = Null /\ h.prev[p] = Null
=============================================================================

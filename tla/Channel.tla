------------------------------ MODULE Channel -------------------------------
(***************************************************************************)
(* What a connection promises to the coroutine that reads from it: units   *)
(* arrive in the order in which they were sent, none is lost or repeated,  *)
(* several may come at a time, and the end of file comes once, after the   *)
(* last of them.  The units sent on a connection are numbered from 1.      *)
(***************************************************************************)
EXTENDS Naturals, Sequences

CONSTANTS Conns,  \* the connections
          Units   \* bound: units sent on a connection

VARIABLES sent,      \* units sent, per connection
          closed,    \* whether the sender has closed
          received,  \* what has been returned to the reader
          eof        \* whether the end of file has been returned

vars == <<sent, closed, received, eof>>

Init == /\ sent = [c \in Conns |-> 0] /\ closed = [c \in Conns |-> FALSE]
        /\ received = [c \in Conns |-> <<>>] /\ eof = [c \in Conns |-> FALSE]

Send(c) == /\ ~closed[c]
           /\ \E n \in sent[c] + 1..Units : sent' = [sent EXCEPT ![c] = n]
           /\ UNCHANGED <<closed, received, eof>>

Close(c) == /\ ~closed[c]
            /\ closed' = [closed EXCEPT ![c] = TRUE]
            /\ UNCHANGED <<sent, received, eof>>

\* The reader gets the next units, up to the n-th, and perhaps the end of file.
Receive(c) ==
    /\ ~eof[c]
    /\ \E n \in Len(received[c])..sent[c], last \in BOOLEAN :
          /\ n > Len(received[c]) \/ last
          /\ last => closed[c] /\ n = sent[c]
          /\ received' = [received EXCEPT ![c] = [i \in 1..n |-> i]]
          /\ eof' = [eof EXCEPT ![c] = last]
    /\ UNCHANGED <<sent, closed>>

Next == \E c \in Conns : Send(c) \/ Close(c) \/ Receive(c)

Spec == Init /\ [][Next]_vars
=============================================================================

-------------------------------- MODULE Tls ---------------------------------
(***************************************************************************)
(* fiona::tls::client and fiona::tls::server: a session of two endpoints   *)
(* that do the handshake, send and receive at the same time, shut down and *)
(* close, with the buffers of tls_callbacks.                               *)
(*                                                                         *)
(* A cell is what fits a unit of capacity.  A record is a header cell and  *)
(* the cells of its plaintext, a message of the handshake and a            *)
(* close_notify are one cell.  The tls::Channel of Botan is external: it   *)
(* keeps an incomplete record, calls the callbacks for a complete one, and *)
(* copies what it is given before it looks at it.  Below is a TCP          *)
(* connection that splits and joins as it likes.                           *)
(***************************************************************************)
EXTENDS BufferSequence

CONSTANTS
    Cap,        \* the capacity of the buffers of the ring
    Plain,      \* how many cells each endpoint sends
    MaxRecord,  \* the largest record
    LastWords,  \* who may send the last message of the handshake
    Ends,       \* how the session ends, see below
    Uses        \* what happens beyond the usual, see below

Sides == {"client", "server"}
Peer(s) == IF s = "client" THEN "server" ELSE "client"

\* LastWords: the server in a full handshake of TLS 1.2, the client in TLS 1.3 and
\* when a session is resumed.
\* Ends: "shutdown": each endpoint knows how much there is to read, reads it and
\* shuts down; "hangup": the server closes without, the client reads to the end.
\* "earlyData": who has the last word of the handshake sends before it has heard
\* from its peer;
\* "shortSend": TCP takes only part of what is sent;
\* "reset": the connection breaks.
ASSUME TlsAssumption ==
    /\ Lists = {"bufs", "input", "output", "result", "all"}
    /\ Cap \in Nat \ {0} /\ MaxRecord \in Nat \ {0}
    /\ Plain \in [Sides -> Nat \ {0}] /\ LastWords \subseteq Sides
    /\ Ends \subseteq {"shutdown", "hangup"}
    /\ Uses \subseteq {"earlyData", "shortSend", "reset"}

VARIABLES
    ep,       \* the endpoints
    wire,     \* the cells on the way to each endpoint
    fin,      \* whether the peer of each endpoint has closed
    lost,     \* whether the connection is broken
    end,      \* how this session ends
    lastWord  \* who sends the last message of its handshake

vars == <<ep, wire, fin, lost, end, lastWord>>

Kinds == {"hello", "flight", "finished", "done", "record", "data", "notify"}
Cell(k, n) == [k |-> k, n |-> n]
Cells == [k : Kinds, n : Nat]

Endpoints ==
    [main : {"send", "recv", "open", "closeSend", "closeRecv", "closed", "failed"},
     rx : {"idle", "recv", "end"}, tx : {"idle", "send"},
     sendBuf : Seq(Cells),      \* send_buf_
     inflight : Nat,            \* how much of it the send under way has
     complete : BOOLEAN,        \* is_handshake_complete()
     need : Nat, acc : Seq(Nat),\* the incomplete record Botan keeps
     seq : Nat,                 \* the cells of the records before it
     bad : BOOLEAN,             \* Botan has refused what it was given
     record : BOOLEAN,          \* received_record_
     notified : BOOLEAN,        \* close_notify_received_
     hp : Heaps,                \* input_sequence_, output_sequence_, locals
     data : [Bufs -> Seq(Cells)], cap : [Bufs -> {0, Cap}],
     fault : BOOLEAN,           \* front() of an empty sequence was used
     sent : Nat,                \* history: cells given to async_send
     got : Seq(Nat), eof : BOOLEAN]  \* history: what async_recv returned

TypeOK == /\ ep \in [Sides -> Endpoints] /\ wire \in [Sides -> Seq(Cells)]
          /\ fin \in [Sides -> BOOLEAN] /\ lost \in BOOLEAN
          /\ end \in Ends /\ lastWord \in LastWords

\* The constructor of Botan's client emits the hello.  async_handshake is called
\* once: when it has succeeded it returns EINVAL and changes nothing.
New(s) ==
    [main |-> IF s = "client" THEN "send" ELSE "recv", rx |-> "idle",
     tx |-> "idle",
     sendBuf |-> IF s = "client" THEN <<Cell("hello", 0)>> ELSE <<>>,
     inflight |-> IF s = "client" THEN 1 ELSE 0, complete |-> FALSE,
     need |-> 0, acc |-> <<>>, seq |-> 0, bad |-> FALSE, record |-> FALSE,
     notified |-> FALSE,
     hp |-> EmptyHeap, data |-> [b \in Bufs |-> <<>>],
     cap |-> [b \in Bufs |-> Cap], fault |-> FALSE, sent |-> 0, got |-> <<>>,
     eof |-> FALSE]

\* The connection is established and both endpoints are in async_handshake.
Init == /\ ep = [s \in Sides |-> New(s)]
        /\ wire = [s \in Sides |-> <<>>] /\ fin = [s \in Sides |-> FALSE]
        /\ lost = FALSE /\ end \in Ends /\ lastWord \in LastWords

Over(E) == E.main \in {"closed", "failed"}

\* A coroutine ends with an error or an exception and the session is given up.
Fail(E) == [E EXCEPT !.main = "failed", !.rx = "idle", !.tx = "idle", !.inflight = 0]

\* Who is done with the session closes the connection.
CloseWhenOver(s) ==
    fin' = IF Over(ep'[s]) THEN [fin EXCEPT ![Peer(s)] = TRUE] ELSE fin

-----------------------------------------------------------------------------
(* The buffers.  E is an endpoint.                                         *)

\* FoldLeft, with each intermediate value bound so that TLC computes it once.
Loop(op(_, _), base, seq) ==
    LET f[i \in 0..Len(seq)] ==
            IF i = 0 THEN base
            ELSE CHOOSE r \in {op(E, seq[i]) : E \in {f[i - 1]}} : TRUE
    IN  f[Len(seq)]

\* A new recv_buffer.
FreeBuf(E) ==
    CHOOSE b \in Bufs : \A q \in Lists : b \notin Listed(E.hp, q)

Alloc(E, q, cells, cap) ==
    LET b == FreeBuf(E) IN
    [E EXCEPT !.hp = PushBack(@, q, b), !.data[b] = cells, !.cap[b] = cap]

\* Mutant of PutCell: the length of a reused buffer is not reset.
PutCellKeepsLen(E, n) ==
    LET h == E.hp
        last == h.tail["input"]
        raw == h.head["output"]
    IN  IF h.num["input"] > 0 /\ Len(E.data[last]) < E.cap[last]
        THEN [E EXCEPT !.data[last] = Append(@, Cell("data", n))]
        ELSE IF h.num["output"] > 0
        THEN [E EXCEPT !.hp = PushBack(PopFront(h, "output"), "input", raw),
                       !.data[raw] = Append(@, Cell("data", n))]
        ELSE IF h.num["input"] > 0
        THEN Alloc(E, "input", <<Cell("data", n)>>, E.cap[h.head["input"]])
        ELSE [E EXCEPT !.fault = TRUE]

\* The loop of tls_record_received, for one cell: into the last buffer of
\* input_sequence_, else into a buffer that ciphertext came in, else into a new
\* one with the capacity of the first.
PutCell(E, n) ==
    LET h == E.hp
        last == h.tail["input"]
        raw == h.head["output"]
    IN  IF h.num["input"] > 0 /\ Len(E.data[last]) < E.cap[last]
        THEN [E EXCEPT !.data[last] = Append(@, Cell("data", n))]
        ELSE IF h.num["output"] > 0
        THEN [E EXCEPT !.hp = PushBack(PopFront(h, "output"), "input", raw),
                       !.data[raw] = <<Cell("data", n)>>]
        ELSE IF h.num["input"] > 0
        THEN Alloc(E, "input", <<Cell("data", n)>>, E.cap[h.head["input"]])
        ELSE [E EXCEPT !.fault = TRUE]

RecordReceived(E, plaintext) ==
    Loop(PutCell, [E EXCEPT !.record = TRUE], plaintext)

\* Botan: a record is complete.  Its authentication tag is right if it is the next
\* record of the peer, and nothing of it or before it is missing.
Complete(E, acc) ==
    LET F == [E EXCEPT !.need = 0, !.acc = <<>>] IN
    IF acc = [i \in 1..E.need |-> E.seq + i]
    THEN RecordReceived([F EXCEPT !.seq = @ + E.need], acc)
    ELSE [F EXCEPT !.bad = TRUE]

\* Botan: what a cell does; answer tells whether a close_notify is answered.
Feed(E, cell, answer) ==
    LET Emits(k) == [E EXCEPT !.sendBuf = Append(@, Cell(k, 0))] IN
    CASE E.bad -> E
      [] ~E.bad /\ E.need > 0 ->
            LET acc == Append(E.acc, cell.n) IN
            IF Len(acc) < E.need THEN [E EXCEPT !.acc = acc] ELSE Complete(E, acc)
      [] OTHER ->
            CASE cell.k = "hello"    -> Emits("flight")
              [] cell.k = "flight"   -> [Emits("finished") EXCEPT
                                            !.complete = (lastWord = "client")]
              [] cell.k = "finished" -> [IF lastWord = "server" THEN Emits("done")
                                         ELSE E EXCEPT !.complete = TRUE]
              [] cell.k = "done"     -> [E EXCEPT !.complete = TRUE]
              [] cell.k = "notify"   -> [IF answer THEN Emits("notify")
                                         ELSE E EXCEPT !.notified = TRUE]
              [] cell.k = "record"   -> [E EXCEPT !.need = cell.n]
              [] cell.k = "data"     -> [E EXCEPT !.bad = TRUE]

\* Channel::received_data.
ReceivedData(E, cells, answer) ==
    Loop(LAMBDA F, cell : Feed(F, cell, answer), E, cells)

\* stream::async_recv returns: cells in buffers of the ring, and perhaps the
\* empty buffer of the end of file.
Bring(E, cells, last) ==
    LET chunk(i) == SubSeq(cells, (i - 1) * Cap + 1,
                           IF i * Cap < Len(cells) THEN i * Cap ELSE Len(cells))
        all == [i \in 1..(Len(cells) + Cap - 1) \div Cap |-> chunk(i)]
        F == Loop(LAMBDA G, c : Alloc(G, "bufs", c, Cap), E, all)
    IN  IF last THEN Alloc(F, "bufs", <<>>, 0) ELSE F

\* The local sequence is destroyed.
DropBufs(E) == [E EXCEPT !.hp = FreeList(@, "bufs")]

\* to_bytes, or the readable_bytes of the buffers one after the other.
Bytes(E, q) == FlattenSeq([i \in 1..E.hp.num[q] |-> E.data[Contents(E.hp, q)[i]]])

\* The inner loop of async_recv_impl, for the first of bufs; it ends when Botan
\* throws.
TakeRaw(E, b, answer) ==
    IF E.bad THEN E
    ELSE IF E.cap[b] = 0
    THEN [E EXCEPT !.hp = PushBack(PopFront(@, "bufs"), "input", b),
                   !.record = TRUE]
    ELSE ReceivedData([E EXCEPT !.hp = PushBack(PopFront(@, "bufs"), "output", b)],
                      E.data[b], answer)

PlainOf(cells) == [i \in 1..Len(cells) |-> cells[i].n]

\* async_recv_impl returns input_sequence_, and the reader collects it.
Return(E) ==
    LET back == Last(Contents(E.hp, "input")) IN
    [E EXCEPT !.record = FALSE,
              !.hp = Concat(MoveTo(@, "result", "input"), "all", "result"),
              !.got = @ \o PlainOf(Bytes(E, "input")),
              !.eof = (E.data[back] = <<>>)]

\* What is left to read, as far as the reader knows.
ReadOn(s, E) == IF end = "hangup" /\ s = "client" THEN ~E.eof
                ELSE ~E.eof /\ Len(E.got) < Plain[Peer(s)]

-----------------------------------------------------------------------------
(* Sending.                                                                *)

\* stream::async_send is given send_buf_ as it is now.
StartSend(E) == [E EXCEPT !.inflight = Len(E.sendBuf)]

\* Whether the endpoint is to send now.
MaySend(s, E) ==
    /\ E.sent < Plain[s]
    /\ s = lastWord /\ "earlyData" \notin Uses => E.got # <<>> \/ E.eof

\* async_send_impl: Botan makes records of the data.
AsyncSend(s) ==
    LET E == ep[s] IN
    /\ E.main = "open" /\ E.tx = "idle" /\ MaySend(s, E)
    /\ \E n \in 1..MaxRecord :
          LET cells == [i \in 1..n |-> Cell("data", E.sent + i)] IN
          /\ E.sent + n <= Plain[s]
          /\ ep' = [ep EXCEPT ![s] =
                StartSend([E EXCEPT !.tx = "send", !.sent = @ + n,
                      !.sendBuf = @ \o <<Cell("record", n)>> \o cells])]
    /\ UNCHANGED <<wire, fin, lost, end, lastWord>>

\* The send has returned and send_buf_ is cleared, however much of it was sent.
Sent(E) == [E EXCEPT !.sendBuf = <<>>, !.inflight = 0]

\* Mutant of AfterSend: async_shutdown of the server waits as the client's does.
AfterSendWaits(s, E) ==
    CASE E.main = "send"      -> [E EXCEPT !.main = IF E.complete THEN "open"
                                                    ELSE "recv"]
      [] E.main = "closeSend" -> [E EXCEPT !.main = "closeRecv"]
      [] OTHER                -> [E EXCEPT !.tx = "idle"]

\* Where the coroutine goes on that had called async_send: the handshake ends or
\* waits for more, async_shutdown of the client waits for an answer.
AfterSend(s, E) ==
    CASE E.main = "send"      -> [E EXCEPT !.main = IF E.complete THEN "open"
                                                    ELSE "recv"]
      [] E.main = "closeSend" -> [E EXCEPT !.main = IF s = "client" THEN "closeRecv"
                                                    ELSE "closed"]
      [] OTHER                -> [E EXCEPT !.tx = "idle"]

Sending(E) == E.main \in {"send", "closeSend"} \/ E.tx = "send"

\* TCP takes what it was given and the coroutine is resumed.
TcpSend(s) ==
    LET E == ep[s] IN
    /\ Sending(E) /\ ~E.fault /\ ~lost
    /\ \E n \in 0..E.inflight :
          /\ n = E.inflight \/ ("shortSend" \in Uses /\ n > 0)
          /\ wire' = [wire EXCEPT ![Peer(s)] =
                         IF fin[s] THEN @ ELSE @ \o SubSeq(E.sendBuf, 1, n)]
    /\ ep' = [ep EXCEPT ![s] = AfterSend(s, Sent(E))]
    /\ CloseWhenOver(s)
    /\ UNCHANGED <<lost, end, lastWord>>

\* The send fails.  async_handshake does not look at its result, async_send
\* returns the error, async_shutdown does so before it clears send_buf_.
SendFails(s) ==
    LET E == ep[s] IN
    /\ Sending(E) /\ ~E.fault
    /\ lost \/ fin[s]
    /\ ep' = [ep EXCEPT ![s] =
                 CASE E.main = "send"      -> AfterSend(s, Sent(E))
                   [] E.main = "closeSend" -> Fail(E)
                   [] OTHER                -> Fail(Sent(E))]
    /\ CloseWhenOver(s)
    /\ UNCHANGED <<wire, lost, end, lastWord>>

-----------------------------------------------------------------------------
(* Receiving.                                                              *)

\* async_recv: the loop of async_recv_impl begins.
AsyncRecv(s) ==
    LET E == ep[s] IN
    /\ E.main = "open" /\ E.rx = "idle"
    /\ ep' = [ep EXCEPT ![s].rx = IF ReadOn(s, E) THEN "recv" ELSE "end"]
    /\ UNCHANGED <<wire, fin, lost, end, lastWord>>

\* async_recv_impl is resumed with buffers.  What Botan throws is returned.
RecvImpl(s, cells, last, answer) ==
    /\ ep[s].rx = "recv"
    /\ \E E \in {Bring(ep[s], cells, last)} :
       \E F \in {DropBufs(Loop(LAMBDA G, b : TakeRaw(G, b, answer), E,
                               Contents(E.hp, "bufs")))} :
          ep' = [ep EXCEPT ![s] = IF F.fault THEN F
                                  ELSE IF F.bad THEN Fail(F)
                                  ELSE IF F.record
                                  THEN [Return(F) EXCEPT !.rx = "idle"]
                                  ELSE F]

\* The other calls give everything to Botan and keep nothing.
GiveAll(E, answer) == DropBufs(ReceivedData(E, Bytes(E, "bufs"), answer))

\* async_handshake is resumed with buffers.  What Botan throws ends the coroutine,
\* and the end of file that of the client; the server does not look for it.
Handshake(s, cells, last, answer) ==
    /\ ep[s].main = "recv"
    /\ \E E \in {Bring(ep[s], cells, last)} : \E F \in {GiveAll(E, answer)} :
          ep' = [ep EXCEPT ![s] =
              IF F.fault THEN F
              ELSE IF F.bad \/ (last /\ s = "client") THEN Fail(F)
              ELSE IF F.sendBuf # <<>> THEN [StartSend(F) EXCEPT !.main = "send"]
              ELSE [F EXCEPT !.main = IF F.complete THEN "open" ELSE "recv"]]

\* async_shutdown is resumed with buffers: the client is content with anything,
\* the server wants the close_notify among them and then sends its answer.
Shutdown(s, cells, last, answer) ==
    /\ ep[s].main = "closeRecv"
    /\ \E E \in {Bring(ep[s], cells, last)} : \E F \in {GiveAll(E, answer)} :
          ep' = [ep EXCEPT ![s] =
              IF F.fault THEN F
              ELSE IF F.bad THEN Fail(F)
              ELSE IF s = "client" THEN [F EXCEPT !.main = "closed"]
              ELSE IF F.notified THEN [StartSend(F) EXCEPT !.main = "closeSend"]
              ELSE Fail(F)]

\* What has arrived is brought to the coroutine that waits for it.
TcpRecv(s) ==
    /\ ~ep[s].fault
    /\ \E n \in 0..Len(wire[s]), last, answer \in BOOLEAN :
          /\ n > 0 \/ last
          /\ last => fin[s] /\ ~lost /\ n = Len(wire[s])
          /\ LET cells == SubSeq(wire[s], 1, n) IN
                \/ RecvImpl(s, cells, last, answer)
                \/ Handshake(s, cells, last, answer)
                \/ Shutdown(s, cells, last, answer)
          /\ wire' = [wire EXCEPT ![s] = SubSeq(@, n + 1, Len(@))]
    /\ CloseWhenOver(s)
    /\ UNCHANGED <<lost, end, lastWord>>

\* The timer of the stream ends a receive that has brought nothing for too long.
\* async_recv returns the error and its caller tries again.
Timeout(s) ==
    /\ ep[s].rx = "recv" /\ ~ep[s].fault
    /\ wire[s] = <<>> /\ ~fin[s] /\ ~lost
    /\ ep' = [ep EXCEPT ![s].rx = "idle"]
    /\ UNCHANGED <<wire, fin, lost, end, lastWord>>

\* Both endpoints wait for each other and nothing is on its way.
Standstill ==
    \A s \in Sides :
       LET E == ep[s] IN
       /\ wire[s] = <<>> /\ ~fin[s]
       /\ \/ E.main \in {"recv", "closeRecv"}
          \/ /\ E.main = "open" /\ E.rx # "end" /\ ReadOn(s, E)
             /\ E.tx = "idle" /\ ~MaySend(s, E)

\* The receive fails because the connection is broken, or because of the timer
\* in a standstill, the peer being never slow otherwise.  Every call returns the
\* error, or throws it, and here async_recv is not tried again.
RecvFails(s) ==
    /\ ep[s].main \in {"recv", "closeRecv"} \/ ep[s].rx = "recv"
    /\ ~ep[s].fault
    /\ (lost /\ wire[s] = <<>>) \/ Standstill
    /\ ep' = [ep EXCEPT ![s] = Fail(ep[s])]
    /\ CloseWhenOver(s)
    /\ UNCHANGED <<wire, lost, end, lastWord>>

\* The connection breaks, and what has not arrived may be lost.
Break ==
    /\ "reset" \in Uses /\ ~lost
    /\ \E s \in Sides : ~Over(ep[s])
    /\ lost' = TRUE
    /\ \E i \in 0..Len(wire["client"]), j \in 0..Len(wire["server"]) :
          wire' = [s \in Sides |->
                      SubSeq(wire[s], 1, IF s = "client" THEN i ELSE j)]
    /\ UNCHANGED <<ep, fin, end, lastWord>>

-----------------------------------------------------------------------------
(* The end of the session.                                                 *)

\* The endpoint has sent and read everything: it shuts down, or closes.  close()
\* of Botan's client emits the close_notify.
BeginShutdown(s) ==
    LET E == ep[s] IN
    /\ E.main = "open" /\ E.rx = "end" /\ E.tx = "idle" /\ E.sent = Plain[s]
    /\ ep' = [ep EXCEPT ![s] =
         IF s = "client"
         THEN StartSend([E EXCEPT !.main = "closeSend",
                                  !.sendBuf = Append(@, Cell("notify", 0))])
         ELSE [E EXCEPT !.main = IF end = "hangup" THEN "closed" ELSE "closeRecv"]]
    /\ CloseWhenOver(s)
    /\ UNCHANGED <<wire, lost, end, lastWord>>

-----------------------------------------------------------------------------

Next ==
    \/ \E s \in Sides :
          \/ AsyncSend(s) \/ TcpSend(s) \/ SendFails(s) \/ AsyncRecv(s) \/ TcpRecv(s)
          \/ Timeout(s) \/ RecvFails(s) \/ BeginShutdown(s)
    \/ Break

Spec == Init /\ [][Next]_vars

\* Both loops turn, the network delivers or fails, and who waits in vain does not
\* try again for ever.
FairSpec ==
    /\ Spec
    /\ \A s \in Sides :
          /\ WF_vars(AsyncSend(s)) /\ WF_vars(TcpSend(s)) /\ WF_vars(SendFails(s))
          /\ WF_vars(AsyncRecv(s)) /\ WF_vars(TcpRecv(s)) /\ SF_vars(RecvFails(s))
          /\ WF_vars(BeginShutdown(s))

-----------------------------------------------------------------------------
(* Correctness.                                                            *)

\* BOOST_ASSERT( !empty() ) of front(): when a record arrives there is a buffer
\* to take or to copy the capacity of.
FrontExists == \A s \in Sides : ~ep[s].fault

\* The lists of the endpoints are sound after every chain of push_back,
\* pop_front, concat, moves and destruction, no buffer is in two of them, and
\* a record always finds a buffer.
BuffersSound ==
    /\ TypeOK /\ FrontExists
    /\ \A s \in Sides : WellFormed(ep[s].hp) /\ ep[s].hp.num["bufs"] = 0

Abstract == INSTANCE Channel WITH
    Conns <- Sides, Units <- Plain["client"] + Plain["server"],
    sent <- [s \in Sides |-> ep[s].sent],
    closed <- [s \in Sides |-> fin[Peer(s)]],
    received <- [s \in Sides |-> ep[Peer(s)].got],
    eof <- [s \in Sides |-> ep[Peer(s)].eof]

\* What async_recv of an endpoint returns is what was given to async_send of its
\* peer, in order, however TCP cuts the records and the plaintext is spread over
\* the buffers that the ciphertext came in; the end of file comes last.
RefinesChannel == Abstract!Spec

\* No call waits for ever: each endpoint is done with the session, one way or the
\* other, also when what it waits for is lost.
CallsReturn == <>(\A s \in Sides : Over(ep[s]))

\* What async_send has accepted arrives in full.
EverythingIsReceived == <>(\A s \in Sides : Len(ep[s].got) = Plain[Peer(s)])

BothClose == \A s \in Sides : ep[s].main = "closed"

\* async_shutdown succeeds on both sides.
ShutdownSucceeds == end = "shutdown" => <>BothClose

\* Every call returns.  If the connection does not break everything is received
\* before, and async_shutdown succeeds on both sides unless async_recv of the
\* server has met the close_notify.
SessionEnds ==
    /\ CallsReturn
    /\ [](~lost) =>
          /\ EverythingIsReceived
          /\ [](ep["server"].main = "open" => ~ep["server"].notified)
                => ShutdownSucceeds
=============================================================================

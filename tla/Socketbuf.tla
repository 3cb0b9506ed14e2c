------------------------------ MODULE Socketbuf ------------------------------
(***************************************************************************)
(* class socketbuf, src/arlib/socket.h and src/arlib/socket-helpers.cpp:   *)
(* reads of so many bytes, or of a line, from a socket that gives what it  *)
(* has, and sends that wait in memory until the socket takes them.  Each   *)
(* direction has a bytepipe, and a waiter on the socket.                   *)
(*                                                                         *)
(* A byte is its place in the stream of its connection, from 1 on.         *)
(***************************************************************************)
EXTENDS Bytepipe, FiniteSets

CONSTANTS
    N,          \* bound: bytes the peer sends on a connection
    S,          \* bound: bytes the client sends on a connection
    Chunk,      \* what recv_ready() asks room for
    Cap,        \* the size of a new buffer
    Reads,      \* the reads a client makes: their type and recv_bytes
    None

ASSUME SocketbufOK ==
    /\ N \in Nat /\ S \in Nat /\ Chunk \in Nat \ {0} /\ Cap \in Nat \ {0}
    /\ \A o \in Reads : o.type \in {"bytes", "partial", "line"} /\ o.n \in Nat \ {0}
    /\ None \notin Reads

VARIABLES
    sock,       \* whether there is a socket
    recv_by, send_by,
    recv_op,    \* the pending read
    recv_wait, send_wait,   \* whether the socket will call
    send_prod,  \* whether a coroutine waits in await_send()
    hushed,     \* whether a wait in await_send() was cancelled, and the client
                \* has neither sent nor flushed anything since
    nl,         \* which bytes of the peer are '\n'
    come,       \* how many have arrived at the socket
    broken,     \* whether the connection is
    taken,      \* how many the socket gave
    out,        \* how many the client was given
    wrote,      \* how many the client sent
    sent        \* how many the socket took

recvVars == <<recv_by, recv_op, recv_wait, taken, out>>
sendVars == <<send_by, send_wait, send_prod, hushed, wrote, sent>>
netVars == <<nl, come, broken>>
vars == <<sock, recvVars, sendVars, netVars>>

Bytes(from, n) == [i \in 1..n |-> from + i]

Least(a, b) == IF a < b THEN a ELSE b

-----------------------------------------------------------------------------
\* socket_failed(): every waiter is cancelled and whoever waits is told.  With
\* a read of bytes_partial() pending it is undefined (socket-helpers.cpp:86),
\* and not followed here.
SocketFailed ==
    /\ recv_op # None => recv_op.type # "partial"
    /\ sock' = FALSE
    /\ recv_op' = None /\ recv_wait' = FALSE
    /\ send_wait' = FALSE /\ send_prod' = FALSE
    /\ UNCHANGED <<recv_by, taken, out, sent, netVars>>

\* What recv_complete() gives to read o from pipe p.
Answer(p, o, prev_size) ==
    LET line == PullLine(p, prev_size, nl)
        part == Pull(p, Least(o.n, Size(p)))
        full == Pull(p, o.n)
        With(r, done) == [pipe |-> r.pipe, bytes |-> r.bytes, done |-> done]
    IN  CASE o.type = "line" -> With(line, line.bytes # <<>> \/ Size(line.pipe) >= o.n)
          [] o.type = "partial" -> With(part, Size(p) >= 1)
          [] o.type = "bytes" /\ Size(p) >= o.n -> With(full, TRUE)
          [] o.type = "bytes" /\ Size(p) < o.n -> [pipe |-> p, bytes |-> <<>>, done |-> FALSE]

\* Fault: a read that is not done relies on the socket to call again by itself.
RecvCompleteUnarmed(p, o, prev_size) ==
    \E r \in {Answer(p, o, prev_size)} :
        /\ recv_by' = r.pipe /\ out' = out + Len(r.bytes)
        /\ recv_op' = IF r.done THEN None ELSE o
        /\ recv_wait' = FALSE

\* recv_complete(): the read is done, or waits for the socket.
RecvComplete(p, o, prev_size) ==
    \E r \in {Answer(p, o, prev_size)} :
        /\ recv_by' = r.pipe /\ out' = out + Len(r.bytes)
        /\ recv_op' = IF r.done THEN None ELSE o
        /\ recv_wait' = ~r.done

\* get_async(), with a socket; without one it fails at once.
Read(o) ==
    /\ sock /\ recv_op = None
    /\ RecvComplete(recv_by, o, 0)
    /\ UNCHANGED <<sock, taken, sendVars, netVars>>

\* The coroutine that reads is cancelled: recv_cancel().
RecvCancel ==
    /\ recv_op # None
    /\ recv_op' = None /\ recv_wait' = FALSE
    /\ UNCHANGED <<sock, recv_by, taken, out, sendVars, netVars>>

\* Fault: the size is asked for when the bytes are in the pipe already.
RecvReadySkipsNew ==
    /\ recv_wait
    /\ \/ \E q \in {PushBegin(recv_by, Chunk)} :
          \E n \in 0..Least(come - taken, Len(q.buf2) - q.end2) :
             /\ n = 0 => come = taken
             /\ taken' = taken + n
             /\ RecvComplete(PushFinish(q, Bytes(taken, n)), recv_op, Size(q) + n)
             /\ UNCHANGED <<sock, sendVars, netVars>>
       \/ broken /\ SocketFailed /\ UNCHANGED <<send_by, hushed, wrote>>

\* recv_ready(): the socket gives bytes, or none after all, or fails.
RecvReady ==
    /\ recv_wait
    /\ \/ \E q \in {PushBegin(recv_by, Chunk)} :
          \E n \in 0..Least(come - taken, Len(q.buf2) - q.end2) :
             /\ n = 0 => come = taken
             /\ taken' = taken + n
             /\ RecvComplete(PushFinish(q, Bytes(taken, n)), recv_op, Size(q))
             /\ UNCHANGED <<sock, sendVars, netVars>>
       \/ broken /\ SocketFailed /\ UNCHANGED <<send_by, hushed, wrote>>

\* bytes_sync(), which does not wait.  Bytes that come straight from the
\* socket do not pass through the pipe.
BytesSync(n) ==
    /\ sock /\ recv_op = None
    /\ \/ /\ Size(recv_by) > 0
          /\ \E m \in {Least(n, Len(Begun(recv_by, 1)))} :
                recv_by' = PullFinish(PullBegin(recv_by, 1), m) /\ out' = out + m
          /\ UNCHANGED <<sock, taken, recv_op, recv_wait, sendVars, netVars>>
       \/ /\ Size(recv_by) = 0
          /\ \E q \in {PushBegin(recv_by, 1)} :
             \E m \in 0..Least(n, Least(come - taken, Len(q.buf2) - q.end2)) :
                recv_by' = q /\ taken' = taken + m /\ out' = out + m
          /\ UNCHANGED <<sock, recv_op, recv_wait, sendVars, netVars>>
       \/ Size(recv_by) = 0 /\ broken /\ SocketFailed /\ UNCHANGED <<send_by, hushed, wrote>>

-----------------------------------------------------------------------------
\* Fault: the socket is asked to call once for all that waits.
SendPrepareOnce(p, armed) ==
    /\ send_by' = p
    /\ send_wait' = (armed \/ (Size(p) > 0 /\ ~send_prod))
    /\ send_prod' = (send_prod /\ Size(p) > 0)

\* send_prepare(), once the pipe is p: the rest waits for the socket, or whoever
\* waits for the sends is told.
SendPrepare(p, armed) ==
    /\ send_by' = p
    /\ send_wait' = (armed \/ Size(p) > 0)
    /\ send_prod' = (send_prod /\ Size(p) > 0)

\* send_ready(), with pipe p: the socket takes some of the first buffer.
SendSome(p, armed) ==
    \/ \E n \in 0..Len(Begun(p, 1)) :
          /\ sent' = sent + n
          /\ SendPrepare(PullFinish(PullBegin(p, 1), n), armed)
          /\ UNCHANGED <<sock, recvVars, netVars>>
    \/ broken /\ SocketFailed /\ send_by' = p

SendReady == send_wait /\ SendSome(send_by, FALSE) /\ UNCHANGED <<hushed, wrote>>

\* send(bytesr): straight to the socket if nothing waits, and what it does not
\* take is kept.
Send(k) ==
    /\ sock /\ wrote + k <= S
    /\ wrote' = wrote + k /\ hushed' = FALSE
    /\ \/ \E n \in IF Size(send_by) = 0 THEN 0..k ELSE {0} :
             /\ sent' = sent + n
             /\ IF n = k THEN UNCHANGED <<send_by, send_wait, send_prod>>
                ELSE SendPrepare(Push(send_by, Bytes(wrote + n, k - n)), send_wait)
             /\ UNCHANGED <<sock, recvVars, netVars>>
       \/ Size(send_by) = 0 /\ broken /\ SocketFailed /\ UNCHANGED send_by

\* send(Ts...), that is, send_buf() and send_flush().
SendText(k) ==
    /\ sock /\ wrote + k <= S
    /\ wrote' = wrote + k /\ hushed' = FALSE
    /\ SendSome(Push(send_by, Bytes(wrote, k)), send_wait)

\* send_flush() alone.
SendFlush == sock /\ SendSome(send_by, send_wait) /\ hushed' = FALSE /\ UNCHANGED wrote

\* await_send() with something left to send; with nothing it returns at once.
AwaitSend ==
    /\ sock /\ ~send_prod /\ Size(send_by) > 0
    /\ send_prod' = TRUE
    /\ UNCHANGED <<sock, send_by, send_wait, hushed, wrote, sent, recvVars, netVars>>

\* The coroutine in await_send() is cancelled: send_prod_cancel(), after which
\* the socket does not call any more, whatever is left.
SendCancel ==
    /\ send_prod
    /\ send_prod' = FALSE /\ send_wait' = FALSE /\ hushed' = TRUE
    /\ UNCHANGED <<sock, send_by, wrote, sent, recvVars, netVars>>

-----------------------------------------------------------------------------
\* operator=(autoptr<socket2>): reset(), which fails what waits and empties the
\* pipes, and another socket or none.
Assign ==
    /\ recv_op # None => recv_op.type # "partial"
    /\ sock' \in BOOLEAN
    /\ recv_by' = New(Cap) /\ send_by' = New(Cap)
    /\ recv_op' = None /\ recv_wait' = FALSE /\ send_wait' = FALSE
    /\ send_prod' = FALSE /\ hushed' = FALSE
    /\ come' = 0 /\ broken' = FALSE
    /\ taken' = 0 /\ out' = 0 /\ wrote' = 0 /\ sent' = 0
    /\ UNCHANGED nl

\* The peer's bytes arrive, or its end of the connection is gone.
Arrive == come < N /\ ~broken /\ come' = come + 1 /\ UNCHANGED <<sock, recvVars, sendVars, nl, broken>>

Break == ~broken /\ broken' = TRUE /\ UNCHANGED <<sock, recvVars, sendVars, nl, come>>

Init ==
    /\ sock = TRUE
    /\ recv_by = New(Cap) /\ send_by = New(Cap)
    /\ recv_op = None /\ recv_wait = FALSE /\ send_wait = FALSE
    /\ send_prod = FALSE /\ hushed = FALSE
    /\ nl \in {{}} \cup {{i} : i \in 1..N}
    /\ come = 0 /\ broken = FALSE
    /\ taken = 0 /\ out = 0 /\ wrote = 0 /\ sent = 0

Next ==
    \/ \E o \in Reads : Read(o)
    \/ RecvCancel \/ RecvReady
    \/ \E n \in 1..2 : BytesSync(n)
    \/ \E k \in 1..S : Send(k) \/ SendText(k)
    \/ SendReady \/ SendFlush \/ AwaitSend \/ SendCancel
    \/ Assign \/ Arrive \/ Break

Spec == Init /\ [][Next]_vars

CanRecv == recv_wait /\ (taken < come \/ (broken /\ recv_op.type # "partial"))
CanSend == send_wait

\* The event loop calls what it was asked to (RunloopPoll), the socket then
\* takes or gives at least a byte if it has not failed, and the peer goes on
\* until it closes the connection.  The first two conjuncts are the weak
\* fairness of RecvReady and SendReady, with what enables them said outright.
FairSpec ==
    /\ Spec
    /\ []<>~CanRecv \/ []<><<taken' # taken \/ sock' # sock>>_vars
    /\ []<>~CanSend \/ []<><<sent' # sent \/ sock' # sock>>_vars
    /\ WF_vars(Arrive) /\ WF_vars(Break)

-----------------------------------------------------------------------------
\* Whatever mix of reads, lines, cancellations and buffer moves went before,
\* the client gets the peer's bytes in order with none lost or doubled, and
\* the peer the client's (bytepipe.h:5, "first one first"): what is in the
\* pipe is what was taken and not yet given.
InOrder ==
    sock => /\ Content(recv_by) = Bytes(out, taken - out)
            /\ Content(send_by) = Bytes(sent, wrote - sent)

\* A read that waits cannot be answered from what is in the pipe, and the
\* socket will call: recv_complete() did not miss bytes that came before, also
\* not a line's end, and did not forget its waiter.  Nor does the socket call
\* when nobody reads.
ReadWaits ==
    /\ recv_wait <=> recv_op # None
    /\ recv_op # None =>
          /\ sock
          /\ Size(recv_by) < (IF recv_op.type = "partial" THEN 1 ELSE recv_op.n)
          /\ recv_op.type = "line" => \A b \in nl : ~(out < b /\ b <= taken)

\* A read of so many bytes or of a line ends in the end, by bytes, by failure
\* or by cancellation (socket.h:287).
Pending == recv_op # None /\ recv_op.type # "partial"
ReadEnds == Pending ~> ~Pending

\* So does a wait for the sends, whatever else is sent or flushed meanwhile and
\* however often waits were cancelled (socket.h:351, "Completes when the object
\* has nothing left to send"), unless it begins after a cancelled one and
\* nothing is sent or flushed in between or thereafter: such a wait only the end
\* of the connection ends.
SendEnds == (send_prod /\ ~hushed) ~> ~send_prod
=============================================================================

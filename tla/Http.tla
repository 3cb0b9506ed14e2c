-------------------------------- MODULE Http --------------------------------
(***************************************************************************)
(* http_t::request(), src/arlib/http.cpp: requests of several coroutines   *)
(* pipelined over one keep-alive connection.  A coroutine takes mut1, may  *)
(* replace the socket, sends, takes mut2, and reads.                       *)
(*                                                                         *)
(* The holder of a mutex is the first of its line.  mut1 is used through   *)
(* the promise CoMutexProofs proves of it (FifoMutex), under its           *)
(* assumption: no call of request() begins while its hand-off is pending.  *)
(* Nothing is assumed of mut2, which request() itself begins to wait for   *)
(* while a hand-off is pending: it enters past those who wait, the timeout *)
(* lets the first of them in as well, and `barged` says that this has      *)
(* happened.  The server answers in order, and may close the connection at *)
(* any time, also in the middle of an answer.                              *)
(***************************************************************************)
EXTENDS Naturals, FiniteSets, SequencesExt

CONSTANTS
    Gets,       \* requests that may be pipelined
    Posts,      \* requests that may not
    Elsewhere,  \* sets of requests, of which one is for another origin
    None        \* no request

ASSUME RequestsOK ==
    /\ Gets \cap Posts = {} /\ None \notin Gets \cup Posts
    /\ Elsewhere \subseteq SUBSET (Gets \cup Posts)

Requests == Gets \cup Posts

VARIABLES
    far,                \* the requests for another origin
    line1, inside1,     \* mut1: its holder and its waiters; whether it is held
    line2, inside2,     \* mut2: the holder the_lock names, and the waiters
    due,                \* mut2's timeout is pending although the_lock is set
    beside,             \* the other requests that hold mut2
    barged,             \* whether mut2 was ever taken past somebody who waits
    pc,                 \* per request, the await it is at
    retry,              \* can_retry
    mine,               \* last_sock_generation and sock_recv_expect, while
                        \* they are still to be looked at
    got,                \* the request whose answer it reads or has read
    outcome,            \* what request() returned
    sends,              \* how often it was sent
    http,               \* the members of http_t that describe the socket
    conn                \* the connection: answers on their way

mutex1 == <<line1, inside1>>
mutex2 == <<line2, inside2, due, beside, barged>>
mutexes == <<mutex1, mutex2>>
vars == <<far, mutexes, pc, retry, mine, got, outcome, sends, http, conn>>
locals == <<far, retry, mine, got, outcome, sends>>

Unset == [gen |-> 0, expect |-> 0]

Dead == [wire |-> <<>>, closed |-> TRUE, cut |-> FALSE, torn |-> FALSE]

Init ==
    /\ far \in Elsewhere
    /\ line1 = <<>> /\ inside1 = FALSE /\ line2 = <<>> /\ inside2 = FALSE
    /\ due = FALSE /\ beside = {} /\ barged = FALSE
    /\ pc = [r \in Requests |-> "idle"]
    /\ retry = [r \in Requests |-> TRUE]
    /\ mine = [r \in Requests |-> Unset]
    /\ got = [r \in Requests |-> None]
    /\ outcome = [r \in Requests |-> "none"]
    /\ sends = [r \in Requests |-> 0]
    /\ http = [sock |-> FALSE, elsewhere |-> FALSE, fresh |-> FALSE,
               gen |-> 0, sent |-> 0, received |-> 0]
    /\ conn = Dead

-----------------------------------------------------------------------------
\* Fault: the origin of the socket is not compared.
CanKeepaliveAnywhere(r) == http.sock /\ http.fresh

CanKeepalive(r) == http.sock /\ http.fresh /\ (http.elsewhere = (r \in far))

CanPipeline(r) == r \in Gets /\ CanKeepalive(r)

Goto(r, place) == pc' = [pc EXCEPT ![r] = place]

\* A request the server will not see is lost without a word.
Sent(c, r) == IF c.closed THEN c ELSE [c EXCEPT !.wire = Append(@, r)]

Without(s, r) == IF Contains(s, r) THEN RemoveAt(s, CHOOSE i \in 1..Len(s) : s[i] = r) ELSE s

\* The first of line 1, or a request that found it empty, is past mut1; or it
\* stays inside.
Pass1 == line1' = (IF line1 = <<>> THEN line1 ELSE Tail(line1)) /\ inside1' = FALSE
Hold1(r) == line1' = (IF line1 = <<>> THEN <<r>> ELSE line1) /\ inside1' = TRUE

Holds1(r) == inside1 /\ line1[1] = r

Release1(r) == IF Holds1(r) THEN Pass1 ELSE UNCHANGED mutex1

Waits2 == \E w \in Requests : pc[w] \in {"sent", "wait2"}

\* co_await mut2: r waits behind the others if the_lock is set.  Otherwise it
\* enters at once; if somebody waits, for a hand-off, the timeout stays.
Join2(r) ==
    \/ /\ inside2
       /\ line2' = Append(line2, r)
       /\ UNCHANGED <<inside2, due, beside, barged>>
    \/ /\ ~inside2
       /\ line2' = <<r>> \o line2 /\ inside2' = TRUE
       /\ due' = Waits2
       /\ barged' = (barged \/ line2 # <<>>)
       /\ UNCHANGED beside

\* r, wherever it is, has neither a lock of mut2 nor a waiter any more.  The
\* last waiter takes the timeout along; unlock() forgets whatever lock the_lock
\* names.
Leave2(r) ==
    /\ inside2' = (inside2 /\ line2[1] # r /\ r \notin beside)
    /\ IF inside2 /\ r \in beside
       THEN line2' = Tail(line2) /\ beside' = (beside \ {r}) \cup {line2[1]}
       ELSE line2' = Without(line2, r) /\ beside' = beside \ {r}
    /\ due' = (due /\ inside2' /\ Waits2')
    /\ UNCHANGED barged

\* Fault: the count of answers read is not compared.
PairedByGeneration(m, h) == h.sock /\ m.gen = h.gen

\* Fault: any socket will do.
PairedAnyway(m, h) == h.sock

\* Whether the next answer on the socket is the one of a request sent as m.
Paired(m, h) == h.sock /\ m.gen = h.gen /\ m.expect = h.received

\* While request() returns its locks are still held, and the caller it
\* returns to runs.
Returning == \E r \in Requests : pc[r] = "returning"

\* A request that finds the connection broken, or replaces it, fails whoever
\* reads from it before it goes on itself.
Calm == ~Returning /\ \A r \in Requests : pc[r] \notin {"sending", "failing", "replacing"}

\* Code outside of request() runs.
CallerRuns == Calm \/ Returning

Pending(line, inside) == line # <<>> /\ ~inside

Reader == \E r \in Requests : pc[r] \in {"status", "body"}

\* sock.line() of a second reader ends the program.
Read(r) == IF Reader THEN pc' = [q \in Requests |-> "aborted"] ELSE Goto(r, "status")

-----------------------------------------------------------------------------
\* Fault: can_retry stays set when keep-alive is enough.
HasBothRetries(r) ==
    IF CanKeepalive(r)
    THEN /\ Pass1
         /\ Read(r)
         /\ sends' = [sends EXCEPT ![r] = @ + 1]
         /\ http' = [http EXCEPT !.sent = @ + 1]
         /\ conn' = Sent(conn, r)
         /\ UNCHANGED <<far, retry, mine, got, outcome>>
    ELSE Hold1(r) /\ Goto(r, "connect") /\ UNCHANGED <<locals, http, conn>>

\* Both mutexes are held: keep-alive is enough, or a socket is asked for.  A
\* send to a closed connection may find that out, under another's reader.
HasBoth(r) ==
    IF CanKeepalive(r)
    THEN /\ Pass1
         /\ retry' = [retry EXCEPT ![r] = FALSE]
         /\ sends' = [sends EXCEPT ![r] = @ + 1]
         /\ \/ /\ Read(r)
               /\ http' = [http EXCEPT !.sent = @ + 1]
               /\ conn' = Sent(conn, r)
            \/ /\ conn.closed /\ Reader
               /\ Goto(r, "failing")
               /\ http' = [http EXCEPT !.sent = @ + 1, !.sock = FALSE]
               /\ conn' = Dead
         /\ UNCHANGED <<far, mine, got, outcome>>
    ELSE Hold1(r) /\ Goto(r, "connect") /\ UNCHANGED <<locals, http, conn>>

\* mut2 is taken by a request that was sent as m.
TakesUp(r, m, h) == IF Paired(m, h) THEN Read(r) ELSE Goto(r, "connect")

\* The request is sent behind others, mut1 is free again, and mut2 is taken or
\* waited for.  A send to a closed connection may find that out; if somebody
\* reads from it, he fails first.
Pipeline(r) ==
    /\ CanPipeline(r)
    /\ Pass1
    /\ \E alive \in BOOLEAN :
          LET m == [gen |-> http.gen, expect |-> http.sent]
              h == [http EXCEPT !.sent = @ + 1, !.sock = alive]
              fails == ~alive /\ Reader
          IN  /\ alive \/ conn.closed
              /\ http' = h
              /\ conn' = IF alive THEN Sent(conn, r) ELSE Dead
              /\ mine' = IF inside2 \/ fails THEN [mine EXCEPT ![r] = m] ELSE mine
              /\ IF fails
                 THEN /\ Goto(r, "sending")
                      /\ line2' = Append(line2, r)
                      /\ UNCHANGED <<inside2, due, beside, barged>>
                 ELSE /\ Join2(r)
                      /\ IF inside2 THEN Goto(r, "sent") ELSE TakesUp(r, m, h)
    /\ sends' = [sends EXCEPT ![r] = @ + 1]
    /\ UNCHANGED <<far, retry, got, outcome>>

\* Fault: mut1 alone is taken.
SerialiseMut1(r) == ~CanPipeline(r) /\ HasBoth(r) /\ UNCHANGED mutex2

\* The request may not be pipelined: mut2 is taken or waited for under mut1.
Serialise(r) ==
    /\ ~CanPipeline(r)
    /\ Join2(r)
    /\ IF ~inside2 THEN HasBoth(r)
       ELSE Hold1(r) /\ Goto(r, "wait2") /\ UNCHANGED <<locals, http, conn>>

HasMut1(r) == Pipeline(r) \/ Serialise(r)

\* Fault: a waiter is put right behind the holder.
ArriveSecond(r) ==
    /\ pc[r] = "idle" /\ CallerRuns /\ ~Pending(line1, inside1)
    /\ IF line1 = <<>> THEN HasMut1(r)
       ELSE /\ line1' = InsertAt(line1, 2, r)
            /\ Goto(r, "wait1")
            /\ UNCHANGED <<inside1, mutex2, locals, http, conn>>

\* Somebody calls request(), but not while mut1's hand-off is pending.
Arrive(r) ==
    /\ pc[r] = "idle" /\ CallerRuns /\ ~Pending(line1, inside1)
    /\ IF line1 = <<>> THEN HasMut1(r)
       ELSE /\ line1' = Append(line1, r)
            /\ Goto(r, "wait1")
            /\ UNCHANGED <<inside1, mutex2, locals, http, conn>>

\* mut1 is handed over.
Enter1(r) ==
    /\ Calm /\ Pending(line1, inside1) /\ r = line1[1] /\ pc[r] = "wait1"
    /\ HasMut1(r)

\* The timeout of mut2 is pending.
Due2 == due \/ Pending(line2, inside2)

\* It lets the first who waits in, whoever is inside.
Enter2(r) ==
    /\ Calm /\ Due2 /\ r = (IF inside2 THEN line2[2] ELSE line2[1])
    /\ inside2' = TRUE /\ due' = FALSE
    /\ IF inside2
       THEN line2' = Tail(line2) /\ beside' = beside \cup {line2[1]}
       ELSE UNCHANGED <<line2, beside>>
    /\ UNCHANGED barged

\* mut2 is handed over to a request that waits to be sent.
Enter2Unsent(r) == Enter2(r) /\ pc[r] = "wait2" /\ HasBoth(r)

\* mut2 is handed over to a request that was pipelined.
Enter2Sent(r) ==
    /\ Enter2(r) /\ pc[r] = "sent"
    /\ TakesUp(r, mine[r], http)
    /\ mine' = [mine EXCEPT ![r] = Unset]
    /\ UNCHANGED <<far, mutex1, retry, got, outcome, sends, http, conn>>

\* request() returns; what it returned decides what becomes of the socket.
Answer(r, what) ==
    /\ outcome' = [outcome EXCEPT ![r] = what]
    /\ Goto(r, "returning")
    /\ UNCHANGED <<far, mutexes, retry, mine, sends>>

\* set_error() drops the socket.
SetError(r, what) ==
    /\ Answer(r, what)
    /\ http' = [http EXCEPT !.sock = FALSE]
    /\ conn' = Dead
    /\ UNCHANGED got

\* A send failed under a reader, who is gone now.  Who sent before it took mut2
\* takes it if it is free, past whoever waits for it;
Sending(r) ==
    /\ pc[r] = "sending" /\ ~Returning /\ ~Reader
    /\ IF inside2
       THEN Goto(r, "sent") /\ UNCHANGED <<mutex2, mine>>
       ELSE /\ line2' = <<r>> \o Without(line2, r) /\ inside2' = TRUE
            /\ due' = Waits2
            /\ barged' = (barged \/ Len(line2) > 1)
            /\ TakesUp(r, mine[r], http)
            /\ mine' = [mine EXCEPT ![r] = Unset]
            /\ UNCHANGED beside
    /\ UNCHANGED <<far, mutex1, retry, got, outcome, sends, http, conn>>

\* who holds it reads from no socket.
SendFailed(r) == pc[r] = "failing" /\ ~Returning /\ ~Reader /\ SetError(r, "error")

\* The new socket, or none, takes the place of one that another reads from: he
\* fails first.
Replace(r) ==
    /\ Calm /\ pc[r] = "connect" /\ Reader
    /\ Goto(r, "replacing")
    /\ http' = [http EXCEPT !.sock = FALSE]
    /\ conn' = Dead
    /\ UNCHANGED <<mutexes, locals>>

Replaces(r) ==
    /\ pc[r] = "replacing" \/ (Calm /\ pc[r] = "connect")
    /\ ~Returning /\ ~Reader

ConnectFails(r) == Replaces(r) /\ SetError(r, "unsent")

Connected(r) ==
    /\ Replaces(r)
    /\ http' = [sock |-> TRUE, elsewhere |-> r \in far, fresh |-> TRUE,
                gen |-> http.gen + 1, sent |-> 1, received |-> 0]
    /\ conn' = [wire |-> <<r>>, closed |-> FALSE, cut |-> FALSE, torn |-> FALSE]
    /\ Release1(r)
    /\ Goto(r, "status")
    /\ retry' = [retry EXCEPT ![r] = FALSE]
    /\ sends' = [sends EXCEPT ![r] = @ + 1]
    /\ UNCHANGED <<far, mutex2, mine, got, outcome>>

\* The connection ends within the answer that is read.
CutShort == conn.closed /\ (conn.wire = <<>> \/ (conn.cut /\ Len(conn.wire) = 1))

\* It ends before the status line does.
NoStatus(r) ==
    /\ pc[r] = "status" /\ ~Returning /\ CutShort
    /\ IF retry[r]
       THEN /\ http' = [http EXCEPT !.sock = FALSE]
            /\ conn' = Dead
            /\ Goto(r, "connect")
            /\ UNCHANGED <<mutexes, locals>>
       ELSE SetError(r, "error")

\* A status line is read.
Status(r) ==
    /\ Calm /\ pc[r] = "status" /\ conn.wire # <<>> /\ ~conn.torn
    /\ got' = [got EXCEPT ![r] = conn.wire[1]]
    /\ Goto(r, "body")
    /\ UNCHANGED <<far, mutexes, retry, mine, outcome, sends, http, conn>>

\* What is read is not HTTP, or is too long.
BadAnswer(r) ==
    /\ Calm /\ pc[r] \in {"status", "body"} /\ conn.wire # <<>>
    /\ SetError(r, "error")

\* The rest of the answer is read.
Body(r) ==
    /\ Calm /\ pc[r] = "body" /\ conn.wire # <<>> /\ ~CutShort
    /\ Answer(r, "ok")
    /\ http' = [http EXCEPT !.received = @ + 1, !.fresh = TRUE]
    /\ conn' = [conn EXCEPT !.wire = Tail(@)]
    /\ UNCHANGED got

\* The connection ends in the middle of the rest: a body with a length is
\* taken for empty, anything else is an error.
CutBody(r) ==
    /\ pc[r] = "body" /\ ~Returning /\ CutShort
    /\ \/ SetError(r, "error")
       \/ /\ Answer(r, "cut")
          /\ http' = [http EXCEPT !.sock = FALSE, !.received = @ + 1, !.fresh = TRUE]
          /\ conn' = Dead
          /\ UNCHANGED got

\* The locks of a request that has returned are destroyed.
Unlock(r) ==
    /\ pc[r] = "returning"
    /\ Goto(r, "done")
    /\ Leave2(r)
    /\ Release1(r)
    /\ UNCHANGED <<locals, http, conn>>

\* Fault: the lock objects of a cancelled request are not destroyed.
CancelKeepsLocks(r) ==
    /\ CallerRuns
    /\ pc[r] \in {"wait1", "wait2", "sent", "connect", "status", "body"}
    /\ Goto(r, "cancelled")
    /\ conn' = [conn EXCEPT !.torn = @ \/ pc[r] = "body"]
    /\ UNCHANGED <<mutexes, locals, http>>

\* A request is cancelled, which destroys its locks and its waiters; the
\* answer it was reading is left half read.
Cancel(r) ==
    /\ CallerRuns
    /\ pc[r] \in {"wait1", "wait2", "sent", "connect", "status", "body"}
    /\ Goto(r, "cancelled")
    /\ line1' = Without(line1, r) /\ inside1' = (inside1 /\ line1[1] # r)
    /\ Leave2(r)
    /\ conn' = [conn EXCEPT !.torn = @ \/ pc[r] = "body"]
    /\ mine' = [mine EXCEPT ![r] = Unset]
    /\ retry' = [retry EXCEPT ![r] = TRUE]
    /\ got' = [got EXCEPT ![r] = None]
    /\ UNCHANGED <<far, outcome, sends, http>>

-----------------------------------------------------------------------------
\* Two seconds pass.
KeepaliveEnds ==
    /\ Calm /\ http.fresh
    /\ http' = [http EXCEPT !.fresh = FALSE]
    /\ UNCHANGED <<mutexes, pc, locals, conn>>

\* The server closes the connection after the first k answers, the last of
\* which may be incomplete.
ServerCloses ==
    /\ Calm /\ ~conn.closed
    /\ \E k \in 0..Len(conn.wire), cut \in BOOLEAN :
          /\ cut \/ conn.torn \/ (\E r \in Requests : pc[r] = "body") => k > 0
          /\ conn' = [conn EXCEPT !.closed = TRUE, !.cut = cut, !.wire = SubSeq(@, 1, k)]
    /\ UNCHANGED <<mutexes, pc, locals, http>>

Step(r) ==
    \/ Enter1(r) \/ Enter2Unsent(r) \/ Enter2Sent(r)
    \/ Sending(r) \/ SendFailed(r) \/ Replace(r) \/ Connected(r) \/ ConnectFails(r)
    \/ NoStatus(r) \/ Status(r) \/ BadAnswer(r) \/ Body(r) \/ CutBody(r) \/ Unlock(r)

Next ==
    \/ \E r \in Requests : Arrive(r) \/ Cancel(r) \/ Step(r)
    \/ KeepaliveEnds
    \/ ServerCloses

Spec == Init /\ [][Next]_vars

\* Whether Step of some request is enabled, said outright.
CanProgress ==
    /\ \A r \in Requests : pc[r] # "aborted"
    /\ \/ Pending(line1, inside1) \/ Due2
       \/ \E r \in Requests :
             \/ pc[r] \in {"sending", "failing", "replacing", "connect", "returning"}
             \/ pc[r] \in {"status", "body"} /\ (conn.wire # <<>> \/ conn.closed)

\* Their steps are the ones in which some request goes on.
Progress(r) == pc[r] # "idle" /\ pc'[r] \notin {pc[r], "cancelled"}

\* Hand-offs are dispatched, connections are made or refused, and a server
\* that was asked something answers or closes the connection: as long as one of
\* these can happen, one of them does.  This is WF_vars(\E r \in Requests : Step(r)).
FairSpec ==
    Spec /\ ([]<>~CanProgress \/ []<><<\E r \in Requests : Progress(r)>>_vars)

-----------------------------------------------------------------------------
\* No request is given the answer to another: "if a request is pipelined then
\* cancelled, the resulting response must not be paired with wrong request"
\* (http.cpp:650).
RightAnswer == \A r \in Requests : outcome[r] = "ok" => got[r] = r

\* A request that was pipelined and found the counters in order is given its
\* own answer whatever was cancelled before it; so is every request as long as
\* only requests that were never sent are cancelled, and nobody takes mut2 past
\* a request that waits for it.
CheckedRightAnswer ==
    \A r \in Requests : ~barged /\ outcome[r] = "ok" =>
        \/ got[r] = r
        \/ ~retry[r] /\ \E q \in Requests : pc[q] = "cancelled" /\ sends[q] > 0

\* As long as nobody takes mut2 past a request that waits for it, one request
\* at a time has its hands on the socket: two readers are fatal (socket.h:245),
\* and a reader whose socket is replaced fails.
OneOnSocket ==
    ~barged =>
        /\ \A r, q \in Requests :
              {pc[r], pc[q]} \subseteq {"connect", "replacing", "status", "body"} => r = q
        /\ \A r \in Requests : pc[r] # "aborted"

\* A request that must not be repeated is sent once at most, and not at all if
\* the caller is told that it may retry (http.h:53), whoever holds mut2 beside
\* it.
SentOnce ==
    \A r \in Posts : sends[r] <= 1 /\ (outcome[r] = "unsent" => sends[r] = 0)

\* No request is sent to a server it is not for, whoever replaced the socket
\* while it waited, and whoever holds mut2 beside it.
OneOrigin == \A i \in 1..Len(conn.wire) : (conn.wire[i] \in far) = http.elsewhere

\* Whoever reads has something to read: an answer is on its way, or the end of
\* the connection is, whoever holds mut2 beside it.
ReaderServed ==
    \A r \in Requests : pc[r] = "status" => conn.wire # <<>> \/ conn.closed

\* Requests return in the order they were made, as long as nobody takes mut2
\* past a request that waits for it: line 2 but for a request that is
\* returning, then line 1 but for a holder that is in line 2 already.
Unanswered == IF line2 # <<>> /\ pc[line2[1]] = "returning" THEN Tail(line2) ELSE line2

Behind == IF inside1 THEN Tail(line1) ELSE line1

Waiting == Unanswered \o Behind

Answered == {r \in Requests : pc[r] \in {"returning", "done"}}

Promise == INSTANCE RequestLine WITH line <- Waiting, answered <- Answered

KeepsOrder == Promise!Init /\ [][barged' \/ Promise!Next]_<<Waiting, Answered>>

\* Every request returns, unless it is cancelled, or the program is ended by a
\* second reader: in the end nobody is on the way.
RequestEnds ==
    <>[](\A r \in Requests : pc[r] \in {"idle", "done", "cancelled", "aborted"})
=============================================================================

----------------------------- MODULE HttpProofs -----------------------------
(***************************************************************************)
(* Proofs about Http, for any sets of requests and any choice of the ones  *)
(* that are for another origin.                                            *)
(***************************************************************************)
EXTENDS Http, SequenceTheorems, TLAPS

Places == {"idle", "wait1", "wait2", "sent", "sending", "connect", "status", "body",
           "returning", "done", "cancelled"}

Sockets == [sock : BOOLEAN, elsewhere : BOOLEAN, fresh : BOOLEAN,
            gen : Nat, sent : Nat, received : Nat]

Connections == [wire : Seq(Requests), closed : BOOLEAN, cut : BOOLEAN, torn : BOOLEAN]

TypeInv ==
    /\ line1 \in Seq(Requests) /\ line2 \in Seq(Requests)
    /\ inside1 \in BOOLEAN /\ inside2 \in BOOLEAN
    /\ pc \in [Requests -> Places]
    /\ retry \in [Requests -> BOOLEAN]
    /\ mine \in [Requests -> [gen : Nat, expect : Nat]]
    /\ got \in [Requests -> Requests \cup {None}]
    /\ outcome \in [Requests -> {"none", "unsent", "error", "cut", "ok"}]
    /\ sends \in [Requests -> Nat]
    /\ http \in Sockets
    /\ conn \in Connections

Distinct(s) == \A i, j \in 1..Len(s) : s[i] = s[j] => i = j

\* A mutex is held by the first of its line, and the others wait for it.  Who
\* holds mut1 is the last of line 2.
Line1Inv ==
    /\ Distinct(line1)
    /\ \A i \in 1..Len(line1) : i > 1 \/ ~inside1 => pc[line1[i]] = "wait1"
    /\ \A r \in Requests : pc[r] = "wait1" => Contains(line1, r)
    /\ inside1 => /\ line1 # <<>> /\ line2 # <<>> /\ line1[1] = line2[Len(line2)]
                  /\ pc[line1[1]] \in {"wait2", "connect", "returning"}
    /\ \A r \in Requests : pc[r] = "wait2" => inside1 /\ line1[1] = r

Line2Inv ==
    /\ due = FALSE /\ beside = {}
    /\ Distinct(line2)
    /\ \A i \in 1..Len(line2) : i > 1 \/ ~inside2 => pc[line2[i]] \in {"sent", "sending", "wait2"}
    /\ inside2 => /\ line2 # <<>>
                  /\ pc[line2[1]] \in {"connect", "status", "body", "returning"}
    /\ \A r \in Requests :
          pc[r] \in {"wait2", "sent", "sending", "connect", "status", "body", "returning"} =>
              Contains(line2, r)

\* What has become of the requests that must not be repeated.
SendInv ==
    /\ \A r \in Requests : outcome[r] # "none" => pc[r] \in {"returning", "done"}
    /\ \A r \in Posts :
          /\ pc[r] \notin {"sent", "sending"} /\ sends[r] <= 1
          /\ pc[r] \in {"idle", "wait1", "wait2", "connect"} => sends[r] = 0
          /\ pc[r] = "status" => ~retry[r]
          /\ outcome[r] = "unsent" => sends[r] = 0

\* The counters and the connection.  As long as it is open, what was sent and
\* not received is on its way.
WireInv ==
    /\ OneOrigin
    /\ ~http.sock => conn.wire = <<>> /\ conn.closed
    /\ http.sock => http.received + Len(conn.wire) <= http.sent
    /\ ~conn.closed => http.received + Len(conn.wire) = http.sent
    /\ \A r \in Requests : pc[r] \in {"status", "body"} => conn.wire # <<>> \/ conn.closed
    /\ \A k \in 1..Len(conn.wire) : sends[conn.wire[k]] > 0

\* What a pipelined request remembers, and whose answer it will find there.
MineInv ==
    \A r \in Requests : pc[r] \in {"sent", "sending"} =>
        /\ mine[r].gen <= http.gen
        /\ mine[r].gen = http.gen /\ http.sock =>
              /\ mine[r].expect < http.sent
              /\ \A k \in 1..Len(conn.wire) :
                    mine[r].expect + 1 = http.received + k => conn.wire[k] = r

SentCancelled == \E q \in Requests : pc[q] = "cancelled" /\ sends[q] > 0

\* Before that, the answers on their way are for requests in line 2, in the
\* order of the line, and as they remember it.
OrderInv ==
    ~SentCancelled =>
        \A k \in 1..Len(conn.wire) :
            /\ pc[conn.wire[k]] \in {"sent", "status", "body"}
            /\ pc[conn.wire[k]] = "sent" =>
                  /\ mine[conn.wire[k]].gen = http.gen
                  /\ mine[conn.wire[k]].expect + 1 = http.received + k
            /\ \A j \in 1..Len(conn.wire), a, b \in 1..Len(line2) :
                  j < k /\ line2[a] = conn.wire[j] /\ line2[b] = conn.wire[k] => a < b

\* A request whose answer may be another one's.
Strayed(r) == ~retry[r] /\ SentCancelled

ReaderInv ==
    \A r \in Requests :
        /\ pc[r] \in {"status", "body"} /\ conn.wire # <<>> => conn.wire[1] = r \/ Strayed(r)
        /\ pc[r] = "body" => got[r] = r \/ Strayed(r)
        /\ outcome[r] = "ok" => got[r] = r \/ Strayed(r)

HttpInv ==
    /\ TypeInv /\ Line1Inv /\ Line2Inv /\ SendInv
    /\ WireInv /\ MineInv /\ OrderInv /\ ReaderInv

\* What holds whoever holds mut2 beside another.
AllPlaces == Places \cup {"failing", "replacing", "aborted"}

\* A request at p that may be retried if t, returned o and was sent n times.
Allowed(r, p, t, o, n) ==
    /\ o # "none" => p \in {"returning", "done", "aborted"}
    /\ r \in Posts =>
          /\ p \notin {"sent", "sending"} /\ n <= 1
          /\ p \in {"idle", "wait1", "wait2", "connect", "replacing"} => n = 0
          /\ p = "status" => ~t
          /\ o = "unsent" => n = 0

RequestsInv ==
    /\ pc \in [Requests -> AllPlaces]
    /\ retry \in [Requests -> BOOLEAN]
    /\ outcome \in [Requests -> {"none", "unsent", "error", "cut", "ok"}]
    /\ sends \in [Requests -> Nat]
    /\ \A r \in Requests : Allowed(r, pc[r], retry[r], outcome[r], sends[r])

SocketInv == http \in Sockets /\ conn \in Connections /\ OneOrigin

\* What was sent over a connection that is open and not received is on its way;
\* who remembers that connection was sent over it.
Counted == ~conn.closed => http.sock /\ http.received + Len(conn.wire) = http.sent

Remembers(m) == m.gen <= http.gen /\ (m.gen = http.gen /\ ~conn.closed => m.expect < http.sent)

Fed == conn.wire # <<>> \/ conn.closed

Reading == {r \in Requests : pc[r] \in {"status", "body"}}

ServedInv ==
    /\ mine \in [Requests -> [gen : Nat, expect : Nat]]
    /\ Counted
    /\ \A r \in Requests : pc[r] \in {"sent", "sending"} => Remembers(mine[r])
    /\ \A r, q \in Reading : r = q
    /\ ReaderServed

-----------------------------------------------------------------------------
(* Lines without one of their members.                                     *)

\* What a sequence is without one of its elements.
LEMMA RemoveAtFacts ==
    ASSUME NEW S, NEW s \in Seq(S), NEW i \in 1..Len(s)
    PROVE  /\ RemoveAt(s, i) \in Seq(S)
           /\ Len(RemoveAt(s, i)) = Len(s) - 1
           /\ \A j \in 1..(Len(s) - 1) :
                 RemoveAt(s, i)[j] = IF j < i THEN s[j] ELSE s[j + 1]
<1> DEFINE l == SubSeq(s, 1, i - 1)
           r == SubSeq(s, i + 1, Len(s))
<1>1. /\ l \in Seq(S)
      /\ Len(l) = i - 1
      /\ \A j \in 1..(i - 1) : l[j] = s[j]
  OBVIOUS
<1>2. /\ r \in Seq(S)
      /\ Len(r) = Len(s) - i
      /\ \A j \in 1..(Len(s) - i) : r[j] = s[j + i]
  OBVIOUS
<1>3. RemoveAt(s, i) = l \o r
  BY DEF RemoveAt
<1> HIDE DEF l, r
<1>4. /\ l \o r \in Seq(S)
      /\ Len(l \o r) = Len(l) + Len(r)
  BY <1>1, <1>2, ConcatProperties
<1>5. Len(l \o r) = Len(s) - 1
  <2>1. Len(s) \in Nat /\ i \in Int
    OBVIOUS
  <2> QED BY <2>1, <1>1, <1>2, <1>4
<1>6. \A j \in 1..(Len(s) - 1) : (l \o r)[j] = IF j < i THEN s[j] ELSE s[j + 1]
  BY <1>1, <1>2, ConcatProperties
<1> QED BY <1>3, <1>4, <1>5, <1>6, Zenon

\* Taking the head off.
LEMMA TailFacts ==
    ASSUME NEW S, NEW s \in Seq(S), s # <<>>
    PROVE  /\ Tail(s) \in Seq(S) /\ Len(s) \in Nat \ {0} /\ Len(Tail(s)) = Len(s) - 1
           /\ \A i \in 1..(Len(s) - 1) : Tail(s)[i] = s[i + 1]
           /\ 1 \in 1..Len(s) /\ s[1] \in S
OBVIOUS

\* What is left of a line, whichever member leaves: the others, in order.
LEMMA WithoutFacts ==
    ASSUME NEW S, NEW s \in Seq(S), NEW r, Distinct(s), Contains(s, r)
    PROVE  \E i \in 1..Len(s) :
              /\ s[i] = r
              /\ Without(s, r) = RemoveAt(s, i)
              /\ Without(s, r) \in Seq(S) /\ Len(Without(s, r)) = Len(s) - 1
              /\ \A j \in 1..(Len(s) - 1) :
                    Without(s, r)[j] = IF j < i THEN s[j] ELSE s[j + 1]
<1>1. PICK i \in 1..Len(s) : i = CHOOSE k \in 1..Len(s) : s[k] = r
  BY DEF Contains
<1>2. s[i] = r
  BY <1>1 DEF Contains
<1>3. Without(s, r) = RemoveAt(s, i)
  BY <1>1 DEF Without
<1> QED BY <1>2, <1>3, RemoveAtFacts

\* w is the line s, which r has left.
Leaves(s, r, w) == s \in Seq(Requests) /\ Distinct(s) /\ w = Without(s, r)

\* What is left of the line.
IsLeft(s, r, w) ==
    /\ w \in Seq(Requests) /\ Len(w) \in Nat /\ Len(w) <= Len(s)
    /\ Distinct(w)
    /\ \A j \in 1..Len(w) : w[j] # r
    /\ \A j \in 1..Len(w) : \E i \in 1..Len(s) : w[j] = s[i] /\ j <= i
    /\ \A q : q # r /\ Contains(s, q) => Contains(w, q)
    /\ \A a, b \in 1..Len(w), i, j \in 1..Len(s) :
          w[a] = s[i] /\ w[b] = s[j] /\ i < j => a < b
    /\ s # <<>> /\ s[1] # r => w # <<>> /\ w[1] = s[1]
    /\ s # <<>> /\ s[Len(s)] # r => w # <<>> /\ w[Len(w)] = s[Len(s)]
    /\ s # <<>> /\ s[1] = r =>
          \A j \in 1..Len(w) : j + 1 \in 1..Len(s) /\ w[j] = s[j + 1]

\* The members but r stay, each once, in their order; so do the first and the
\* last of them.
LEMMA LeaveLine ==
    ASSUME NEW s, NEW r, NEW w, Leaves(s, r, w)
    PROVE  IsLeft(s, r, w)
<1> USE DEF Leaves, IsLeft
<1>1. CASE ~Contains(s, r)
  <2>1. w = s
    BY <1>1 DEF Without
  <2> QED BY <1>1, <2>1 DEF Contains, Distinct
<1>2. CASE Contains(s, r)
  <2>1. PICK i \in 1..Len(s) :
           /\ s[i] = r
           /\ w \in Seq(Requests) /\ Len(w) = Len(s) - 1
           /\ \A j \in 1..(Len(s) - 1) : w[j] = IF j < i THEN s[j] ELSE s[j + 1]
    BY <1>2, WithoutFacts
  <2>2. Len(s) \in Nat \ {0}
    BY <2>1
  <2>3. \A j \in 1..Len(w) : \E k \in 1..Len(s) :
           k # i /\ w[j] = s[k] /\ j <= k /\ k <= j + 1 /\ (j < i <=> k < i)
           /\ (j < i => k = j) /\ (j >= i => k = j + 1)
    <3> TAKE j \in 1..Len(w)
    <3>1. CASE j < i
      BY <3>1, <2>1, <2>2
    <3>2. CASE ~(j < i)
      <4>1. j + 1 \in 1..Len(s) /\ w[j] = s[j + 1]
        BY <3>2, <2>1, <2>2
      <4> QED BY <3>2, <4>1, <2>1, <2>2
    <3> QED BY <3>1, <3>2
  <2>4. \A j \in 1..Len(w) : w[j] # r
    BY <2>1, <2>3 DEF Distinct
  <2>5. Distinct(w)
    BY <2>3, <2>2, <2>1 DEF Distinct
  <2>6. \A q : q # r /\ Contains(s, q) => Contains(w, q)
    <3> SUFFICES ASSUME NEW k \in 1..Len(s), s[k] # r PROVE \E j \in 1..Len(w) : w[j] = s[k]
      BY Zenon DEF Contains
    <3>1. CASE k < i
      <4>1. k \in 1..Len(w) /\ w[k] = s[k]
        BY <3>1, <2>1, <2>2
      <4> QED BY <4>1
    <3>2. CASE k > i
      <4>1. k - 1 \in 1..Len(w) /\ w[k - 1] = s[k]
        BY <3>2, <2>1, <2>2
      <4> QED BY <4>1
    <3> QED BY <3>1, <3>2, <2>1
  <2>7. \A a, b \in 1..Len(w), k, j \in 1..Len(s) :
           w[a] = s[k] /\ w[b] = s[j] /\ k < j => a < b
    <3> SUFFICES ASSUME NEW a \in 1..Len(w), NEW b \in 1..Len(w),
                        NEW k \in 1..Len(s), NEW j \in 1..Len(s),
                        w[a] = s[k], w[b] = s[j], k < j
                 PROVE  a < b
      OBVIOUS
    <3>1. (a < i => k = a) /\ (a >= i => k = a + 1)
      BY <2>3 DEF Distinct
    <3>2. (b < i => j = b) /\ (b >= i => j = b + 1)
      BY <2>3 DEF Distinct
    <3>3. k # i /\ j # i
      BY <2>1, <2>4
    <3> QED BY <3>1, <3>2, <3>3, <2>1, <2>2
  <2>8. s[1] # r => w # <<>> /\ w[1] = s[1]
    <3> SUFFICES ASSUME s[1] # r PROVE w # <<>> /\ w[1] = s[1]
      OBVIOUS
    <3>1. i > 1 /\ 1 \in 1..(Len(s) - 1)
      BY <2>1, <2>2
    <3> QED BY <3>1, <2>1
  <2>9. s[Len(s)] # r => w # <<>> /\ w[Len(w)] = s[Len(s)]
    <3> SUFFICES ASSUME s[Len(s)] # r PROVE w # <<>> /\ w[Len(w)] = s[Len(s)]
      OBVIOUS
    <3>1. i < Len(s) /\ Len(s) - 1 \in 1..(Len(s) - 1) /\ ~(Len(s) - 1 < i)
      BY <2>1, <2>2
    <3>2. w[Len(s) - 1] = s[(Len(s) - 1) + 1] /\ (Len(s) - 1) + 1 = Len(s)
      BY <3>1, <2>1, <2>2
    <3> QED BY <3>1, <3>2, <2>1
  <2>10. s[1] = r => \A j \in 1..Len(w) : j + 1 \in 1..Len(s) /\ w[j] = s[j + 1]
    <3> SUFFICES ASSUME s[1] = r, NEW j \in 1..Len(w)
                 PROVE  j + 1 \in 1..Len(s) /\ w[j] = s[j + 1]
      OBVIOUS
    <3>1. i = 1
      BY <2>1, <2>2 DEF Distinct
    <3> QED BY <3>1, <2>1, <2>2
  <2>11. \A j \in 1..Len(w) : \E k \in 1..Len(s) : w[j] = s[k] /\ j <= k
    BY <2>3
  <2>12. w \in Seq(Requests) /\ Len(w) \in Nat /\ Len(w) <= Len(s)
    BY <2>1, <2>2
  <2> HIDE DEF Distinct
  <2> QED BY <2>4, <2>5, <2>6, <2>7, <2>8, <2>9, <2>10, <2>11, <2>12
<1> QED BY <1>1, <1>2, Zenon

-----------------------------------------------------------------------------
(* Who is where.                                                           *)

\* What an update of the members of http_t leaves alone.
LEMMA SocketFacts ==
    ASSUME NEW h \in Sockets
    PROVE  /\ h.sent \in Nat /\ h.received \in Nat /\ h.gen \in Nat
           /\ h.sock \in BOOLEAN /\ h.elsewhere \in BOOLEAN /\ h.fresh \in BOOLEAN
           /\ h.sent + 1 \in Nat /\ h.received + 1 \in Nat
BY DEF Sockets

\* A socket that is gone leaves the counters alone.
LEMMA DroppedSocket ==
    ASSUME NEW h \in Sockets, NEW g, g = [h EXCEPT !.sock = FALSE]
    PROVE  /\ g \in Sockets /\ g.sock = FALSE /\ g.elsewhere = h.elsewhere
           /\ g.gen = h.gen /\ g.sent = h.sent /\ g.received = h.received
BY DEF Sockets

\* So does one that breaks within a body, which counts as read.
LEMMA CutSocket ==
    ASSUME NEW h \in Sockets, NEW g, g = [h EXCEPT !.sock = FALSE, !.received = @ + 1, !.fresh = TRUE]
    PROVE  /\ g \in Sockets /\ g.sock = FALSE /\ g.elsewhere = h.elsewhere
           /\ g.gen = h.gen /\ g.sent = h.sent /\ g.received = h.received + 1
<1>1. PICK n : n = h.received + 1
  OBVIOUS
<1>2. n \in Nat
  BY <1>1, SocketFacts
<1>3. g = [h EXCEPT !.sock = FALSE, !.received = n, !.fresh = TRUE]
  BY <1>1, Zenon
<1> QED BY <1>1, <1>2, <1>3 DEF Sockets

\* An answer that is read is counted.
LEMMA ReadSocket ==
    ASSUME NEW h \in Sockets, NEW g, g = [h EXCEPT !.received = @ + 1, !.fresh = TRUE]
    PROVE  /\ g \in Sockets /\ g.sock = h.sock /\ g.elsewhere = h.elsewhere
           /\ g.gen = h.gen /\ g.sent = h.sent /\ g.received = h.received + 1
<1>1. PICK n : n = h.received + 1
  OBVIOUS
<1>2. n \in Nat
  BY <1>1, SocketFacts
<1>3. g = [h EXCEPT !.received = n, !.fresh = TRUE]
  BY <1>1, Zenon
<1> QED BY <1>1, <1>2, <1>3 DEF Sockets

\* A request that is sent is counted.
LEMMA SentSocket ==
    ASSUME NEW h \in Sockets, NEW g, g = [h EXCEPT !.sent = @ + 1]
    PROVE  /\ g \in Sockets /\ g.sock = h.sock /\ g.elsewhere = h.elsewhere
           /\ g.gen = h.gen /\ g.sent = h.sent + 1 /\ g.received = h.received
<1>1. PICK n : n = h.sent + 1
  OBVIOUS
<1>2. n \in Nat
  BY <1>1, SocketFacts
<1>3. g = [h EXCEPT !.sent = n]
  BY <1>1, Zenon
<1> QED BY <1>1, <1>2, <1>3 DEF Sockets

AtSocket == {"connect", "status", "body", "returning"}

\* Only the holder of mut2 has its hands on the socket.
LEMMA OneHolder ==
    ASSUME HttpInv
    PROVE  \A r \in Requests : pc[r] \in AtSocket =>
              inside2 /\ line2 # <<>> /\ line2[1] = r
<1> SUFFICES ASSUME NEW r \in Requests, pc[r] \in AtSocket
             PROVE  inside2 /\ line2 # <<>> /\ line2[1] = r
  OBVIOUS
<1>1. Contains(line2, r)
  BY DEF HttpInv, Line2Inv, AtSocket
<1>2. PICK i \in 1..Len(line2) : line2[i] = r
  BY <1>1 DEF Contains
<1>3. ~(i > 1 \/ ~inside2)
  BY <1>2 DEF HttpInv, Line2Inv, AtSocket
<1>4. Len(line2) \in Nat /\ line2 \in Seq(Requests)
  BY DEF HttpInv, TypeInv
<1>5. i = 1 /\ line2 # <<>>
  BY <1>3, <1>4
<1> QED BY <1>2, <1>3, <1>5

\* Where a sequence has one element, that is where one finds it.
LEMMA OnlyPlace ==
    ASSUME NEW S, NEW s \in Seq(S), ~(Len(s) > 1), NEW i \in 1..Len(s), NEW e, s[i] = e
    PROVE  Len(s) = 1 /\ s[1] = e /\ s # <<>>
<1>1. Len(s) \in Nat
  OBVIOUS
<1>2. PICK n \in Nat : n = Len(s)
  BY <1>1
<1>3. n = 1 /\ i = 1
  BY <1>2
<1>4. s[1] = e /\ Len(s) = 1
  BY <1>2, <1>3
<1>5. s # <<>>
  BY <1>4
<1> QED BY <1>4, <1>5

\* The members of the lines, and their requests, one by one.
LEMMA LineFacts ==
    ASSUME HttpInv
    PROVE  /\ line1 \in Seq(Requests) /\ Len(line1) \in Nat
           /\ line2 \in Seq(Requests) /\ Len(line2) \in Nat
           /\ \A i \in 1..Len(line1) : line1[i] \in Requests
           /\ \A i \in 1..Len(line2) :
                 /\ line2[i] \in Requests
                 /\ pc[line2[i]] \in {"sent", "sending", "wait2"} \cup AtSocket
           /\ line1 # <<>> => 1 \in 1..Len(line1) /\ line1[1] \in Requests
           /\ line2 # <<>> => 1 \in 1..Len(line2) /\ line2[1] \in Requests
           /\ conn.wire \in Seq(Requests) /\ Len(conn.wire) \in Nat
           /\ \A k \in 1..Len(conn.wire) : conn.wire[k] \in Requests
<1>1. line1 \in Seq(Requests) /\ line2 \in Seq(Requests) /\ conn.wire \in Seq(Requests)
  BY DEF HttpInv, TypeInv, Connections
<1>2. \A i \in 1..Len(line2) : pc[line2[i]] \in {"sent", "sending", "wait2"} \cup AtSocket
  <2> TAKE i \in 1..Len(line2)
  <2>1. CASE i > 1 \/ ~inside2
    BY <2>1 DEF HttpInv, Line2Inv
  <2>2. CASE ~(i > 1) /\ inside2
    <3>1. i = 1
      BY <2>2, <1>1
    <3> QED BY <2>2, <3>1 DEF HttpInv, Line2Inv, AtSocket
  <2> QED BY <2>1, <2>2
<1> QED BY <1>1, <1>2

\* As long as nobody who was sent is cancelled, the wire holds the answers for
\* members of line 2; none is there when the line is empty.
LEMMA WireInLine ==
    ASSUME HttpInv, ~SentCancelled
    PROVE  \A k \in 1..Len(conn.wire) : Contains(line2, conn.wire[k])
<1> TAKE k \in 1..Len(conn.wire)
<1>1. pc[conn.wire[k]] \in {"sent", "status", "body"}
  BY DEF HttpInv, OrderInv
<1>2. conn.wire[k] \in Requests
  BY LineFacts
<1> QED BY <1>1, <1>2 DEF HttpInv, Line2Inv

\* The cancelled requests are the same after a step of a request that goes on.
LEMMA SameCancelled ==
    ASSUME HttpInv, NEW r \in Requests, NEW p, Goto(r, p),
           pc[r] # "cancelled", p # "cancelled",
           \A q \in Requests : q # r => sends'[q] = sends[q]
    PROVE  SentCancelled' <=> SentCancelled
<1>1. \A q \in Requests : pc'[q] = IF q = r THEN p ELSE pc[q]
  BY DEF Goto, HttpInv, TypeInv
<1> QED BY <1>1 DEF SentCancelled

\* The lines are in order after a step that leaves them alone and moves the
\* holder of mut2 on.
LEMMA LinesKept ==
    ASSUME HttpInv, NEW r \in Requests, NEW p \in AtSocket, Goto(r, p), UNCHANGED mutexes,
           pc[r] \in AtSocket, Holds1(r) => p \in {"connect", "returning"}
    PROVE  Line1Inv' /\ Line2Inv'
<1>1. \A q \in Requests : pc'[q] = IF q = r THEN p ELSE pc[q]
  BY DEF Goto, HttpInv, TypeInv
<1>2. /\ line1' = line1 /\ line2' = line2 /\ inside1' = inside1 /\ inside2' = inside2
      /\ due' = due /\ beside' = beside
  BY DEF mutexes, mutex1, mutex2
<1>3. inside2 /\ line2 # <<>> /\ line2[1] = r
  BY OneHolder
<1>4. Line1Inv'
  <2>1. Distinct(line1)'
    BY <1>2 DEF HttpInv, Line1Inv, Distinct
  <2>2. \A i \in 1..Len(line1) : i > 1 \/ ~inside1 => pc'[line1[i]] = "wait1"
    BY <1>1, LineFacts DEF HttpInv, Line1Inv, AtSocket
  <2>3. \A q \in Requests : pc'[q] = "wait1" => Contains(line1', q)
    BY <1>1, <1>2 DEF HttpInv, Line1Inv, AtSocket
  <2>4. inside1 => /\ line1 # <<>> /\ line2 # <<>> /\ line1[1] = line2[Len(line2)]
                   /\ pc'[line1[1]] \in {"wait2", "connect", "returning"}
    BY <1>1, LineFacts DEF HttpInv, Line1Inv, AtSocket, Holds1
  <2>5. \A q \in Requests : pc'[q] = "wait2" => inside1 /\ line1[1] = q
    BY <1>1 DEF HttpInv, Line1Inv, AtSocket
  <2> QED BY <1>2, <2>1, <2>2, <2>3, <2>4, <2>5 DEF Line1Inv
<1>5. Line2Inv'
  <2>1. Line2Inv
    BY DEF HttpInv
  <2>2. p \in {"connect", "status", "body", "returning"}
    BY DEF AtSocket
  <2>3. \A i \in 1..Len(line2) : line2[i] \in Requests /\ (i > 1 => line2[i] # r)
    <3>1. \A i \in 1..Len(line2) : i > 1 => line2[i] # line2[1]
      <4>1. Distinct(line2) /\ 1 \in 1..Len(line2)
        BY <1>3, <2>1, LineFacts DEF Line2Inv
      <4> QED BY <4>1 DEF Distinct
    <3>2. \A i \in 1..Len(line2) : line2[i] \in Requests
      BY LineFacts
    <3> QED BY <1>3, <3>1, <3>2
  <2>4. \A i \in 1..Len(line2) : i > 1 \/ ~inside2 => pc'[line2[i]] \in {"sent", "sending", "wait2"}
    <3>1. \A i \in 1..Len(line2) : i > 1 \/ ~inside2 => pc[line2[i]] \in {"sent", "sending", "wait2"}
      BY ONLY <2>1 DEF Line2Inv
    <3> QED BY ONLY <1>1, <1>3, <2>3, <3>1
  <2>5. pc'[line2[1]] \in {"connect", "status", "body", "returning"}
    BY <1>1, <1>3, <2>2
  <2>6. \A q \in Requests :
            pc'[q] \in {"wait2", "sent", "sending", "connect", "status", "body", "returning"} =>
                Contains(line2, q)
    <3>1. \A q \in Requests :
              pc[q] \in {"wait2", "sent", "sending", "connect", "status", "body", "returning"} =>
                  Contains(line2, q)
      BY ONLY <2>1 DEF Line2Inv
    <3>2. pc[r] \in {"wait2", "sent", "sending", "connect", "status", "body", "returning"}
      BY DEF AtSocket
    <3> QED BY <1>1, <3>1, <3>2
  <2>7. Distinct(line2) /\ due = FALSE /\ beside = {}
    BY <2>1 DEF Line2Inv
  <2> QED BY ONLY <1>2, <1>3, <2>4, <2>5, <2>6, <2>7 DEF Line2Inv, Distinct, Contains
<1> QED BY <1>4, <1>5

\* mut1 is passed on by the first of its line, or by a request that found the
\* line empty.
LEMMA PassLine ==
    ASSUME HttpInv, NEW r \in Requests, NEW p \in Places \ {"wait1", "wait2"},
           \A q \in Requests : pc'[q] = IF q = r THEN p ELSE pc[q],
           line1 # <<>> => line1[1] = r,
           Pass1
    PROVE  Line1Inv' /\ line1' \in Seq(Requests) /\ inside1' = FALSE
<1>1. /\ Len(line1') \in Nat /\ inside1' = FALSE /\ line1' \in Seq(Requests)
      /\ \A i \in 1..Len(line1') : line1'[i] = line1[i + 1] /\ i + 1 \in 1..Len(line1)
      /\ line1 # <<>> => Len(line1') = Len(line1) - 1
  <2>1. CASE line1 = <<>>
    BY <2>1, EmptySeq DEF Pass1
  <2>2. CASE line1 # <<>>
    BY <2>2, TailFacts, LineFacts DEF Pass1
  <2> QED BY <2>1, <2>2
<1>2. Distinct(line1')
  BY <1>1 DEF HttpInv, Line1Inv, Distinct
<1>3. ASSUME NEW i \in 1..Len(line1') PROVE pc'[line1'[i]] = "wait1"
  <2>1. /\ i + 1 \in 1..Len(line1) /\ i + 1 > 1 /\ line1'[i] = line1[i + 1]
        /\ line1 # <<>> /\ 1 \in 1..Len(line1)
    BY <1>1, LineFacts
  <2>2. pc[line1[i + 1]] = "wait1" /\ line1[i + 1] \in Requests
    BY <2>1, LineFacts DEF HttpInv, Line1Inv
  <2>3. line1[i + 1] # r
    BY <2>1 DEF HttpInv, Line1Inv, Distinct
  <2> QED BY <2>1, <2>2, <2>3
<1>4. ASSUME NEW q \in Requests, pc'[q] = "wait1" PROVE Contains(line1', q)
  <2>1. pc[q] = "wait1" /\ q # r
    BY <1>4
  <2>2. PICK i \in 1..Len(line1) : line1[i] = q
    BY <2>1 DEF HttpInv, Line1Inv, Contains
  <2>3. line1 # <<>>
    BY <2>2
  <2>4. i # 1 /\ i - 1 \in 1..Len(line1') /\ (i - 1) + 1 = i
    BY <1>1, <2>1, <2>2, <2>3, LineFacts
  <2> QED BY <1>1, <2>2, <2>4 DEF Contains
<1>5. \A q \in Requests : pc'[q] # "wait2"
  BY DEF HttpInv, Line1Inv
<1> QED BY <1>1, <1>2, <1>3, <1>4, <1>5 DEF Line1Inv

\* A request stays inside mut1, and is the last of line 2.
LEMMA HoldLine ==
    ASSUME HttpInv, NEW r \in Requests, NEW p \in {"wait2", "connect"},
           \A q \in Requests : pc'[q] = IF q = r THEN p ELSE pc[q],
           line1 # <<>> => line1[1] = r,
           line2' # <<>>, line2'[Len(line2')] = r,
           Hold1(r)
    PROVE  Line1Inv' /\ line1' \in Seq(Requests) /\ inside1' = TRUE
<1>1. CASE line1 = <<>>
  <2>1. line1' = <<r>> /\ inside1' = TRUE
    BY <1>1 DEF Hold1
  <2>2. Len(line1') = 1 /\ line1'[1] = r /\ line1' # <<>> /\ line1' \in Seq(Requests)
    BY <2>1
  <2>3. \A q \in Requests : pc[q] \notin {"wait1", "wait2"}
    BY <1>1, LineFacts DEF HttpInv, Line1Inv, Contains
  <2> QED BY <2>1, <2>2, <2>3 DEF Line1Inv, Distinct
<1>2. CASE line1 # <<>>
  <2>1. line1' = line1 /\ inside1' = TRUE /\ line1[1] = r /\ 1 \in 1..Len(line1)
    BY <1>2, LineFacts DEF Hold1
  <2>2. ASSUME NEW i \in 1..Len(line1), i > 1 PROVE pc'[line1[i]] = "wait1"
    <3>1. pc[line1[i]] = "wait1" /\ line1[i] \in Requests
      BY <2>2, LineFacts DEF HttpInv, Line1Inv
    <3>2. line1[i] # r
      BY <2>1, <2>2 DEF HttpInv, Line1Inv, Distinct
    <3> QED BY <3>1, <3>2
  <2>3. \A q \in Requests : /\ pc'[q] = "wait1" => Contains(line1, q)
                            /\ pc'[q] = "wait2" => q = r
    BY <2>1 DEF HttpInv, Line1Inv
  <2>4. pc'[r] \in {"wait2", "connect", "returning"}
    OBVIOUS
  <2>5. Distinct(line1)
    BY DEF HttpInv, Line1Inv
  <2> QED BY <1>2, <2>1, <2>2, <2>3, <2>4, <2>5, LineFacts DEF Line1Inv
<1> QED BY <1>1, <1>2

\* A request joins line 2.
LEMMA JoinLine ==
    ASSUME HttpInv, NEW r \in Requests, NEW p \in {"wait2", "sent", "sending", "connect", "status"},
           \A q \in Requests : pc'[q] = IF q = r THEN p ELSE pc[q],
           pc[r] \in {"idle", "wait1"},
           p \in {"wait2", "sent", "sending"} <=> line2 # <<>>,
           line2' = Append(line2, r), inside2' = (inside2 \/ line2 = <<>>),
           due' = FALSE, beside' = {}
    PROVE  /\ Line2Inv'
           /\ line2' \in Seq(Requests) /\ line2' # <<>>
           /\ Len(line2') = Len(line2) + 1 /\ line2'[Len(line2')] = r
           /\ \A i \in 1..Len(line2) : line2'[i] = line2[i] /\ line2[i] # r
<1>1. /\ line2' \in Seq(Requests) /\ line2' # <<>>
      /\ Len(line2') = Len(line2) + 1 /\ line2'[Len(line2')] = r
      /\ \A i \in 1..Len(line2) : line2'[i] = line2[i]
  BY LineFacts, AppendProperties
<1>2. \A i \in 1..Len(line2) : line2[i] # r /\ line2[i] \in Requests
  BY LineFacts DEF AtSocket
<1>3. \A i \in 1..Len(line2') : i \in 1..Len(line2) \/ i = Len(line2) + 1
  BY <1>1, LineFacts
<1>4. Distinct(line2')
  BY <1>1, <1>2, <1>3, LineFacts DEF HttpInv, Line2Inv, Distinct
<1>5. CASE line2 = <<>>
  <2>1. Len(line2') = 1 /\ line2'[1] = r /\ inside2' = TRUE
    <3>1. Len(line2) = 0 /\ inside2' = TRUE
      BY <1>5
    <3> QED BY <1>1, <3>1
  <2>2. \A q \in Requests :
           pc[q] \notin {"wait2", "sent", "sending", "connect", "status", "body", "returning"}
    BY <1>5, LineFacts DEF HttpInv, Line2Inv, Contains
  <2>3. \A q \in Requests :
           pc'[q] \in {"wait2", "sent", "sending", "connect", "status", "body", "returning"} =>
              Contains(line2', q)
    BY <2>1, <2>2 DEF Contains
  <2> QED BY <1>1, <1>2, <1>4, <1>5, <2>1, <2>3 DEF Line2Inv
<1>6. CASE line2 # <<>>
  <2>1. inside2' = inside2 /\ pc'[r] \in {"wait2", "sent", "sending"} /\ 1 \in 1..Len(line2)
    BY <1>6, LineFacts DEF HttpInv, TypeInv
  <2>2. \A i \in 1..Len(line2') :
           i > 1 \/ ~inside2 => pc'[line2'[i]] \in {"sent", "sending", "wait2"}
    BY <1>1, <1>2, <1>3, <2>1 DEF HttpInv, Line2Inv
  <2>3. inside2 => pc'[line2'[1]] \in {"connect", "status", "body", "returning"}
    BY <1>1, <1>2, <2>1 DEF HttpInv, Line2Inv
  <2>4. ASSUME NEW q \in Requests,
               pc'[q] \in {"wait2", "sent", "sending", "connect", "status", "body", "returning"}
        PROVE  Contains(line2', q)
    <3>1. CASE q = r
      <4>1. Len(line2') \in 1..Len(line2')
        BY <1>1, LineFacts
      <4> QED BY <1>1, <3>1, <4>1 DEF Contains
    <3>2. CASE q # r
      <4>1. PICK i \in 1..Len(line2) : line2[i] = q
        BY <2>4, <3>2 DEF HttpInv, Line2Inv, Contains
      <4>2. i \in 1..Len(line2')
        BY <1>1, LineFacts
      <4> QED BY <1>1, <4>1, <4>2 DEF Contains
    <3> QED BY <3>1, <3>2
  <2>5. Line2Inv'
    BY <1>1, <1>4, <2>1, <2>2, <2>3, <2>4 DEF Line2Inv
  <2> QED BY <1>1, <1>2, <2>5
<1> QED BY <1>5, <1>6

\* The socket is dropped: request() returns or asks for another.
LEMMA DropStep ==
    ASSUME HttpInv, NEW r \in Requests, NEW p \in {"connect", "returning"}, Goto(r, p),
           pc[r] \in {"connect", "status", "body"}, pc[r] = "connect" => p = "returning",
           UNCHANGED <<far, mutexes, retry, mine, got, sends>>,
           NEW what \in {"none", "unsent", "error", "cut"},
           outcome' = [outcome EXCEPT ![r] = what], what # "none" => p = "returning",
           what = "unsent" => pc[r] = "connect",
           p = "connect" => pc[r] = "status" /\ retry[r],
           NEW h, http' = h, NEW c, conn' = c,
           h \in Sockets,
           h.gen = http.gen, h.sock = FALSE, c = Dead
    PROVE  HttpInv'
<1>1. \A q \in Requests : pc'[q] = IF q = r THEN p ELSE pc[q]
  BY DEF Goto, HttpInv, TypeInv
<1>2. \A q \in Requests : outcome'[q] = IF q = r THEN what ELSE outcome[q]
  BY DEF HttpInv, TypeInv
<1>3. /\ c.wire = <<>> /\ c.closed = TRUE
      /\ c \in Connections
  BY DEF Dead, Connections
<1>4. TypeInv'
  BY <1>3 DEF HttpInv, TypeInv, Goto, mutexes, mutex1, mutex2, Places
<1>5. Line1Inv' /\ Line2Inv'
  <2>1. p \in AtSocket /\ pc[r] \in AtSocket /\ UNCHANGED mutexes
    BY DEF AtSocket
  <2> QED BY <2>1, LinesKept
<1>6. SendInv'
  BY <1>1, <1>2 DEF HttpInv, SendInv, Requests
<1>7. WireInv'
  BY <1>3 DEF HttpInv, WireInv, OneOrigin
<1>8. MineInv'
  BY <1>1 DEF HttpInv, MineInv
<1>9. OrderInv'
  BY <1>3 DEF OrderInv
<1>10. SentCancelled' <=> SentCancelled
  BY <1>1 DEF SentCancelled
<1>11. ReaderInv'
  BY <1>1, <1>2, <1>3, <1>10 DEF HttpInv, ReaderInv, Strayed
<1> QED BY <1>4, <1>5, <1>6, <1>7, <1>8, <1>9, <1>11 DEF HttpInv

\* set_error() keeps the invariant, and so whoever calls it:
LEMMA ErrorStep ==
    ASSUME HttpInv, NEW r \in Requests, pc[r] \in {"connect", "status", "body"},
           NEW what \in {"unsent", "error"}, what = "unsent" => pc[r] = "connect",
           SetError(r, what)
    PROVE  HttpInv'
<1>1. PICK h : h = [http EXCEPT !.sock = FALSE]
  OBVIOUS
<1>2. /\ h \in Sockets
      /\ h.gen = http.gen /\ h.sock = FALSE
  BY <1>1, DroppedSocket DEF HttpInv, TypeInv
<1>3. /\ Goto(r, "returning") /\ UNCHANGED <<far, mutexes, retry, mine, got, sends>>
      /\ outcome' = [outcome EXCEPT ![r] = what] /\ http' = h
      /\ \E c : c = Dead /\ conn' = c
  BY <1>1 DEF SetError, Answer
<1> QED BY <1>2, <1>3, DropStep

\* a request whose status line does not come,
LEMMA NoStatusStep ==
    ASSUME HttpInv, NEW r \in Requests, NoStatus(r) PROVE HttpInv'
<1>1. CASE retry[r]
  <2>1. PICK h : h = [http EXCEPT !.sock = FALSE]
    OBVIOUS
  <2>2. /\ h \in Sockets
        /\ h.gen = http.gen /\ h.sock = FALSE
    BY <2>1, DroppedSocket DEF HttpInv, TypeInv
  <2>3. /\ Goto(r, "connect") /\ UNCHANGED <<far, mutexes, retry, mine, got, sends>>
        /\ pc[r] = "status"
        /\ outcome' = [outcome EXCEPT ![r] = outcome[r]] /\ http' = h
        /\ \E c : c = Dead /\ conn' = c
    BY <1>1, <2>1 DEF NoStatus, locals, HttpInv, TypeInv
  <2>4. outcome[r] = "none"
    BY <2>3 DEF HttpInv, SendInv
  <2>5. outcome[r] \in {"none", "unsent", "error", "cut"}
    BY <2>4
  <2> QED BY <1>1, <2>2, <2>3, <2>4, <2>5, DropStep
<1>2. CASE ~retry[r]
  BY <1>2, ErrorStep DEF NoStatus
<1> QED BY <1>1, <1>2

\* and one whose body is cut short.
LEMMA CutBodyStep ==
    ASSUME HttpInv, NEW r \in Requests, CutBody(r) PROVE HttpInv'
<1>1. pc[r] = "body"
  BY DEF CutBody
<1>2. CASE SetError(r, "error")
  BY <1>1, <1>2, ErrorStep
<1>3. CASE ~SetError(r, "error")
  <2>1. PICK h : h = [http EXCEPT !.sock = FALSE, !.received = @ + 1, !.fresh = TRUE]
    OBVIOUS
  <2>2. /\ h \in Sockets
        /\ h.gen = http.gen /\ h.sock = FALSE
    BY <2>1, CutSocket DEF HttpInv, TypeInv
  <2>3. /\ Goto(r, "returning") /\ UNCHANGED <<far, mutexes, retry, mine, got, sends>>
        /\ outcome' = [outcome EXCEPT ![r] = "cut"] /\ http' = h
        /\ \E c : c = Dead /\ conn' = c
    BY <1>3, <2>1 DEF CutBody, Answer
  <2> QED BY <1>1, <2>2, <2>3, DropStep
<1> QED BY <1>2, <1>3

\* A status line is read.
LEMMA StatusStep ==
    ASSUME HttpInv, NEW r \in Requests, Status(r) PROVE HttpInv'
<1>1. \A q \in Requests : pc'[q] = IF q = r THEN "body" ELSE pc[q]
  BY DEF Status, Goto, HttpInv, TypeInv
<1>2. /\ pc[r] = "status" /\ conn.wire # <<>> /\ conn.wire[1] \in Requests
      /\ UNCHANGED <<far, mutexes, retry, mine, outcome, sends, http, conn>>
  BY LineFacts, EmptySeq DEF Status
<1>3. \A q \in Requests : got'[q] = IF q = r THEN conn.wire[1] ELSE got[q]
  BY DEF Status, HttpInv, TypeInv
<1>4. TypeInv'
  BY <1>2 DEF HttpInv, TypeInv, Status, Goto, mutexes, mutex1, mutex2, Places
<1>5. Line1Inv' /\ Line2Inv'
  <2>1. "body" \in AtSocket /\ pc[r] \in AtSocket /\ UNCHANGED mutexes /\ Goto(r, "body")
    BY <1>2 DEF AtSocket, Status
  <2>2. ~Holds1(r)
    BY <1>2 DEF HttpInv, Line1Inv, Holds1
  <2> QED BY <2>1, <2>2, LinesKept
<1>6. SendInv'
  BY <1>1, <1>2 DEF HttpInv, SendInv, Requests
<1>7. WireInv'
  BY <1>1, <1>2 DEF HttpInv, WireInv, OneOrigin
<1>8. MineInv'
  BY <1>1, <1>2 DEF HttpInv, MineInv
<1>9. SentCancelled' <=> SentCancelled
  BY <1>1, <1>2 DEF SentCancelled
<1>10. OrderInv'
  <2>1. conn' = conn /\ http' = http /\ mine' = mine /\ line2' = line2
    BY <1>2 DEF mutexes, mutex1, mutex2
  <2>2. OrderInv /\ (SentCancelled <=> SentCancelled')
    BY <1>9 DEF HttpInv
  <2>3. ASSUME ~SentCancelled, NEW k \in 1..Len(conn.wire)
        PROVE  /\ pc'[conn.wire[k]] \in {"sent", "status", "body"}
               /\ pc'[conn.wire[k]] = "sent" => pc[conn.wire[k]] = "sent"
    <3>1. conn.wire[k] \in Requests
      BY <2>3, LineFacts
    <3>2. pc[conn.wire[k]] \in {"sent", "status", "body"}
      BY ONLY <2>2, <2>3 DEF OrderInv
    <3> QED BY ONLY <1>1, <3>1, <3>2
  <2> QED BY ONLY <2>1, <2>2, <2>3 DEF OrderInv
<1>11. ReaderInv'
  BY <1>1, <1>2, <1>3, <1>9 DEF HttpInv, ReaderInv, Strayed
<1> QED BY <1>4, <1>5, <1>6, <1>7, <1>8, <1>10, <1>11 DEF HttpInv

\* A body is read.
LEMMA BodyStep ==
    ASSUME HttpInv, NEW r \in Requests, Body(r) PROVE HttpInv'
<1>1. \A q \in Requests : pc'[q] = IF q = r THEN "returning" ELSE pc[q]
  BY DEF Body, Answer, Goto, HttpInv, TypeInv
<1>2. /\ pc[r] = "body" /\ UNCHANGED <<far, mutexes, retry, mine, sends, got>>
      /\ \A q \in Requests : outcome'[q] = IF q = r THEN "ok" ELSE outcome[q]
  BY DEF Body, Answer, HttpInv, TypeInv
<1>3. conn.wire # <<>>
  BY <1>2 DEF Body, CutShort, HttpInv, WireInv
<1>4. http.sock
  BY <1>3 DEF HttpInv, WireInv
<1>5. /\ Len(conn.wire) \in Nat \ {0} /\ 1 \in 1..Len(conn.wire)
      /\ conn.wire \in Seq(Requests)
      /\ Len(conn'.wire) = Len(conn.wire) - 1 /\ conn'.wire \in Seq(Requests)
      /\ \A k \in 1..Len(conn'.wire) :
            k + 1 \in 1..Len(conn.wire) /\ conn'.wire[k] = conn.wire[k + 1]
      /\ conn'.closed = conn.closed
      /\ conn' \in Connections
  <2>1. conn.wire \in Seq(Requests)
    BY LineFacts
  <2>2. PICK w : w = Tail(conn.wire)
    OBVIOUS
  <2>3. /\ Len(conn.wire) \in Nat \ {0} /\ 1 \in 1..Len(conn.wire)
        /\ w \in Seq(Requests) /\ Len(w) = Len(conn.wire) - 1
        /\ \A k \in 1..(Len(conn.wire) - 1) : w[k] = conn.wire[k + 1]
    BY <1>3, <2>1, <2>2, TailFacts
  <2>4. /\ conn' \in Connections
        /\ conn'.wire = w /\ conn'.closed = conn.closed
    BY <2>2, <2>3 DEF Body, HttpInv, TypeInv, Connections
  <2> QED BY <2>1, <2>3, <2>4
<1>6. /\ http' \in Sockets
      /\ http'.sock = http.sock /\ http'.gen = http.gen /\ http'.sent = http.sent
      /\ http'.received = http.received + 1 /\ http'.elsewhere = http.elsewhere
      /\ http.sent \in Nat /\ http.received \in Nat /\ http.gen \in Nat
  <2>1. http \in Sockets /\ http' = [http EXCEPT !.received = @ + 1, !.fresh = TRUE]
    BY DEF Body, HttpInv, TypeInv
  <2> QED BY <2>1, ReadSocket, SocketFacts
<1>7. TypeInv'
  <2>1. /\ pc' \in [Requests -> Places]
        /\ outcome' \in [Requests -> {"none", "unsent", "error", "cut", "ok"}]
    BY DEF HttpInv, TypeInv, Body, Answer, Goto, Places
  <2> QED BY <1>2, <1>5, <1>6, <2>1 DEF HttpInv, TypeInv, mutexes, mutex1, mutex2
<1>8. Line1Inv' /\ Line2Inv'
  <2>1. "returning" \in AtSocket /\ pc[r] \in AtSocket /\ UNCHANGED mutexes /\ Goto(r, "returning")
    BY <1>2 DEF AtSocket, Body, Answer
  <2> QED BY <2>1, LinesKept
<1>9. SendInv'
  BY <1>1, <1>2 DEF HttpInv, SendInv, Requests
<1>10. \A q \in Requests : pc[q] \in {"status", "body"} => q = r
  BY <1>2, OneHolder DEF AtSocket
<1>11. WireInv'
  <2>1. OneOrigin'
    <3>1. \A k \in 1..Len(conn.wire) : (conn.wire[k] \in far) = http.elsewhere
      BY DEF HttpInv, WireInv, OneOrigin
    <3>2. far' = far /\ http'.elsewhere = http.elsewhere
      BY <1>2, <1>6
    <3>3. \A k \in 1..Len(conn'.wire) :
              k + 1 \in 1..Len(conn.wire) /\ conn'.wire[k] = conn.wire[k + 1]
      BY <1>5
    <3> QED BY ONLY <3>1, <3>2, <3>3 DEF OneOrigin
  <2>2. http.received + Len(conn.wire) = http'.received + Len(conn'.wire)
    BY <1>5, <1>6
  <2>3. \A k \in 1..Len(conn'.wire) : sends[conn'.wire[k]] > 0
    BY <1>5 DEF HttpInv, WireInv
  <2>4. \A q \in Requests : pc'[q] \notin {"status", "body"}
    BY <1>1, <1>10
  <2> QED BY <1>2, <1>4, <1>5, <1>6, <2>1, <2>2, <2>3, <2>4 DEF HttpInv, WireInv
<1>12. MineInv'
  <2> SUFFICES ASSUME NEW q \in Requests, pc'[q] \in {"sent", "sending"}
               PROVE  /\ mine[q].gen <= http.gen
                      /\ mine[q].gen = http.gen =>
                            /\ mine[q].expect < http.sent
                            /\ \A k \in 1..Len(conn'.wire) :
                                  mine[q].expect + 1 = http'.received + k => conn'.wire[k] = q
    BY <1>2, <1>4, <1>6 DEF MineInv
  <2>1. pc[q] \in {"sent", "sending"} /\ mine[q].expect \in Nat
    BY <1>1 DEF HttpInv, TypeInv
  <2>2. mine[q].gen <= http.gen
    BY <2>1 DEF HttpInv, MineInv
  <2>3. ASSUME mine[q].gen = http.gen
        PROVE  /\ mine[q].expect < http.sent
               /\ \A k \in 1..Len(conn.wire) :
                     mine[q].expect + 1 = http.received + k => conn.wire[k] = q
    BY <1>4, <2>1, <2>3 DEF HttpInv, MineInv
  <2>4. ASSUME mine[q].gen = http.gen, NEW k \in 1..Len(conn'.wire),
               mine[q].expect + 1 = http'.received + k
        PROVE  conn'.wire[k] = q
    <3>1. k + 1 \in 1..Len(conn.wire) /\ conn'.wire[k] = conn.wire[k + 1]
      BY <1>5
    <3>2. mine[q].expect + 1 = http.received + (k + 1)
      <4>1. k \in Nat
        BY <1>5
      <4>2. http'.received = http.received + 1 /\ http.received \in Nat
        BY <1>6 DEF HttpInv, TypeInv, Sockets
      <4>3. mine[q].expect + 1 = http'.received + k /\ mine[q].expect \in Nat
        BY <2>1, <2>4
      <4> QED BY ONLY <4>1, <4>2, <4>3
    <3> QED BY <2>3, <2>4, <3>1, <3>2
  <2> QED BY <2>2, <2>3, <2>4
<1>13. SentCancelled' <=> SentCancelled
  BY <1>1, <1>2 DEF SentCancelled
<1>14. OrderInv'
  <2> SUFFICES ASSUME ~SentCancelled, NEW k \in 1..Len(conn'.wire)
               PROVE  /\ pc'[conn'.wire[k]] \in {"sent", "status", "body"}
                      /\ pc'[conn'.wire[k]] = "sent" =>
                            /\ mine[conn'.wire[k]].gen = http.gen
                            /\ mine[conn'.wire[k]].expect + 1 = http'.received + k
                      /\ \A j \in 1..Len(conn'.wire), a, b \in 1..Len(line2) :
                            /\ j < k
                            /\ line2[a] = conn'.wire[j] /\ line2[b] = conn'.wire[k]
                            => a < b
    BY <1>2, <1>6, <1>13 DEF OrderInv, mutexes, mutex1, mutex2
  <2>1. k + 1 \in 1..Len(conn.wire) /\ conn'.wire[k] = conn.wire[k + 1]
    BY <1>5
  <2>2. conn.wire[1] = r
    BY <1>2, <1>3 DEF HttpInv, ReaderInv, Strayed
  <2>3. line2 # <<>> /\ line2[1] = r /\ 1 \in 1..Len(line2)
    BY <1>2, OneHolder, LineFacts DEF AtSocket
  <2>4. conn.wire[k + 1] # r
    <3>1. 1 < k + 1
      OBVIOUS
    <3> QED BY <1>5, <2>1, <2>2, <2>3, <3>1 DEF HttpInv, OrderInv
  <2>5. /\ pc'[conn.wire[k + 1]] = pc[conn.wire[k + 1]]
        /\ conn.wire[k + 1] \in Requests
    BY <1>1, <2>1, <2>4, LineFacts
  <2>6. /\ pc[conn.wire[k + 1]] \in {"sent", "status", "body"}
        /\ pc[conn.wire[k + 1]] = "sent" =>
              /\ mine[conn.wire[k + 1]].gen = http.gen
              /\ mine[conn.wire[k + 1]].expect + 1 = http.received + (k + 1)
    BY <2>1 DEF HttpInv, OrderInv
  <2>7. ASSUME NEW j \in 1..Len(conn'.wire), NEW a \in 1..Len(line2), NEW b \in 1..Len(line2),
               j < k, line2[a] = conn'.wire[j], line2[b] = conn'.wire[k]
        PROVE  a < b
    <3>1. j + 1 \in 1..Len(conn.wire) /\ conn'.wire[j] = conn.wire[j + 1] /\ j + 1 < k + 1
      BY <1>5, <2>7
    <3> QED BY <2>1, <2>7, <3>1 DEF HttpInv, OrderInv
  <2>8. http.received + (k + 1) = http'.received + k
    BY <1>6
  <2> QED BY <2>1, <2>5, <2>6, <2>7, <2>8
<1>15. ReaderInv'
  BY <1>1, <1>2, <1>10, <1>13 DEF HttpInv, ReaderInv, Strayed
<1> QED BY <1>7, <1>8, <1>9, <1>11, <1>12, <1>14, <1>15 DEF HttpInv

\* The connection stands and the request is sent.
LEMMA ConnectedStep ==
    ASSUME HttpInv, NEW r \in Requests, Connected(r) PROVE HttpInv'
<1>1. \A q \in Requests : pc'[q] = IF q = r THEN "status" ELSE pc[q]
  BY DEF Connected, Goto, HttpInv, TypeInv
<1>2. /\ pc[r] = "connect" /\ UNCHANGED <<far, line2, inside2, due, beside, mine, got, outcome>>
      /\ \A q \in Requests : sends'[q] = IF q = r THEN sends[r] + 1 ELSE sends[q]
      /\ \A q \in Requests : retry'[q] = IF q = r THEN FALSE ELSE retry[q]
      /\ \A q \in Requests : sends[q] \in Nat
  BY DEF Connected, Replaces, mutex2, HttpInv, TypeInv, Places
<1>3. line2 # <<>> /\ line2[1] = r /\ inside2
  BY <1>2, OneHolder DEF AtSocket
<1>4. /\ Len(conn'.wire) = 1 /\ conn'.wire[1] = r /\ conn'.wire # <<>>
      /\ conn'.closed = FALSE /\ conn' \in Connections
  BY DEF Connected, Connections
<1>5. /\ http' \in Sockets /\ http'.sock = TRUE /\ http'.gen = http.gen + 1
      /\ http'.sent = 1 /\ http'.received = 0 /\ http'.elsewhere = (r \in far)
      /\ http.gen \in Nat
  <2>1. http.gen \in Nat /\ http.gen + 1 \in Nat
    BY SocketFacts DEF HttpInv, TypeInv
  <2> QED BY <2>1 DEF Connected, Sockets
<1>6. line1' \in Seq(Requests) /\ inside1' \in BOOLEAN
  <2>1. CASE Holds1(r)
    <3>1. line1 # <<>>
      BY <2>1 DEF Holds1, HttpInv, Line1Inv
    <3> QED BY <2>1, <3>1, TailFacts, LineFacts DEF Connected, Release1, Pass1
  <2>2. CASE ~Holds1(r)
    BY <2>2 DEF Connected, Release1, mutex1, HttpInv, TypeInv
  <2> QED BY <2>1, <2>2
<1>7. TypeInv'
  <2>1. pc' \in [Requests -> Places]
    BY DEF HttpInv, TypeInv, Connected, Goto, Places
  <2>2. sends' \in [Requests -> Nat] /\ retry' \in [Requests -> BOOLEAN]
    BY DEF HttpInv, TypeInv, Connected
  <2> QED BY <1>2, <1>4, <1>5, <1>6, <2>1, <2>2 DEF HttpInv, TypeInv
<1>8. Line1Inv'
  <2>1. CASE Holds1(r)
    <3>1. Pass1
      BY <2>1 DEF Connected, Release1
    <3>2. line1[1] = r /\ line1 # <<>> /\ "status" \in Places \ {"wait1", "wait2"}
      BY <2>1 DEF Holds1, HttpInv, Line1Inv, Places
    <3> QED BY <1>1, <3>1, <3>2, PassLine
  <2>2. CASE ~Holds1(r)
    <3>1. line1' = line1 /\ inside1' = inside1
      BY <2>2 DEF Connected, Release1, mutex1
    <3>2. \A i \in 1..Len(line1) : i > 1 \/ ~inside1 => pc'[line1[i]] = "wait1"
      BY <1>1, <1>2, LineFacts DEF HttpInv, Line1Inv
    <3>3. inside1 => pc'[line1[1]] \in {"wait2", "connect", "returning"}
      BY <1>1, <2>2, LineFacts DEF HttpInv, Line1Inv, Holds1
    <3>4. \A q \in Requests : /\ pc'[q] = "wait1" => pc[q] = "wait1"
                              /\ pc'[q] = "wait2" => pc[q] = "wait2"
      BY <1>1
    <3> QED BY <1>2, <3>1, <3>2, <3>3, <3>4 DEF HttpInv, Line1Inv
  <2> QED BY <2>1, <2>2
<1>9. Line2Inv'
  <2>1. \A i \in 1..Len(line2) : i > 1 \/ ~inside2 => pc'[line2[i]] \in {"sent", "sending", "wait2"}
    BY <1>1, <1>2, LineFacts DEF HttpInv, Line2Inv
  <2>2. \A q \in Requests :
           pc'[q] \in {"wait2", "sent", "sending", "connect", "status", "body", "returning"} =>
              Contains(line2, q)
    BY <1>1, <1>2 DEF HttpInv, Line2Inv
  <2> QED BY <1>1, <1>2, <1>3, <2>1, <2>2 DEF HttpInv, Line2Inv
<1>10. SendInv'
  <2>1. \A q \in Requests : outcome[q] # "none" => pc'[q] \in {"returning", "done"}
    BY <1>1, <1>2 DEF HttpInv, SendInv
  <2>2. \A q \in Posts :
          /\ pc'[q] \notin {"sent", "sending"} /\ sends'[q] <= 1
          /\ pc'[q] \in {"idle", "wait1", "wait2", "connect"} => sends'[q] = 0
          /\ pc'[q] = "status" => ~retry'[q]
          /\ outcome[q] = "unsent" => sends'[q] = 0
    <3> TAKE q \in Posts
    <3>1. q \in Requests /\ sends[q] \in Nat
      BY <1>2 DEF Requests
    <3>2. CASE q = r
      <4>1. sends[q] = 0 /\ outcome[q] = "none"
        BY <1>2, <3>1, <3>2 DEF HttpInv, SendInv
      <4>2. pc'[q] = "status" /\ ~retry'[q]
        BY <1>1, <1>2, <3>1, <3>2, Zenon
      <4>3. sends'[q] = 1
        BY <1>2, <3>1, <3>2, <4>1
      <4> QED BY <4>1, <4>2, <4>3
    <3>3. CASE q # r
      BY <1>1, <1>2, <3>1, <3>3 DEF HttpInv, SendInv
    <3> QED BY <3>2, <3>3
  <2> QED BY <1>2, <2>1, <2>2 DEF SendInv
<1>11. WireInv'
  <2>1. OneOrigin'
    BY <1>2, <1>4, <1>5 DEF OneOrigin
  <2>2. \A k \in 1..Len(conn'.wire) : sends'[conn'.wire[k]] > 0
    BY <1>2, <1>4
  <2> QED BY <1>4, <1>5, <2>1, <2>2 DEF WireInv
<1>12. MineInv'
  <2> SUFFICES ASSUME NEW q \in Requests, pc'[q] \in {"sent", "sending"}
               PROVE  mine[q].gen <= http.gen /\ mine[q].gen \in Nat
    BY <1>2, <1>5 DEF MineInv
  <2>1. pc[q] \in {"sent", "sending"}
    BY <1>1
  <2> QED BY <2>1 DEF HttpInv, MineInv, TypeInv
<1>13. OrderInv'
  BY <1>1, <1>4 DEF OrderInv
<1>14. SentCancelled => SentCancelled'
  BY <1>1, <1>2 DEF SentCancelled
<1>15. ReaderInv'
  <2> SUFFICES ASSUME NEW q \in Requests
               PROVE  /\ pc'[q] \in {"status", "body"} => q = r
                      /\ pc'[q] # "body"
                      /\ outcome[q] = "ok" => q # r /\ (got[q] = q \/ Strayed(q)')
    BY <1>2, <1>4 DEF ReaderInv
  <2>1. pc[q] \in {"status", "body"} => FALSE
    BY <1>2, OneHolder DEF AtSocket
  <2>2. outcome[q] = "ok" => q # r
    BY <1>2 DEF HttpInv, SendInv
  <2> QED BY <1>1, <1>2, <1>14, <2>1, <2>2 DEF HttpInv, ReaderInv, Strayed
<1> QED BY <1>7, <1>8, <1>9, <1>10, <1>11, <1>12, <1>13, <1>15 DEF HttpInv

\* Whoever sent its request takes mut2, the first of the line, and waits for its
\* answer.
LEMMA TakeStep ==
    ASSUME HttpInv, NEW r \in Requests, pc[r] \in {"sent", "sending"},
           line2 # <<>>, r = line2[1], ~inside2,
           line2' = line2, inside2' = TRUE, due' = FALSE, beside' = {},
           TakesUp(r, mine[r], http), mine' = [mine EXCEPT ![r] = Unset],
           UNCHANGED <<far, mutex1, retry, got, outcome, sends, http, conn>>
    PROVE  HttpInv'
<1>2. PICK p \in {"status", "connect"} : p = IF Paired(mine[r], http) THEN "status" ELSE "connect"
  OBVIOUS
<1>3. /\ 1 \in 1..Len(line2)
      /\ UNCHANGED <<far, line1, inside1, line2, retry, got, outcome, sends, http, conn>>
  BY LineFacts DEF mutex1
<1>6. \A q \in Requests : pc[q] \notin AtSocket
  BY OneHolder
<1>4. \A q \in Requests : pc'[q] = IF q = r THEN p ELSE pc[q]
  <2>1. ~Reader
    BY <1>6 DEF Reader, AtSocket
  <2>2. Goto(r, p)
    BY <1>2, <2>1 DEF TakesUp, Read
  <2> QED BY <2>2 DEF Goto, HttpInv, TypeInv
<1>5. \A q \in Requests : mine'[q] = IF q = r THEN Unset ELSE mine[q]
  BY DEF HttpInv, TypeInv
<1>7. http \in Sockets /\ http.sent \in Nat /\ http.received \in Nat /\ http.gen \in Nat
  BY SocketFacts DEF HttpInv, TypeInv
<1>8. mine[r] \in [gen : Nat, expect : Nat]
  BY DEF HttpInv, TypeInv
<1>9. TypeInv'
  <2>1. pc' \in [Requests -> Places] /\ mine' \in [Requests -> [gen : Nat, expect : Nat]]
    <3>1. pc' = [pc EXCEPT ![r] = p]
      BY <1>2, <1>6 DEF TakesUp, Read, Reader, AtSocket, Goto
    <3> QED BY <3>1 DEF HttpInv, TypeInv, Places, Unset
  <2> QED BY <1>3, <2>1 DEF HttpInv, TypeInv
<1>10. Line1Inv'
  <2>1. \A i \in 1..Len(line1) : i > 1 \/ ~inside1 => pc'[line1[i]] = "wait1"
    BY <1>3, <1>4, LineFacts DEF HttpInv, Line1Inv
  <2>2. inside1 => pc'[line1[1]] \in {"wait2", "connect", "returning"}
    BY <1>3, <1>4, LineFacts DEF HttpInv, Line1Inv
  <2>3. \A q \in Requests : /\ pc'[q] = "wait1" => pc[q] = "wait1"
                            /\ pc'[q] = "wait2" => pc[q] = "wait2"
    BY <1>4
  <2> QED BY <1>3, <2>1, <2>2, <2>3 DEF HttpInv, Line1Inv
<1>11. Line2Inv'
  <2>1. ASSUME NEW i \in 1..Len(line2), i > 1 PROVE pc'[line2[i]] \in {"sent", "sending", "wait2"}
    <3>1. Distinct(line2)
      BY DEF HttpInv, Line2Inv
    <3>2. line2[i] # line2[1]
      BY <1>3, <2>1, <3>1 DEF Distinct
    <3>3. line2[i] \in Requests /\ line2[i] # r
      BY <3>2, LineFacts
    <3>4. pc[line2[i]] \in {"sent", "sending", "wait2"}
      BY <2>1 DEF HttpInv, Line2Inv
    <3> QED BY <1>4, <3>3, <3>4
  <2>2. \A q \in Requests :
           pc'[q] \in {"wait2", "sent", "sending", "connect", "status", "body", "returning"} =>
              Contains(line2, q)
    BY <1>3, <1>4 DEF HttpInv, Line2Inv
  <2>3. pc'[line2[1]] \in {"connect", "status", "body", "returning"}
    BY <1>3, <1>4
  <2> QED BY <1>3, <2>1, <2>2, <2>3 DEF HttpInv, Line2Inv
<1>12. SendInv'
  BY <1>3, <1>4 DEF HttpInv, SendInv, Requests
<1>13. p = "status" =>
          /\ http.sock /\ mine[r].gen = http.gen /\ mine[r].expect = http.received
          /\ http.received < http.sent
          /\ \A k \in 1..Len(conn.wire) : k = 1 => conn.wire[k] = r
  <2>1. p = "status" =>
           http.sock /\ mine[r].gen = http.gen /\ mine[r].expect = http.received
    BY <1>2 DEF Paired
  <2>2. http.sock /\ mine[r].gen = http.gen =>
           /\ mine[r].expect < http.sent
           /\ \A k \in 1..Len(conn.wire) :
                 mine[r].expect + 1 = http.received + k => conn.wire[k] = r
    BY <1>3 DEF HttpInv, MineInv
  <2> QED BY <2>1, <2>2
<1>14. WireInv'
  <2>1. p = "status" => conn.wire # <<>> \/ conn.closed
    <3>1. ~conn.closed => http.received + Len(conn.wire) = http.sent
      BY DEF HttpInv, WireInv
    <3>2. conn.wire = <<>> => Len(conn.wire) = 0
      BY EmptySeq
    <3> QED BY <1>7, <1>13, <3>1, <3>2
  <2>2. \A q \in Requests : pc'[q] \in {"status", "body"} => q = r /\ p = "status"
    BY <1>2, <1>4, <1>6 DEF AtSocket
  <2> QED BY <1>3, <2>1, <2>2 DEF HttpInv, WireInv, OneOrigin
<1>15. MineInv'
  BY <1>3, <1>4, <1>5 DEF HttpInv, MineInv
<1>16. SentCancelled' <=> SentCancelled
  BY <1>3, <1>4 DEF SentCancelled
<1>17. OrderInv'
  <2> SUFFICES ASSUME ~SentCancelled, NEW k \in 1..Len(conn.wire)
               PROVE  /\ pc'[conn.wire[k]] \in {"sent", "status", "body"}
                      /\ pc'[conn.wire[k]] = "sent" =>
                            /\ mine'[conn.wire[k]].gen = http.gen
                            /\ mine'[conn.wire[k]].expect + 1 = http.received + k
    BY <1>3, <1>16 DEF HttpInv, OrderInv
  <2>1. /\ pc[conn.wire[k]] \in {"sent", "status", "body"}
        /\ pc[conn.wire[k]] = "sent" =>
              /\ mine[conn.wire[k]].gen = http.gen
              /\ mine[conn.wire[k]].expect + 1 = http.received + k
        /\ conn.wire[k] \in Requests
    BY LineFacts DEF HttpInv, OrderInv
  <2>2. CASE conn.wire[k] = r
    <3>1. k = 1
      <4>1. SUFFICES ASSUME k # 1 PROVE FALSE
        OBVIOUS
      <4>2. 1 \in 1..Len(conn.wire) /\ 1 < k
        BY <4>1, LineFacts
      <4>3. PICK a \in 1..Len(line2) : line2[a] = conn.wire[1]
        BY <4>2, WireInLine DEF Contains
      <4>4. a < 1
        BY <1>3, <2>2, <4>2, <4>3 DEF HttpInv, OrderInv
      <4> QED BY <4>4
    <3>2. mine[r].gen = http.gen /\ mine[r].expect = http.received
      BY <1>3, <1>7, <1>8, <2>1, <2>2, <3>1
    <3>3. conn.wire # <<>>
      BY <3>1
    <3>4. http.sock
      BY <3>3 DEF HttpInv, WireInv
    <3>5. p = "status"
      BY <1>2, <3>2, <3>4 DEF Paired
    <3> QED BY <1>3, <1>4, <2>2, <3>5
  <2>3. CASE conn.wire[k] # r
    BY <1>4, <1>5, <2>1, <2>3
  <2> QED BY <2>2, <2>3
<1>18. ReaderInv'
  <2> SUFFICES ASSUME NEW q \in Requests
               PROVE  /\ pc'[q] \in {"status", "body"} /\ conn.wire # <<>> => conn.wire[1] = q
                      /\ pc'[q] # "body"
                      /\ outcome[q] = "ok" => got[q] = q \/ Strayed(q)
    BY <1>3, <1>16 DEF ReaderInv, Strayed
  <2>1. conn.wire # <<>> => 1 \in 1..Len(conn.wire)
    BY LineFacts
  <2> QED BY <1>2, <1>4, <1>6, <1>13, <2>1 DEF HttpInv, ReaderInv, AtSocket
<1> QED BY <1>9, <1>10, <1>11, <1>12, <1>14, <1>15, <1>17, <1>18 DEF HttpInv

\* It is let in by the hand-off,
LEMMA Enter2SentStep ==
    ASSUME HttpInv, NEW r \in Requests, Enter2Sent(r) PROVE HttpInv'
<1>1. /\ line2 # <<>> /\ r = line2[1] /\ ~inside2 /\ pc[r] = "sent"
      /\ line2' = line2 /\ inside2' = TRUE /\ due' = FALSE /\ beside' = {}
  BY DEF Enter2Sent, Enter2, Due2, Pending, HttpInv, Line2Inv
<1> QED BY <1>1, TakeStep DEF Enter2Sent

\* or takes mut2 itself after a send that failed, or waits for it.
LEMMA SendingStep ==
    ASSUME HttpInv, ~barged', NEW r \in Requests, Sending(r) PROVE HttpInv'
<1>1. pc[r] = "sending" /\ Contains(line2, r)
  BY DEF Sending, HttpInv, Line2Inv
<1>2. UNCHANGED <<far, mutex1, retry, got, outcome, sends, http, conn>>
  BY DEF Sending
<1>3. CASE inside2
  <2>1. /\ \A q \in Requests : pc'[q] = IF q = r THEN "sent" ELSE pc[q]
        /\ pc' \in [Requests -> Places]
    BY <1>3 DEF Sending, Goto, HttpInv, TypeInv, Places
  <2>2. UNCHANGED <<line1, inside1, line2, inside2, due, beside, mine>>
    BY <1>2, <1>3 DEF Sending, mutex1, mutex2
  <2>3. TypeInv'
    BY <1>2, <2>1, <2>2 DEF HttpInv, TypeInv
  <2>4. Line1Inv'
    <3>1. /\ \A q \in Requests : (pc'[q] = "wait1" <=> pc[q] = "wait1") /\ (pc'[q] = "wait2" <=> pc[q] = "wait2")
          /\ \A q \in Requests : pc'[q] \in {"wait2", "connect", "returning"}
                                    <=> pc[q] \in {"wait2", "connect", "returning"}
      BY <1>1, <2>1
    <3> QED BY <2>2, <3>1, LineFacts DEF HttpInv, Line1Inv
  <2>5. Line2Inv'
    <3>1. /\ \A q \in Requests : pc'[q] \in {"sent", "sending", "wait2"} <=> pc[q] \in {"sent", "sending", "wait2"}
          /\ \A q \in Requests : pc'[q] \in {"connect", "status", "body", "returning"}
                                    <=> pc[q] \in {"connect", "status", "body", "returning"}
          /\ \A q \in Requests :
                pc'[q] \in {"wait2", "sent", "sending", "connect", "status", "body", "returning"}
                <=> pc[q] \in {"wait2", "sent", "sending", "connect", "status", "body", "returning"}
      BY <1>1, <2>1
    <3> QED BY <2>2, <3>1, LineFacts DEF HttpInv, Line2Inv
  <2>6. SendInv'
    BY <1>1, <1>2, <2>1 DEF HttpInv, SendInv, Requests
  <2>7. WireInv' /\ MineInv'
    BY <1>1, <1>2, <2>1, <2>2 DEF HttpInv, WireInv, OneOrigin, MineInv
  <2>8. SentCancelled' <=> SentCancelled
    BY <1>1, <1>2, <2>1 DEF SentCancelled
  <2>9. OrderInv'
    <3> SUFFICES ASSUME ~SentCancelled, NEW k \in 1..Len(conn.wire)
                 PROVE  pc'[conn.wire[k]] = pc[conn.wire[k]]
      BY <1>2, <2>2, <2>8 DEF HttpInv, OrderInv
    <3> QED BY <1>1, <2>1, LineFacts DEF HttpInv, OrderInv
  <2>10. ReaderInv'
    BY <1>1, <1>2, <2>1, <2>8 DEF HttpInv, ReaderInv, Strayed
  <2> QED BY <2>3, <2>4, <2>5, <2>6, <2>7, <2>9, <2>10 DEF HttpInv
<1>4. CASE ~inside2
  <2>1. ~(Len(line2) > 1) /\ Len(line2) \in Nat /\ line2 \in Seq(Requests)
    BY <1>4, LineFacts DEF Sending
  <2>2. PICK i \in 1..Len(line2) : line2[i] = r
    BY <1>1 DEF Contains
  <2>3. Len(line2) = 1 /\ line2[1] = r /\ line2 # <<>>
    BY <2>1, <2>2, OnlyPlace
  <2>4. line2 = <<r>>
    BY <2>1, <2>3
  <2>5. Without(line2, r) = <<>>
    <3>1. Distinct(line2)
      BY DEF HttpInv, Line2Inv
    <3>2. Without(line2, r) \in Seq(Requests) /\ Len(Without(line2, r)) = Len(line2) - 1
      BY <1>1, <2>1, <3>1, WithoutFacts
    <3> QED BY <2>3, <3>2, EmptySeq
  <2>6. line2' = line2
    BY <1>4, <2>4, <2>5 DEF Sending
  <2>7. \A q \in Requests : pc[q] \notin {"sent", "wait2"}
    <3> SUFFICES ASSUME NEW q \in Requests, pc[q] \in {"sent", "wait2"} PROVE FALSE
      OBVIOUS
    <3>1. PICK j \in 1..Len(line2) : line2[j] = q
      BY DEF HttpInv, Line2Inv, Contains
    <3> QED BY <1>1, <2>3, <3>1
  <2>8. inside2' = TRUE /\ due' = FALSE /\ beside' = {}
    BY <1>4, <2>7 DEF Sending, Waits2, HttpInv, Line2Inv
  <2>9. TakesUp(r, mine[r], http) /\ mine' = [mine EXCEPT ![r] = Unset]
    BY <1>4 DEF Sending
  <2> QED BY <1>1, <1>2, <1>4, <2>3, <2>6, <2>8, <2>9, TakeStep
<1> QED BY <1>3, <1>4

\* As long as the_lock names the only holder of mut2, who leaves the second line
\* lets it go if it is the holder.
LEMMA LeaveFacts ==
    ASSUME HttpInv, NEW r, Leave2(r)
    PROVE  /\ line2' = Without(line2, r)
           /\ inside2' = (inside2 /\ line2[1] # r)
           /\ due' = FALSE /\ beside' = {}
BY DEF Leave2, HttpInv, Line2Inv

\* A request leaves the second line.
LEMMA UnlockStep ==
    ASSUME HttpInv, NEW r \in Requests, Unlock(r) PROVE HttpInv'
<1>1. \A q \in Requests : pc'[q] = IF q = r THEN "done" ELSE pc[q]
  BY DEF Unlock, Goto, HttpInv, TypeInv
<1>3. line2 # <<>> /\ line2[1] = r /\ inside2
  BY OneHolder DEF Unlock, AtSocket
<1>2. /\ pc[r] = "returning" /\ inside2' = FALSE
      /\ due' = FALSE /\ beside' = {}
      /\ UNCHANGED <<far, retry, mine, got, outcome, sends, http, conn>>
      /\ line2' = Without(line2, r) /\ Release1(r)
  BY <1>3, LeaveFacts DEF Unlock, locals
<1>4. /\ line2' \in Seq(Requests) /\ Len(line2') \in Nat
      /\ Distinct(line2')
      /\ \A i \in 1..Len(line2') : i + 1 \in 1..Len(line2) /\ line2'[i] = line2[i + 1]
      /\ \A i \in 1..Len(line2') : line2'[i] # r
      /\ \A q \in Requests : q # r /\ Contains(line2, q) => Contains(line2', q)
      /\ \A a, b \in 1..Len(line2'), i, j \in 1..Len(line2) :
            line2'[a] = line2[i] /\ line2'[b] = line2[j] /\ i < j => a < b
      /\ line2[Len(line2)] # r => line2' # <<>> /\ line2'[Len(line2')] = line2[Len(line2)]
  <2>1. line2 \in Seq(Requests) /\ Distinct(line2)
    BY LineFacts DEF HttpInv, Line2Inv
  <2>2. Leaves(line2, r, line2')
    BY <1>2, <2>1 DEF Leaves
  <2>3. IsLeft(line2, r, line2')
    BY ONLY <2>2, LeaveLine
  <2> QED BY <1>2, <1>3, <2>3 DEF IsLeft
<1>5. Line1Inv' /\ line1' \in Seq(Requests) /\ inside1' \in BOOLEAN
  <2>1. CASE Holds1(r)
    <3>1. Pass1
      BY <1>2, <2>1 DEF Release1
    <3>2. line1[1] = r /\ line1 # <<>> /\ "done" \in Places \ {"wait1", "wait2"}
      BY <2>1 DEF Holds1, HttpInv, Line1Inv, Places
    <3> QED BY <1>1, <3>1, <3>2, PassLine
  <2>2. CASE ~Holds1(r)
    <3>1. line1' = line1 /\ inside1' = inside1
      BY <1>2, <2>2 DEF Release1, mutex1
    <3>2. \A i \in 1..Len(line1) : i > 1 \/ ~inside1 => pc'[line1[i]] = "wait1"
      BY <1>1, <1>2, LineFacts DEF HttpInv, Line1Inv
    <3>3. inside1 => /\ pc'[line1[1]] \in {"wait2", "connect", "returning"}
                     /\ line2' # <<>> /\ line1[1] = line2'[Len(line2')]
      BY <1>1, <1>4, <2>2, LineFacts DEF HttpInv, Line1Inv, Holds1
    <3>4. \A q \in Requests : /\ pc'[q] = "wait1" => pc[q] = "wait1"
                              /\ pc'[q] = "wait2" => pc[q] = "wait2"
      BY <1>1
    <3> QED BY <3>1, <3>2, <3>3, <3>4 DEF HttpInv, Line1Inv, TypeInv
  <2> QED BY <2>1, <2>2
<1>6. Line2Inv'
  <2>1. ASSUME NEW i \in 1..Len(line2') PROVE pc'[line2'[i]] \in {"sent", "sending", "wait2"}
    <3>1. /\ i + 1 \in 1..Len(line2) /\ i + 1 > 1 /\ line2'[i] = line2[i + 1]
          /\ line2'[i] # r /\ line2'[i] \in Requests
      BY <1>4
    <3> QED BY <1>1, <3>1 DEF HttpInv, Line2Inv
  <2>2. \A q \in Requests :
           pc'[q] \in {"wait2", "sent", "sending", "connect", "status", "body", "returning"} =>
              Contains(line2', q)
    BY <1>1, <1>4 DEF HttpInv, Line2Inv
  <2> QED BY <1>2, <1>4, <2>1, <2>2 DEF Line2Inv
<1>7. TypeInv'
  <2>1. pc' \in [Requests -> Places]
    BY DEF HttpInv, TypeInv, Unlock, Goto, Places
  <2> QED BY <1>2, <1>4, <1>5, <2>1 DEF HttpInv, TypeInv
<1>8. SendInv'
  BY <1>1, <1>2 DEF HttpInv, SendInv, Requests
<1>9. WireInv'
  BY <1>1, <1>2 DEF HttpInv, WireInv, OneOrigin
<1>10. MineInv'
  BY <1>1, <1>2 DEF HttpInv, MineInv
<1>11. SentCancelled' <=> SentCancelled
  BY <1>1, <1>2 DEF SentCancelled
<1>12. OrderInv'
  <2> SUFFICES ASSUME ~SentCancelled, NEW k \in 1..Len(conn.wire)
               PROVE  /\ pc'[conn.wire[k]] = pc[conn.wire[k]]
                      /\ \A j \in 1..Len(conn.wire), a, b \in 1..Len(line2') :
                            /\ j < k
                            /\ line2'[a] = conn.wire[j] /\ line2'[b] = conn.wire[k]
                            => a < b
    <3>1. OrderInv /\ (SentCancelled' <=> SentCancelled)
      BY <1>11 DEF HttpInv
    <3>2. conn' = conn /\ http' = http /\ mine' = mine
      BY <1>2
    <3> QED BY <3>1, <3>2 DEF OrderInv
  <2>1. pc'[conn.wire[k]] = pc[conn.wire[k]]
    BY <1>1, <1>2, LineFacts DEF HttpInv, OrderInv
  <2>2. ASSUME NEW j \in 1..Len(conn.wire), NEW a \in 1..Len(line2'), NEW b \in 1..Len(line2'),
               j < k, line2'[a] = conn.wire[j], line2'[b] = conn.wire[k]
        PROVE  a < b
    <3>1. /\ a + 1 \in 1..Len(line2) /\ line2[a + 1] = conn.wire[j]
          /\ b + 1 \in 1..Len(line2) /\ line2[b + 1] = conn.wire[k]
      BY <1>4, <2>2
    <3>2. a + 1 < b + 1
      BY <2>2, <3>1 DEF HttpInv, OrderInv
    <3> QED BY <3>2
  <2> QED BY <2>1, <2>2
<1>13. ReaderInv'
  BY <1>1, <1>2, <1>11 DEF HttpInv, ReaderInv, Strayed
<1> QED BY <1>5, <1>6, <1>7, <1>8, <1>9, <1>10, <1>12, <1>13 DEF HttpInv

\* A coroutine is destroyed wherever it is.
LEMMA CancelStep ==
    ASSUME HttpInv, NEW r \in Requests, Cancel(r) PROVE HttpInv'
<1>1. \A q \in Requests : pc'[q] = IF q = r THEN "cancelled" ELSE pc[q]
  BY DEF Cancel, Goto, HttpInv, TypeInv
<1>2. /\ pc[r] \notin {"idle", "returning", "done", "cancelled"}
      /\ UNCHANGED <<far, outcome, sends, http>>
      /\ line1' = Without(line1, r) /\ line2' = Without(line2, r)
      /\ inside1' = (inside1 /\ line1[1] # r)
      /\ inside2' = (inside2 /\ line2[1] # r)
      /\ due' = FALSE /\ beside' = {}
  BY LeaveFacts DEF Cancel
<1>3. /\ \A q \in Requests : mine'[q] = IF q = r THEN Unset ELSE mine[q]
      /\ \A q \in Requests : retry'[q] = IF q = r THEN TRUE ELSE retry[q]
      /\ \A q \in Requests : got'[q] = IF q = r THEN None ELSE got[q]
  BY DEF Cancel, HttpInv, TypeInv
<1>4. conn' \in Connections /\ conn'.wire = conn.wire /\ conn'.closed = conn.closed
  <2>1. PICK t \in BOOLEAN : t = (conn.torn \/ pc[r] = "body")
    OBVIOUS
  <2>2. conn' = [conn EXCEPT !.torn = t]
    BY <2>1, Zenon DEF Cancel
  <2> QED BY <2>2 DEF HttpInv, TypeInv, Connections
<1>5. /\ line1' \in Seq(Requests) /\ Len(line1') \in Nat
      /\ Distinct(line1')
      /\ \A i \in 1..Len(line1') : line1'[i] # r
      /\ \A i \in 1..Len(line1') : \E k \in 1..Len(line1) : line1'[i] = line1[k] /\ i <= k
      /\ \A q : q # r /\ Contains(line1, q) => Contains(line1', q)
      /\ line1 # <<>> /\ line1[1] # r => line1' # <<>> /\ line1'[1] = line1[1]
      /\ line1 # <<>> /\ line1[1] = r =>
            \A i \in 1..Len(line1') : i + 1 \in 1..Len(line1) /\ line1'[i] = line1[i + 1]
  <2>1. line1 \in Seq(Requests) /\ Distinct(line1)
    BY LineFacts DEF HttpInv, Line1Inv
  <2>2. Leaves(line1, r, line1')
    BY <1>2, <2>1 DEF Leaves
  <2>3. IsLeft(line1, r, line1')
    BY ONLY <2>2, LeaveLine
  <2> QED BY ONLY <2>3 DEF IsLeft
<1>6. /\ line2' \in Seq(Requests) /\ Len(line2') \in Nat
      /\ Distinct(line2')
      /\ \A i \in 1..Len(line2') : line2'[i] # r
      /\ \A i \in 1..Len(line2') : \E k \in 1..Len(line2) : line2'[i] = line2[k] /\ i <= k
      /\ \A q : q # r /\ Contains(line2, q) => Contains(line2', q)
      /\ \A a, b \in 1..Len(line2'), i, j \in 1..Len(line2) :
            line2'[a] = line2[i] /\ line2'[b] = line2[j] /\ i < j => a < b
      /\ line2 # <<>> /\ line2[1] # r => line2' # <<>> /\ line2'[1] = line2[1]
      /\ line2 # <<>> /\ line2[Len(line2)] # r =>
            line2' # <<>> /\ line2'[Len(line2')] = line2[Len(line2)]
      /\ line2 # <<>> /\ line2[1] = r =>
            \A i \in 1..Len(line2') : i + 1 \in 1..Len(line2) /\ line2'[i] = line2[i + 1]
  <2>1. line2 \in Seq(Requests) /\ Distinct(line2)
    BY LineFacts DEF HttpInv, Line2Inv
  <2>2. Leaves(line2, r, line2')
    BY <1>2, <2>1 DEF Leaves
  <2>3. IsLeft(line2, r, line2')
    BY ONLY <2>2, LeaveLine
  <2> QED BY ONLY <2>3 DEF IsLeft
<1>7. /\ inside1' \in BOOLEAN /\ inside2' \in BOOLEAN
      /\ inside1' <=> inside1 /\ line1[1] # r
      /\ inside2' <=> inside2 /\ line2[1] # r
  BY <1>2, Zenon
<1>8. TypeInv'
  <2>1. /\ pc' \in [Requests -> Places] /\ mine' \in [Requests -> [gen : Nat, expect : Nat]]
        /\ retry' \in [Requests -> BOOLEAN] /\ got' \in [Requests -> Requests \cup {None}]
    BY DEF HttpInv, TypeInv, Cancel, Goto, Places, Unset
  <2> QED BY <1>2, <1>4, <1>5, <1>6, <1>7, <2>1 DEF HttpInv, TypeInv
<1>9. Line1Inv'
  <2>1. ASSUME NEW i \in 1..Len(line1'), i > 1 \/ ~inside1' PROVE pc'[line1'[i]] = "wait1"
    <3>1. line1'[i] # r /\ line1 # <<>> /\ i \in Nat /\ i >= 1
      BY <1>5
    <3>2. \E k \in 1..Len(line1) : line1'[i] = line1[k] /\ (k > 1 \/ ~inside1)
      <4>1. CASE ~inside1
        BY <1>5, <4>1
      <4>2. CASE line1[1] = r
        <5>1. i + 1 \in 1..Len(line1) /\ line1'[i] = line1[i + 1] /\ i + 1 > 1
          BY <1>5, <3>1, <4>2
        <5> QED BY <5>1
      <4>3. CASE i > 1
        BY <1>5, <4>3, LineFacts
      <4> QED BY <1>7, <2>1, <4>1, <4>2, <4>3
    <3>3. pc[line1'[i]] = "wait1" /\ line1'[i] \in Requests
      BY <3>2, LineFacts DEF HttpInv, Line1Inv
    <3> QED BY <1>1, <3>1, <3>3
  <2>2. \A q \in Requests : pc'[q] = "wait1" => Contains(line1', q)
    BY <1>1, <1>5 DEF HttpInv, Line1Inv
  <2>3. ASSUME inside1'
        PROVE  /\ line1' # <<>> /\ line2' # <<>> /\ line1'[1] = line2'[Len(line2')]
               /\ pc'[line1'[1]] \in {"wait2", "connect", "returning"}
    <3>1. inside1 /\ line1[1] # r
      BY <1>7, <2>3
    <3>2. /\ line1 # <<>> /\ line2 # <<>> /\ line1[1] = line2[Len(line2)]
          /\ pc[line1[1]] \in {"wait2", "connect", "returning"}
          /\ line1[1] \in Requests
      BY <3>1, LineFacts DEF HttpInv, Line1Inv
    <3> QED BY <1>1, <1>5, <1>6, <3>1, <3>2
  <2>4. ASSUME NEW q \in Requests, pc'[q] = "wait2" PROVE inside1' /\ line1'[1] = q
    <3>1. q # r /\ inside1 /\ line1[1] = q /\ line1 # <<>>
      BY <1>1, <2>4 DEF HttpInv, Line1Inv
    <3> QED BY <1>5, <1>7, <3>1
  <2> QED BY <1>5, <2>1, <2>2, <2>3, <2>4 DEF Line1Inv
<1>10. Line2Inv'
  <2>1. ASSUME NEW i \in 1..Len(line2'), i > 1 \/ ~inside2'
        PROVE  pc'[line2'[i]] \in {"sent", "sending", "wait2"}
    <3>1. line2'[i] # r /\ line2 # <<>> /\ i \in Nat /\ i >= 1
      BY <1>6
    <3>2. \E k \in 1..Len(line2) : line2'[i] = line2[k] /\ (k > 1 \/ ~inside2)
      <4>1. CASE ~inside2
        BY <1>6, <4>1
      <4>2. CASE line2[1] = r
        <5>1. i + 1 \in 1..Len(line2) /\ line2'[i] = line2[i + 1] /\ i + 1 > 1
          BY <1>6, <3>1, <4>2
        <5> QED BY <5>1
      <4>3. CASE i > 1
        BY <1>6, <4>3, LineFacts
      <4> QED BY <1>7, <2>1, <4>1, <4>2, <4>3
    <3>3. pc[line2'[i]] \in {"sent", "sending", "wait2"} /\ line2'[i] \in Requests
      BY <3>2, LineFacts DEF HttpInv, Line2Inv
    <3> QED BY <1>1, <3>1, <3>3
  <2>2. \A q \in Requests :
           pc'[q] \in {"wait2", "sent", "sending", "connect", "status", "body", "returning"} =>
              Contains(line2', q)
    BY <1>1, <1>6 DEF HttpInv, Line2Inv
  <2>3. ASSUME inside2'
        PROVE  /\ line2' # <<>>
               /\ pc'[line2'[1]] \in {"connect", "status", "body", "returning"}
    <3>1. inside2 /\ line2[1] # r
      BY <1>7, <2>3
    <3>2. /\ line2 # <<>> /\ line2[1] \in Requests
          /\ pc[line2[1]] \in {"connect", "status", "body", "returning"}
      BY <3>1, LineFacts DEF HttpInv, Line2Inv
    <3> QED BY <1>1, <1>6, <3>1, <3>2
  <2> QED BY <1>2, <1>6, <2>1, <2>2, <2>3 DEF Line2Inv
<1>11. outcome[r] = "none"
  BY <1>2 DEF HttpInv, SendInv
<1>12. SendInv'
  BY <1>1, <1>2, <1>3, <1>11 DEF HttpInv, SendInv, Requests
<1>13. WireInv'
  BY <1>1, <1>2, <1>4 DEF HttpInv, WireInv, OneOrigin
<1>14. MineInv'
  BY <1>1, <1>2, <1>3, <1>4 DEF HttpInv, MineInv
<1>15. SentCancelled => SentCancelled'
  BY <1>1, <1>2 DEF SentCancelled
<1>16. OrderInv'
  <2>0. conn'.wire = conn.wire /\ http' = http
    BY <1>2, <1>4
  <2> SUFFICES ASSUME ~SentCancelled', NEW k \in 1..Len(conn.wire)
               PROVE  /\ pc'[conn.wire[k]] \in {"sent", "status", "body"}
                      /\ pc'[conn.wire[k]] = "sent" =>
                            /\ mine'[conn.wire[k]].gen = http.gen
                            /\ mine'[conn.wire[k]].expect + 1 = http.received + k
                      /\ \A j \in 1..Len(conn.wire), a, b \in 1..Len(line2') :
                            /\ j < k
                            /\ line2'[a] = conn.wire[j] /\ line2'[b] = conn.wire[k]
                            => a < b
    BY <2>0 DEF OrderInv
  <2>1. conn.wire[k] # r /\ conn.wire[k] \in Requests
    <3>1. ~(sends[r] > 0)
      BY <1>1, <1>2 DEF SentCancelled
    <3> QED BY <3>1, LineFacts DEF HttpInv, WireInv
  <2>2. ~SentCancelled
    BY <1>15
  <2>3. ASSUME NEW j \in 1..Len(conn.wire), NEW a \in 1..Len(line2'), NEW b \in 1..Len(line2'),
               j < k, line2'[a] = conn.wire[j], line2'[b] = conn.wire[k]
        PROVE  a < b
    <3>1. PICK i \in 1..Len(line2) : line2'[a] = line2[i]
      BY <1>6
    <3>2. PICK m \in 1..Len(line2) : line2'[b] = line2[m]
      BY <1>6
    <3>3. i < m
      BY <2>2, <2>3, <3>1, <3>2 DEF HttpInv, OrderInv
    <3> QED BY <1>6, <3>1, <3>2, <3>3
  <2>4. pc'[conn.wire[k]] = pc[conn.wire[k]] /\ mine'[conn.wire[k]] = mine[conn.wire[k]]
    BY <1>1, <1>3, <2>1
  <2> QED BY <2>2, <2>3, <2>4 DEF HttpInv, OrderInv
<1>17. ReaderInv'
  BY <1>1, <1>2, <1>3, <1>4, <1>11, <1>15 DEF HttpInv, ReaderInv, Strayed
<1> QED BY <1>8, <1>9, <1>10, <1>12, <1>13, <1>14, <1>16, <1>17 DEF HttpInv

\* The connection is too old.
LEMMA KeepaliveStep ==
    ASSUME HttpInv, KeepaliveEnds PROVE HttpInv'
<1>1. UNCHANGED <<mutexes, pc, locals, conn>>
  BY DEF KeepaliveEnds
<1>2. /\ http' \in Sockets /\ http'.sock = http.sock /\ http'.elsewhere = http.elsewhere
      /\ http'.gen = http.gen /\ http'.sent = http.sent /\ http'.received = http.received
  BY DEF KeepaliveEnds, HttpInv, TypeInv, Sockets
<1>3. SentCancelled' <=> SentCancelled
  BY <1>1 DEF SentCancelled, locals
<1>4. TypeInv' /\ Line1Inv' /\ Line2Inv' /\ SendInv'
  BY <1>1, <1>2 DEF mutexes, mutex1, mutex2, locals, HttpInv, TypeInv, Line1Inv, Line2Inv, SendInv, Distinct, Contains
<1>5. WireInv' /\ MineInv'
  BY <1>1, <1>2 DEF mutexes, mutex1, mutex2, locals, HttpInv, WireInv, OneOrigin, MineInv
<1>6. OrderInv' /\ ReaderInv'
  BY <1>1, <1>2, <1>3 DEF mutexes, mutex1, mutex2, locals, HttpInv, OrderInv, ReaderInv, Strayed
<1> QED BY <1>4, <1>5, <1>6 DEF HttpInv

\* The server closes it.
LEMMA ClosesStep ==
    ASSUME HttpInv, ServerCloses PROVE HttpInv'
<1>1. UNCHANGED <<mutexes, pc, locals, http>>
  BY DEF ServerCloses
<1>2. /\ conn' \in Connections /\ conn'.closed = TRUE
      /\ Len(conn'.wire) \in Nat /\ Len(conn'.wire) <= Len(conn.wire)
      /\ \A k \in 1..Len(conn'.wire) : k \in 1..Len(conn.wire) /\ conn'.wire[k] = conn.wire[k]
  <2>1. PICK k \in 0..Len(conn.wire), cut \in BOOLEAN :
           conn' = [conn EXCEPT !.closed = TRUE, !.cut = cut, !.wire = SubSeq(@, 1, k)]
    BY DEF ServerCloses
  <2>2. PICK w : w = SubSeq(conn.wire, 1, k)
    OBVIOUS
  <2>3. /\ w \in Seq(Requests) /\ Len(w) = k
        /\ \A i \in 1..k : w[i] = conn.wire[i] /\ i \in 1..Len(conn.wire)
    BY <2>2, LineFacts, SubSeqProperties
  <2>4. conn' = [conn EXCEPT !.closed = TRUE, !.cut = cut, !.wire = w]
    BY <2>1, <2>2, Zenon
  <2>5. conn' \in Connections /\ conn'.closed = TRUE /\ conn'.wire = w
    BY <2>3, <2>4 DEF HttpInv, TypeInv, Connections
  <2> QED BY <2>3, <2>5, LineFacts
<1>3. SentCancelled' <=> SentCancelled
  BY <1>1 DEF SentCancelled, locals
<1>4. conn'.wire # <<>> => 1 \in 1..Len(conn'.wire) /\ conn.wire # <<>>
  BY <1>2, LineFacts DEF Connections
<1>5. TypeInv' /\ Line1Inv' /\ Line2Inv' /\ SendInv'
  BY <1>1, <1>2 DEF mutexes, mutex1, mutex2, locals, HttpInv, TypeInv, Line1Inv, Line2Inv, SendInv, Distinct, Contains
<1>6. WireInv'
  <2>1. OneOrigin'
    BY <1>1, <1>2 DEF HttpInv, WireInv, OneOrigin, locals
  <2>2. \A k \in 1..Len(conn'.wire) : sends[conn'.wire[k]] > 0
    BY <1>2 DEF HttpInv, WireInv
  <2>3. http.sock => http.received + Len(conn'.wire) <= http.sent
    <3>1. http.received \in Nat /\ http.sent \in Nat
      BY SocketFacts DEF HttpInv, TypeInv
    <3>2. http.sock => http.received + Len(conn.wire) <= http.sent
      BY DEF HttpInv, WireInv
    <3> QED BY <1>2, <3>1, <3>2, LineFacts
  <2>4. ~http.sock => conn'.wire = <<>>
    BY <1>4 DEF HttpInv, WireInv
  <2> QED BY <1>1, <1>2, <2>1, <2>2, <2>3, <2>4 DEF WireInv, locals
<1>7. MineInv'
  BY <1>1, <1>2 DEF locals, HttpInv, MineInv
<1>8. OrderInv'
  BY <1>1, <1>2, <1>3 DEF mutexes, mutex1, mutex2, locals, HttpInv, OrderInv
<1>9. ReaderInv'
  BY <1>1, <1>2, <1>3, <1>4 DEF locals, HttpInv, ReaderInv, Strayed
<1> QED BY <1>5, <1>6, <1>7, <1>8, <1>9 DEF HttpInv

\* What is sent reaches a server that has not closed the connection.
LEMMA SentFacts ==
    ASSUME NEW c \in Connections, NEW r \in Requests, NEW d, d = Sent(c, r)
    PROVE  /\ d \in Connections /\ d.closed = c.closed
           /\ c.closed => d.wire = c.wire
           /\ Len(c.wire) \in Nat
           /\ ~c.closed => /\ Len(d.wire) = Len(c.wire) + 1 /\ d.wire # <<>>
                           /\ d.wire[Len(c.wire) + 1] = r
                           /\ \A k \in 1..Len(c.wire) : d.wire[k] = c.wire[k]
<1>1. c.wire \in Seq(Requests) /\ Len(c.wire) \in Nat
  BY DEF Connections
<1>2. CASE c.closed
  BY <1>1, <1>2 DEF Sent
<1>3. CASE ~c.closed
  <2>1. PICK w : w = Append(c.wire, r)
    OBVIOUS
  <2>2. /\ w \in Seq(Requests) /\ Len(w) = Len(c.wire) + 1 /\ w # <<>>
        /\ w[Len(c.wire) + 1] = r
        /\ \A k \in 1..Len(c.wire) : w[k] = c.wire[k]
    BY <1>1, <2>1, AppendProperties
  <2>3. d = [c EXCEPT !.wire = w]
    BY <1>3, <2>1, Zenon DEF Sent
  <2>4. d \in Connections /\ d.wire = w /\ d.closed = c.closed
    BY <2>2, <2>3 DEF Connections
  <2> QED BY <1>1, <1>3, <2>2, <2>4
<1> QED BY <1>2, <1>3

\* Under both mutexes, with nobody at the socket, the request is sent, or asks for
\* another.
SendsOrAsks(r) ==
    IF CanKeepalive(r)
    THEN /\ Pass1
         /\ Goto(r, "status")
         /\ retry' = [retry EXCEPT ![r] = FALSE]
         /\ sends' = [sends EXCEPT ![r] = @ + 1]
         /\ http' = [http EXCEPT !.sent = @ + 1]
         /\ conn' = Sent(conn, r)
         /\ UNCHANGED <<far, mine, got, outcome>>
    ELSE Hold1(r) /\ Goto(r, "connect") /\ UNCHANGED <<locals, http, conn>>

LEMMA BothFacts ==
    ASSUME NEW r, HasBoth(r), ~Reader
    PROVE  SendsOrAsks(r)
BY DEF HasBoth, Read, SendsOrAsks

\* As long as nobody takes mut2 past a request that waits for it, whoever takes it
\* or begins to wait is the last of the line.
LEMMA JoinFacts ==
    ASSUME HttpInv, ~barged', NEW r \in Requests, Join2(r)
    PROVE  /\ line2' = Append(line2, r)
           /\ inside2' = (inside2 \/ line2 = <<>>)
           /\ due' = FALSE /\ beside' = {}
           /\ inside2 <=> line2 # <<>>
<1>1. due = FALSE /\ beside = {} /\ (inside2 => line2 # <<>>)
  BY DEF HttpInv, Line2Inv
<1>2. CASE inside2
  <2>1. /\ line2' = Append(line2, r)
        /\ inside2' = inside2 /\ due' = due /\ beside' = beside
    BY <1>2 DEF Join2
  <2>2. inside2 = TRUE
    BY <1>2 DEF HttpInv, TypeInv
  <2> QED BY <1>1, <2>1, <2>2
<1>3. CASE ~inside2
  <2>1. /\ line2' = <<r>> \o line2 /\ inside2' = TRUE
        /\ due' = Waits2 /\ beside' = beside
        /\ line2 = <<>>
    BY <1>3 DEF Join2
  <2>2. ~Waits2
    BY <2>1 DEF Waits2, HttpInv, Line2Inv, Contains
  <2>3. <<r>> \o <<>> = <<r>> /\ Append(<<>>, r) = <<r>>
    BY ConcatEmptySeq
  <2>4. due' = FALSE
    BY <2>1, <2>2 DEF Waits2
  <2> QED BY <1>1, <1>3, <2>1, <2>3, <2>4
<1> QED BY <1>2, <1>3

\* A request at the head of both lines is sent, or asks for a socket.
LEMMA BothStep ==
    ASSUME HttpInv, NEW r \in Requests, HasBoth(r),
           pc[r] \in {"idle", "wait1", "wait2"},
           line1 # <<>> => line1[1] = r,
           \A q \in Requests : pc[q] \in {"wait2", "sent", "sending"} \cup AtSocket => q = r,
           line2' = <<r>>, inside2' = TRUE, due' = FALSE, beside' = {}
    PROVE  HttpInv'
<1>22. SendsOrAsks(r)
  <2>1. ~Reader
    BY DEF Reader, AtSocket
  <2> QED BY <2>1, BothFacts
<1>1. PICK p \in {"status", "connect"} : p = IF CanKeepalive(r) THEN "status" ELSE "connect"
  OBVIOUS
<1>2. \A q \in Requests : pc'[q] = IF q = r THEN p ELSE pc[q]
  BY <1>1, <1>22 DEF SendsOrAsks, Goto, HttpInv, TypeInv
<1>3. UNCHANGED <<far, mine, got, outcome>>
  BY <1>22 DEF SendsOrAsks, locals
<1>4. /\ \A q \in Requests : q # r => retry'[q] = retry[q] /\ sends'[q] = sends[q]
      /\ p = "status" => ~retry'[r] /\ sends'[r] = sends[r] + 1
      /\ p = "connect" => retry'[r] = retry[r] /\ sends'[r] = sends[r]
      /\ sends' \in [Requests -> Nat] /\ retry' \in [Requests -> BOOLEAN]
      /\ pc' \in [Requests -> Places]
      /\ sends[r] \in Nat
  <2>1. pc' \in [Requests -> Places]
    <3>1. pc' = [pc EXCEPT ![r] = p]
      BY <1>1, <1>22 DEF SendsOrAsks, Goto
    <3>2. pc \in [Requests -> Places] /\ p \in Places
      BY DEF HttpInv, TypeInv, Places
    <3> QED BY <3>1, <3>2
  <2>2. sends \in [Requests -> Nat] /\ retry \in [Requests -> BOOLEAN] /\ sends[r] \in Nat
    BY DEF HttpInv, TypeInv
  <2>3. CASE CanKeepalive(r)
    <3>1. p = "status" /\ retry' = [retry EXCEPT ![r] = FALSE]
          /\ sends' = [sends EXCEPT ![r] = sends[r] + 1]
      BY <1>22, <1>1, <2>3 DEF SendsOrAsks
    <3>2. retry' \in [Requests -> BOOLEAN] /\ ~retry'[r]
          /\ \A q \in Requests : q # r => retry'[q] = retry[q]
      BY <2>2, <3>1
    <3>3. sends' \in [Requests -> Nat] /\ sends'[r] = sends[r] + 1
          /\ \A q \in Requests : q # r => sends'[q] = sends[q]
      BY <2>2, <3>1
    <3> QED BY <2>1, <2>2, <3>1, <3>2, <3>3
  <2>4. CASE ~CanKeepalive(r)
    <3>1. p = "connect" /\ retry' = retry /\ sends' = sends
      BY <1>22, <1>1, <2>4 DEF SendsOrAsks, locals
    <3> QED BY <2>1, <2>2, <3>1
  <2> QED BY <2>3, <2>4
<1>5. /\ Len(line2') = 1 /\ line2'[1] = r /\ line2' # <<>> /\ line2' \in Seq(Requests)
  OBVIOUS
<1>6. Line1Inv' /\ line1' \in Seq(Requests) /\ inside1' \in BOOLEAN
  <2>1. CASE CanKeepalive(r)
    <3>1. Pass1 /\ p \in Places \ {"wait1", "wait2"}
      BY <1>22, <1>1, <2>1 DEF SendsOrAsks, Places
    <3> QED BY <1>2, <3>1, PassLine
  <2>2. CASE ~CanKeepalive(r)
    <3>1. Hold1(r) /\ p \in {"wait2", "connect"} /\ line2'[Len(line2')] = r
      BY <1>1, <1>5, <1>22, <2>2 DEF SendsOrAsks
    <3> QED BY <1>2, <1>5, <3>1, HoldLine
  <2> QED BY <2>1, <2>2
<1>7. Line2Inv'
  <2>1. \A q \in Requests :
           pc'[q] \in {"wait2", "sent", "sending", "connect", "status", "body", "returning"} =>
              Contains(line2', q)
    BY <1>2, <1>5 DEF Contains, AtSocket
  <2> QED BY <1>2, <1>5, <2>1 DEF Line2Inv, Distinct
<1>8. /\ http \in Sockets /\ http' \in Sockets /\ http'.sock = http.sock
      /\ http'.gen = http.gen /\ http'.received = http.received
      /\ http'.elsewhere = http.elsewhere
      /\ http'.sent = IF p = "status" THEN http.sent + 1 ELSE http.sent
  <2>1. http \in Sockets
    BY DEF HttpInv, TypeInv
  <2>2. CASE CanKeepalive(r)
    <3>1. http' = [http EXCEPT !.sent = @ + 1] /\ p = "status"
      BY <1>22, <1>1, <2>2 DEF SendsOrAsks
    <3> QED BY <2>1, <3>1, SentSocket
  <2>3. CASE ~CanKeepalive(r)
    <3>1. http' = http /\ p = "connect"
      BY <1>22, <1>1, <2>3 DEF SendsOrAsks
    <3> QED BY <2>1, <3>1
  <2> QED BY <2>2, <2>3
<1>9. http.sent \in Nat /\ http.received \in Nat /\ http.gen \in Nat
  BY <1>8, SocketFacts
<1>10. p = "status" => http.sock /\ http.elsewhere = (r \in far)
  BY <1>1 DEF CanKeepalive
<1>11. /\ conn \in Connections /\ conn' \in Connections /\ conn'.closed = conn.closed
       /\ Len(conn.wire) \in Nat
       /\ conn.closed \/ p = "connect" => conn'.wire = conn.wire
       /\ p = "status" /\ ~conn.closed =>
             /\ Len(conn'.wire) = Len(conn.wire) + 1 /\ conn'.wire # <<>>
             /\ conn'.wire[Len(conn.wire) + 1] = r
             /\ \A k \in 1..Len(conn.wire) : conn'.wire[k] = conn.wire[k]
  <2>1. conn \in Connections
    BY DEF HttpInv, TypeInv
  <2>2. CASE CanKeepalive(r)
    <3>1. conn' = Sent(conn, r) /\ p = "status"
      BY <1>22, <1>1, <2>2 DEF SendsOrAsks
    <3> QED BY <2>1, <3>1, SentFacts
  <2>3. CASE ~CanKeepalive(r)
    <3>1. conn' = conn /\ p = "connect"
      BY <1>22, <1>1, <2>3 DEF SendsOrAsks
    <3> QED BY <2>1, <3>1, LineFacts
  <2> QED BY <2>2, <2>3
<1>12. TypeInv'
  BY <1>3, <1>4, <1>5, <1>6, <1>8, <1>11 DEF HttpInv, TypeInv
<1>13. outcome[r] = "none"
  BY DEF HttpInv, SendInv
<1>14. SendInv'
  <2>1. \A q \in Requests : outcome[q] # "none" => pc'[q] \in {"returning", "done"}
    BY <1>2, <1>13 DEF HttpInv, SendInv
  <2>2. \A q \in Posts :
          /\ pc'[q] \notin {"sent", "sending"} /\ sends'[q] <= 1
          /\ pc'[q] \in {"idle", "wait1", "wait2", "connect"} => sends'[q] = 0
          /\ pc'[q] = "status" => ~retry'[q]
          /\ outcome[q] = "unsent" => sends'[q] = 0
    <3> TAKE q \in Posts
    <3>1. q \in Requests
      BY DEF Requests
    <3>2. CASE q = r
      <4>1. sends[r] = 0
        BY <3>2 DEF HttpInv, SendInv
      <4>2. /\ pc'[r] = p /\ p \in {"status", "connect"}
            /\ p = "status" => ~retry'[r] /\ sends'[r] = 1
            /\ p = "connect" => sends'[r] = 0
        BY <1>2, <1>4, <4>1
      <4> QED BY <1>13, <3>2, <4>2
    <3>3. CASE q # r
      BY <1>2, <1>4, <3>1, <3>3 DEF HttpInv, SendInv
    <3> QED BY <3>2, <3>3
  <2> QED BY <1>3, <2>1, <2>2 DEF SendInv
<1>15. \A k \in 1..Len(conn'.wire) :
          \/ k \in 1..Len(conn.wire) /\ conn'.wire[k] = conn.wire[k]
          \/ p = "status" /\ k = Len(conn.wire) + 1 /\ conn'.wire[k] = r
  BY <1>1, <1>11
<1>16. WireInv'
  <2>1. OneOrigin'
    BY <1>3, <1>8, <1>10, <1>15 DEF HttpInv, WireInv, OneOrigin
  <2>2. ~http'.sock => conn'.wire = <<>> /\ conn'.closed
    BY <1>1, <1>8, <1>10, <1>11 DEF HttpInv, WireInv
  <2>3. /\ http'.sock => http'.received + Len(conn'.wire) <= http'.sent
        /\ ~conn'.closed => http'.received + Len(conn'.wire) = http'.sent
    <3>1. /\ http.sock => http.received + Len(conn.wire) <= http.sent
          /\ ~conn.closed => http.received + Len(conn.wire) = http.sent
      BY DEF HttpInv, WireInv
    <3>2. CASE p = "connect"
      BY <1>8, <1>11, <3>1, <3>2
    <3>3. CASE p = "status" /\ conn.closed
      BY <1>8, <1>9, <1>11, <3>1, <3>3
    <3>4. CASE p = "status" /\ ~conn.closed
      BY <1>8, <1>9, <1>10, <1>11, <3>1, <3>4
    <3> QED BY <1>1, <3>2, <3>3, <3>4
  <2>4. \A q \in Requests : pc'[q] \in {"status", "body"} => q = r /\ p = "status"
    BY <1>1, <1>2 DEF AtSocket
  <2>5. \A k \in 1..Len(conn'.wire) : sends'[conn'.wire[k]] > 0
    <3> TAKE k \in 1..Len(conn'.wire)
    <3>1. CASE p = "status" /\ conn'.wire[k] = r
      BY <1>4, <3>1
    <3>2. CASE k \in 1..Len(conn.wire) /\ conn'.wire[k] = conn.wire[k]
      <4>1. sends[conn.wire[k]] > 0 /\ conn.wire[k] \in Requests
        BY <3>2, LineFacts DEF HttpInv, WireInv
      <4>2. sends'[conn.wire[k]] = sends[conn.wire[k]] \/ sends'[conn.wire[k]] = sends[r] + 1
        BY <1>1, <1>4, <4>1
      <4> QED BY <1>4, <3>2, <4>1, <4>2
    <3> QED BY <1>15, <3>1, <3>2
  <2> QED BY <1>11, <2>1, <2>2, <2>3, <2>4, <2>5 DEF WireInv
<1>17. MineInv'
  BY <1>2 DEF MineInv
<1>18. SentCancelled' <=> SentCancelled
  BY <1>2, <1>4 DEF SentCancelled
<1>19. ~SentCancelled => Len(conn.wire) = 0
  <2> SUFFICES ASSUME ~SentCancelled, Len(conn.wire) # 0 PROVE FALSE
    OBVIOUS
  <2>1. 1 \in 1..Len(conn.wire)
    BY <1>11
  <2>2. pc[conn.wire[1]] \in {"sent", "status", "body"} /\ conn.wire[1] \in Requests
    BY <2>1, LineFacts DEF HttpInv, OrderInv
  <2> QED BY <2>2 DEF AtSocket
<1>20. OrderInv'
  <2> SUFFICES ASSUME ~SentCancelled, NEW k \in 1..Len(conn'.wire)
               PROVE  k = 1 /\ pc'[conn'.wire[k]] = "status"
    BY <1>5, <1>18 DEF OrderInv
  <2>1. p = "status" /\ k = 1 /\ conn'.wire[k] = r
    BY <1>15, <1>19
  <2> QED BY <1>2, <2>1
<1>21. ReaderInv'
  <2> SUFFICES ASSUME NEW q \in Requests
               PROVE  /\ pc'[q] \in {"status", "body"} /\ conn'.wire # <<>> =>
                            conn'.wire[1] = q \/ Strayed(q)'
                      /\ pc'[q] # "body"
                      /\ outcome[q] = "ok" => got[q] = q \/ Strayed(q)'
    BY <1>3 DEF ReaderInv
  <2>1. pc'[q] \in {"status", "body"} => q = r /\ p = "status" /\ pc'[q] = "status"
    BY <1>1, <1>2 DEF AtSocket
  <2>2. ASSUME p = "status", conn'.wire # <<>> PROVE conn'.wire[1] = r \/ Strayed(r)'
    <3>1. CASE SentCancelled
      BY <1>4, <1>18, <2>2, <3>1 DEF Strayed
    <3>2. CASE ~SentCancelled
      <4>1. 1 \in 1..Len(conn'.wire)
        BY <1>11, <2>2 DEF Connections
      <4> QED BY <1>15, <1>19, <3>2, <4>1
    <3> QED BY <3>1, <3>2
  <2>3. outcome[q] = "ok" => q # r /\ (got[q] = q \/ Strayed(q)')
    BY <1>4, <1>13, <1>18 DEF HttpInv, ReaderInv, Strayed
  <2> QED BY <2>1, <2>2, <2>3
<1> QED BY <1>6, <1>7, <1>12, <1>14, <1>16, <1>17, <1>20, <1>21 DEF HttpInv

\* A request is sent behind the others.
LEMMA PipelineStep ==
    ASSUME HttpInv, ~barged', NEW r \in Requests, Pipeline(r),
           pc[r] \in {"idle", "wait1"},
           line1 # <<>> => line1[1] = r
    PROVE  HttpInv'
<1>2. PICK m : m = [gen |-> http.gen, expect |-> http.sent]
  OBVIOUS
<1>1. PICK alive \in BOOLEAN :
         /\ alive \/ conn.closed
         /\ http' = [http EXCEPT !.sent = @ + 1, !.sock = alive]
         /\ conn' = IF alive THEN Sent(conn, r) ELSE Dead
         /\ mine' = IF inside2 \/ (~alive /\ Reader) THEN [mine EXCEPT ![r] = m] ELSE mine
         /\ IF ~alive /\ Reader
            THEN /\ Goto(r, "sending")
                 /\ line2' = Append(line2, r)
                 /\ UNCHANGED <<inside2, due, beside, barged>>
            ELSE /\ Join2(r)
                 /\ IF inside2 THEN Goto(r, "sent") ELSE TakesUp(r, m, http')
  BY <1>2 DEF Pipeline
<1>24. Reader => inside2
  BY OneHolder DEF Reader, AtSocket
<1>25. /\ line2' = Append(line2, r) /\ inside2' = (inside2 \/ line2 = <<>>)
       /\ due' = FALSE /\ beside' = {}
       /\ inside2 <=> line2 # <<>>
  <2>1. CASE ~alive /\ Reader
    <3>1. due = FALSE /\ beside = {} /\ (inside2 => line2 # <<>>) /\ inside2 \in BOOLEAN
      BY DEF HttpInv, TypeInv, Line2Inv
    <3> QED BY <1>1, <1>24, <2>1, <3>1
  <2>2. CASE ~(~alive /\ Reader)
    <3>1. Join2(r)
      BY <1>1, <2>2
    <3> QED BY <3>1, JoinFacts
  <2> QED BY <2>1, <2>2
<1>3. /\ http \in Sockets /\ http' \in Sockets /\ http'.sock = alive
      /\ http'.gen = http.gen /\ http'.received = http.received
      /\ http'.elsewhere = http.elsewhere /\ http'.sent = http.sent + 1
      /\ http.sent \in Nat /\ http.received \in Nat /\ http.gen \in Nat
  <2>1. http \in Sockets
    BY DEF HttpInv, TypeInv
  <2>2. PICK n : n = http.sent + 1
    OBVIOUS
  <2>3. n \in Nat
    BY <2>1, <2>2, SocketFacts
  <2>4. http' = [http EXCEPT !.sent = n, !.sock = alive]
    BY <1>1, <2>2, Zenon
  <2>5. /\ http' \in Sockets /\ http'.sock = alive /\ http'.elsewhere = http.elsewhere
        /\ http'.gen = http.gen /\ http'.sent = n /\ http'.received = http.received
    BY <2>1, <2>3, <2>4 DEF Sockets
  <2> QED BY <2>1, <2>2, <2>5, SocketFacts
<1>4. m \in [gen : Nat, expect : Nat] /\ m.gen = http.gen /\ m.expect = http.sent
  BY <1>2, <1>3
<1>5. PICK p \in {"sent", "sending", "status", "connect"} :
         /\ Goto(r, p)
         /\ p \in {"sent", "sending"} <=> line2 # <<>>
         /\ p \in {"status"} => alive
         /\ p = "sending" => ~alive
         /\ line2 = <<>> /\ alive /\ http.sent = http.received => p = "status"
         /\ p = "status" => http.sent = http.received
  <2>1. PICK p : p = CASE line2 # <<>> /\ ~alive /\ Reader -> "sending"
                       [] line2 # <<>> /\ ~(~alive /\ Reader) -> "sent"
                       [] line2 = <<>> /\ Paired(m, http') -> "status"
                       [] OTHER -> "connect"
    OBVIOUS
  <2>2. Goto(r, p)
    BY <1>1, <1>24, <1>25, <2>1 DEF TakesUp, Read
  <2>3. Paired(m, http') <=> alive /\ http.sent = http.received
    BY <1>1, <1>3, <1>4, Zenon DEF Paired
  <2> QED BY <2>1, <2>2, <2>3
<1>6. \A q \in Requests : pc'[q] = IF q = r THEN p ELSE pc[q]
  BY <1>5 DEF Goto, HttpInv, TypeInv
<1>7. /\ r \in Gets /\ http.sock /\ http.elsewhere = (r \in far)
      /\ Pass1 /\ UNCHANGED <<far, retry, got, outcome>>
      /\ line2' = Append(line2, r) /\ inside2' = (inside2 \/ line2 = <<>>)
  BY <1>25 DEF Pipeline, CanPipeline, CanKeepalive
<1>8. /\ \A q \in Requests : sends'[q] = IF q = r THEN sends[r] + 1 ELSE sends[q]
      /\ sends' \in [Requests -> Nat] /\ sends[r] \in Nat
  <2>1. sends' = [sends EXCEPT ![r] = @ + 1]
    BY DEF Pipeline
  <2>2. sends \in [Requests -> Nat] /\ sends[r] \in Nat
    BY DEF HttpInv, TypeInv
  <2> QED BY <2>1, <2>2
<1>9. /\ mine' \in [Requests -> [gen : Nat, expect : Nat]]
      /\ \A q \in Requests : q # r => mine'[q] = mine[q]
      /\ p \in {"sent", "sending"} => mine'[r] = m
  <2>1. mine' = IF line2 = <<>> THEN mine ELSE [mine EXCEPT ![r] = m]
    BY <1>1, <1>24, <1>25
  <2> QED BY <1>4, <1>5, <2>1 DEF HttpInv, TypeInv
<1>10. Line1Inv' /\ line1' \in Seq(Requests) /\ inside1' = FALSE
  <2>1. p \in Places \ {"wait1", "wait2"}
    BY DEF Places
  <2> QED BY <1>6, <1>7, <2>1, PassLine
<1>11. /\ Line2Inv'
       /\ line2' \in Seq(Requests) /\ line2' # <<>>
       /\ Len(line2') = Len(line2) + 1 /\ line2'[Len(line2')] = r
       /\ \A i \in 1..Len(line2) : line2'[i] = line2[i] /\ line2[i] # r
  <2>1. p \in {"wait2", "sent", "sending", "connect", "status"} /\ (p \in {"wait2", "sent", "sending"} <=> line2 # <<>>)
    BY <1>5
  <2>2. \A q \in Requests : pc'[q] = IF q = r THEN p ELSE pc[q]
    BY <1>6
  <2>3. line2' = Append(line2, r) /\ inside2' = (inside2 \/ line2 = <<>>)
    BY <1>25
  <2>4. due' = FALSE /\ beside' = {}
    BY <1>25
  <2> QED BY <2>1, <2>2, <2>3, <2>4, JoinLine
<1>12. /\ conn \in Connections /\ conn' \in Connections /\ Len(conn.wire) \in Nat
       /\ alive => /\ conn'.closed = conn.closed
                   /\ conn.closed => conn'.wire = conn.wire
       /\ alive /\ ~conn.closed =>
             /\ Len(conn'.wire) = Len(conn.wire) + 1 /\ conn'.wire # <<>>
             /\ conn'.wire[Len(conn.wire) + 1] = r
             /\ \A k \in 1..Len(conn.wire) : conn'.wire[k] = conn.wire[k]
       /\ ~alive => conn'.wire = <<>> /\ conn'.closed
  <2>1. conn \in Connections
    BY DEF HttpInv, TypeInv
  <2>2. CASE alive
    <3>1. conn' = Sent(conn, r)
      BY <1>1, <2>2
    <3> QED BY <2>1, <2>2, <3>1, SentFacts
  <2>3. CASE ~alive
    <3>1. conn' = Dead
      BY <1>1, <2>3
    <3>2. Dead \in Connections /\ Dead.wire = <<>> /\ Dead.closed = TRUE
      BY DEF Dead, Connections
    <3> QED BY <2>1, <2>3, <3>1, <3>2, LineFacts
  <2> QED BY <2>2, <2>3
<1>13. TypeInv'
  <2>1. pc' \in [Requests -> Places] /\ inside2' \in BOOLEAN
    BY <1>5, <1>7 DEF Goto, HttpInv, TypeInv, Places
  <2> QED BY <1>3, <1>7, <1>8, <1>9, <1>10, <1>11, <1>12, <2>1 DEF HttpInv, TypeInv
<1>14. outcome[r] = "none"
  BY DEF HttpInv, SendInv
<1>15. SendInv'
  <2>1. r \notin Posts
    BY <1>7, RequestsOK DEF RequestsOK
  <2> QED BY <1>6, <1>7, <1>8, <1>14, <2>1 DEF HttpInv, SendInv, Requests
<1>16. ASSUME NEW k \in 1..Len(conn'.wire)
       PROVE  /\ alive
              /\ \/ k \in 1..Len(conn.wire) /\ conn'.wire[k] = conn.wire[k]
                 \/ ~conn.closed /\ k = Len(conn.wire) + 1 /\ conn'.wire[k] = r
  <2>1. alive
    BY <1>12, EmptySeq
  <2>2. CASE conn.closed
    BY <1>12, <2>1, <2>2
  <2>3. CASE ~conn.closed
    BY <1>12, <2>1, <2>3
  <2> QED BY <2>1, <2>2, <2>3
<1>17. /\ http.received + Len(conn.wire) <= http.sent
       /\ ~conn.closed => http.received + Len(conn.wire) = http.sent
  BY <1>7 DEF HttpInv, WireInv
<1>18. WireInv'
  <2>1. OneOrigin'
    BY <1>3, <1>7, <1>16 DEF HttpInv, WireInv, OneOrigin
  <2>2. ~http'.sock => conn'.wire = <<>> /\ conn'.closed
    BY <1>3, <1>12
  <2>3. /\ http'.sock => http'.received + Len(conn'.wire) <= http'.sent
        /\ ~conn'.closed => http'.received + Len(conn'.wire) = http'.sent
    <3>1. CASE ~alive
      BY <1>3, <1>12, <3>1
    <3>2. CASE alive /\ conn.closed
      <4>1. conn'.closed /\ conn'.wire = conn.wire /\ Len(conn.wire) \in Nat
        BY <1>12, <3>2
      <4>2. http'.received + Len(conn.wire) <= http'.sent
        BY <1>3, <1>17, <4>1
      <4> QED BY <4>1, <4>2
    <3>3. CASE alive /\ ~conn.closed
      <4>1. Len(conn'.wire) = Len(conn.wire) + 1 /\ Len(conn.wire) \in Nat
        BY <1>12, <3>3
      <4>2. http.received + Len(conn.wire) = http.sent
        BY <1>17, <3>3
      <4>3. http'.received + Len(conn'.wire) = http'.sent
        BY <1>3, <4>1, <4>2
      <4> QED BY <1>3, <4>1, <4>3
    <3> QED BY <3>1, <3>2, <3>3
  <2>4. ASSUME NEW q \in Requests, pc'[q] \in {"status", "body"}
        PROVE  conn'.wire # <<>> \/ conn'.closed
    <3>1. CASE ~alive \/ ~conn.closed
      BY <1>12, <3>1
    <3>2. CASE alive /\ conn.closed
      BY <1>12, <3>2
    <3> QED BY <3>1, <3>2
  <2>5. \A k \in 1..Len(conn'.wire) : sends'[conn'.wire[k]] > 0
    <3> TAKE k \in 1..Len(conn'.wire)
    <3>1. CASE conn'.wire[k] = r
      BY <1>8, <3>1
    <3>2. CASE conn'.wire[k] # r
      <4>1. k \in 1..Len(conn.wire) /\ conn'.wire[k] = conn.wire[k]
        BY <1>16, <3>2
      <4>2. sends[conn.wire[k]] > 0 /\ conn.wire[k] \in Requests
        BY <4>1, LineFacts DEF HttpInv, WireInv
      <4> QED BY <1>8, <3>2, <4>1, <4>2
    <3> QED BY <3>1, <3>2
  <2> QED BY <2>1, <2>2, <2>3, <2>4, <2>5 DEF WireInv
<1>19. MineInv'
  <2> SUFFICES ASSUME NEW q \in Requests, pc'[q] \in {"sent", "sending"}
               PROVE  /\ mine'[q].gen <= http.gen
                      /\ mine'[q].gen = http.gen /\ alive =>
                            /\ mine'[q].expect < http.sent + 1
                            /\ \A k \in 1..Len(conn'.wire) :
                                  mine'[q].expect + 1 = http.received + k => conn'.wire[k] = q
    BY <1>3 DEF MineInv
  <2>1. CASE q = r
    <3>1. mine'[q] = m
      BY <1>5, <1>6, <1>9, <2>1
    <3>2. ASSUME NEW k \in 1..Len(conn'.wire), m.expect + 1 = http.received + k
          PROVE  conn'.wire[k] = q
      <4>1. ~(k \in 1..Len(conn.wire))
        BY <1>3, <1>4, <1>12, <1>17, <3>2
      <4> QED BY <1>16, <2>1, <4>1
    <3> QED BY <1>3, <1>4, <3>1, <3>2
  <2>2. CASE q # r
    <3>1. pc[q] \in {"sent", "sending"} /\ mine'[q] = mine[q] /\ mine[q].expect \in Nat /\ mine[q].gen \in Nat
      BY <1>6, <1>9, <2>2 DEF HttpInv, TypeInv
    <3>2. /\ mine[q].gen <= http.gen
          /\ mine[q].gen = http.gen =>
                /\ mine[q].expect < http.sent
                /\ \A k \in 1..Len(conn.wire) :
                      mine[q].expect + 1 = http.received + k => conn.wire[k] = q
      BY <1>7, <3>1 DEF HttpInv, MineInv
    <3>3. ASSUME mine[q].gen = http.gen, NEW k \in 1..Len(conn'.wire),
                 mine[q].expect + 1 = http.received + k
          PROVE  conn'.wire[k] = q
      <4>1. CASE k \in 1..Len(conn.wire) /\ conn'.wire[k] = conn.wire[k]
        BY <3>2, <3>3, <4>1
      <4>2. CASE ~conn.closed /\ k = Len(conn.wire) + 1
        <5>1. mine[q].expect = http.sent
          <6>1. mine[q].expect + 1 = http.received + (Len(conn.wire) + 1)
            BY <3>3, <4>2
          <6>2. http.received + Len(conn.wire) = http.sent /\ Len(conn.wire) \in Nat
            BY <1>12, <1>17, <4>2
          <6>3. mine[q].expect \in Nat /\ http.received \in Nat /\ http.sent \in Nat
            BY <1>3, <3>1
          <6> QED BY ONLY <6>1, <6>2, <6>3
        <5> QED BY <1>3, <3>2, <3>3, <5>1
      <4> QED BY <1>16, <4>1, <4>2
    <3> QED BY <1>3, <3>1, <3>2, <3>3
  <2> QED BY <2>1, <2>2
<1>20. SentCancelled' <=> SentCancelled
  BY <1>5, <1>6, <1>8 DEF SentCancelled
<1>21. ~SentCancelled => \A k \in 1..Len(conn.wire) : Contains(line2, conn.wire[k])
  BY WireInLine
<1>22. OrderInv'
  <2> SUFFICES ASSUME ~SentCancelled, NEW k \in 1..Len(conn'.wire)
               PROVE  /\ pc'[conn'.wire[k]] \in {"sent", "status", "body"}
                      /\ pc'[conn'.wire[k]] = "sent" =>
                            /\ mine'[conn'.wire[k]].gen = http.gen
                            /\ mine'[conn'.wire[k]].expect + 1 = http.received + k
                      /\ \A j \in 1..Len(conn'.wire), a, b \in 1..Len(line2') :
                            /\ j < k
                            /\ line2'[a] = conn'.wire[j] /\ line2'[b] = conn'.wire[k]
                            => a < b
    BY <1>3, <1>20 DEF OrderInv
  <2>1. \A i \in 1..Len(line2') : i \in 1..Len(line2) \/ i = Len(line2) + 1
    BY <1>11, LineFacts
  <2>2. CASE k \in 1..Len(conn.wire) /\ conn'.wire[k] = conn.wire[k]
    <3>1. PICK i \in 1..Len(line2) : line2[i] = conn.wire[k]
      BY <1>21, <2>2 DEF Contains
    <3>2. conn.wire[k] # r /\ conn.wire[k] \in Requests
      BY <1>11, <2>2, <3>1, LineFacts
    <3>3. ASSUME NEW j \in 1..Len(conn'.wire),
                 NEW a \in 1..Len(line2'), NEW b \in 1..Len(line2'),
                 j < k, line2'[a] = conn'.wire[j], line2'[b] = conn'.wire[k]
          PROVE  a < b
      <4>1. j \in 1..Len(conn.wire) /\ conn'.wire[j] = conn.wire[j]
        BY <1>12, <1>16, <2>2, <3>3
      <4>2. conn.wire[j] # r
        BY <1>11, <1>21, <4>1 DEF Contains
      <4>3. a \in 1..Len(line2) /\ b \in 1..Len(line2)
        BY <1>11, <2>1, <2>2, <3>2, <3>3, <4>1, <4>2
      <4>4. line2[a] = conn.wire[j] /\ line2[b] = conn.wire[k]
        BY <1>11, <2>2, <3>3, <4>1, <4>3
      <4> QED BY <2>2, <3>3, <4>1, <4>3, <4>4 DEF HttpInv, OrderInv
    <3>4. /\ pc'[conn.wire[k]] = pc[conn.wire[k]]
          /\ mine'[conn.wire[k]] = mine[conn.wire[k]]
      BY <1>6, <1>9, <3>2
    <3> QED BY <2>2, <3>3, <3>4 DEF HttpInv, OrderInv
  <2>3. CASE ~conn.closed /\ k = Len(conn.wire) + 1 /\ conn'.wire[k] = r
    <3>1. pc'[r] = p /\ alive
      BY <1>6, <1>16
    <3>5. p # "sending"
      BY <1>5, <3>1
    <3>2. p # "connect"
      <4>1. SUFFICES ASSUME line2 = <<>> PROVE http.sent = http.received
        BY <1>5, <3>1
      <4>2. Len(line2) = 0
        BY <4>1
      <4>3. ~(1 \in 1..Len(conn.wire))
        BY <1>21, <4>2 DEF Contains
      <4> QED BY <1>3, <1>12, <1>17, <2>3, <4>3
    <3>3. p = "sent" => mine'[r].gen = http.gen /\ mine'[r].expect + 1 = http.received + k
      <4>1. http.received + Len(conn.wire) = http.sent /\ k = Len(conn.wire) + 1
        BY <1>17, <2>3
      <4>2. p = "sent" => mine'[r] = m
        BY <1>9
      <4>3. m.gen = http.gen /\ m.expect = http.sent
        BY <1>4
      <4>4. http.received \in Nat /\ Len(conn.wire) \in Nat
        BY <1>3, <1>12
      <4> QED BY <4>1, <4>2, <4>3, <4>4
    <3>4. ASSUME NEW j \in 1..Len(conn'.wire),
                 NEW a \in 1..Len(line2'), NEW b \in 1..Len(line2'),
                 j < k, line2'[a] = conn'.wire[j], line2'[b] = r
          PROVE  a < b
      <4>1. j \in 1..Len(conn.wire) /\ conn'.wire[j] = conn.wire[j]
        BY <1>12, <1>16, <2>3, <3>4
      <4>2. conn.wire[j] # r
        <5>1. PICK i \in 1..Len(line2) : line2[i] = conn.wire[j]
          BY <1>21, <4>1 DEF Contains
        <5> QED BY <1>11, <5>1
      <4>3. b = Len(line2) + 1
        BY <1>11, <2>1, <3>4
      <4>4. a # Len(line2) + 1
        BY <1>11, <3>4, <4>1, <4>2
      <4> QED BY <2>1, <4>3, <4>4, LineFacts
    <3> QED BY <2>3, <3>1, <3>2, <3>3, <3>4, <3>5
  <2> QED BY <1>16, <2>2, <2>3
<1>23. ReaderInv'
  <2> SUFFICES ASSUME NEW q \in Requests
               PROVE  /\ pc'[q] \in {"status", "body"} /\ conn'.wire # <<>> =>
                            conn'.wire[1] = q \/ Strayed(q)
                      /\ pc'[q] = "body" => got[q] = q \/ Strayed(q)
                      /\ outcome[q] = "ok" => got[q] = q \/ Strayed(q)
    BY <1>7, <1>20 DEF ReaderInv, Strayed
  <2>1. CASE q = r
    <3>1. ASSUME p = "status", conn'.wire # <<>> PROVE conn'.wire[1] = r
      <4>1. Len(conn.wire) = 0
        BY <1>3, <1>5, <1>12, <1>17, <3>1
      <4>2. 1 \in 1..Len(conn'.wire)
        BY <1>12, <3>1 DEF Connections
      <4> QED BY <1>16, <4>1, <4>2
    <3> QED BY <1>5, <1>6, <1>14, <2>1, <3>1
  <2>2. CASE q # r
    <3>1. pc'[q] = pc[q]
      BY <1>6, <2>2
    <3>2. ASSUME pc[q] \in {"status", "body"}, conn'.wire # <<>>
          PROVE  conn'.wire[1] = q \/ Strayed(q)
      <4>1. 1 \in 1..Len(conn'.wire)
        BY <1>12, <3>2 DEF Connections
      <4>2. conn.wire # <<>> \/ conn.closed
        BY <3>2 DEF HttpInv, WireInv
      <4>3. conn.wire # <<>> => 1 \in 1..Len(conn.wire)
        BY LineFacts
      <4>4. 1 \in 1..Len(conn.wire) /\ conn'.wire[1] = conn.wire[1]
        BY <1>12, <1>16, <4>1, <4>2, <4>3
      <4> QED BY <3>2, <4>4 DEF HttpInv, ReaderInv
    <3> QED BY <3>1, <3>2 DEF HttpInv, ReaderInv
  <2> QED BY <2>1, <2>2
<1> QED BY <1>10, <1>11, <1>13, <1>15, <1>18, <1>19, <1>22, <1>23 DEF HttpInv

\* A request whose turn at mut1 it is is sent behind the others, or waits for
\* mut2 with mut1 held.
LEMMA HasMut1Step ==
    ASSUME HttpInv, ~barged', NEW r \in Requests, HasMut1(r),
           pc[r] \in {"idle", "wait1"}, ~inside1,
           line1 # <<>> => line1[1] = r
    PROVE  HttpInv'
<1>1. CASE Pipeline(r)
  BY <1>1, PipelineStep
<1>2. CASE Serialise(r) /\ line2 = <<>>
  <2>1. /\ HasBoth(r) /\ line2' = Append(line2, r) /\ inside2' = (inside2 \/ line2 = <<>>)
        /\ due' = FALSE /\ beside' = {}
    BY <1>2, JoinFacts DEF Serialise
  <2>2. line2' = <<r>>
    BY <1>2, <2>1
  <2>3. inside2' = TRUE
    BY <1>2, <2>1
  <2>4. \A q \in Requests : pc[q] \in {"wait2", "sent", "sending"} \cup AtSocket => q = r
    BY <1>2, LineFacts DEF HttpInv, Line2Inv, Contains, AtSocket
  <2> QED BY <2>1, <2>2, <2>3, <2>4, BothStep
<1>3. CASE Serialise(r) /\ line2 # <<>>
  <2>1. /\ Hold1(r) /\ Goto(r, "wait2") /\ UNCHANGED <<locals, http, conn>>
        /\ line2' = Append(line2, r) /\ inside2' = (inside2 \/ line2 = <<>>)
        /\ due' = FALSE /\ beside' = {}
    BY <1>3, JoinFacts DEF Serialise
  <2>2. \A q \in Requests : pc'[q] = IF q = r THEN "wait2" ELSE pc[q]
    BY <2>1 DEF Goto, HttpInv, TypeInv
  <2>3. /\ Line2Inv'
        /\ line2' \in Seq(Requests) /\ line2' # <<>>
        /\ Len(line2') = Len(line2) + 1 /\ line2'[Len(line2')] = r
        /\ \A i \in 1..Len(line2) : line2'[i] = line2[i] /\ line2[i] # r
    <3>1. /\ "wait2" \in {"wait2", "sent", "sending", "connect", "status"}
          /\ "wait2" \in {"wait2", "sent", "sending"} <=> line2 # <<>>
      BY <1>3
    <3> QED BY <2>1, <2>2, <3>1, JoinLine
  <2>4. Line1Inv' /\ line1' \in Seq(Requests) /\ inside1' = TRUE
    <3>1. "wait2" \in {"wait2", "connect"}
      OBVIOUS
    <3> QED BY <2>1, <2>2, <2>3, <3>1, HoldLine
  <2>5. TypeInv'
    <3>1. pc' \in [Requests -> Places] /\ inside2' \in BOOLEAN
      BY <2>1 DEF Goto, HttpInv, TypeInv, Places
    <3> QED BY <2>1, <2>3, <2>4, <3>1 DEF HttpInv, TypeInv, locals
  <2>6. UNCHANGED <<far, retry, mine, got, outcome, sends, http, conn>>
    BY <2>1 DEF locals
  <2>7. SendInv'
    BY <2>2, <2>6 DEF HttpInv, SendInv, Requests
  <2>8. WireInv' /\ MineInv'
    BY <2>2, <2>6 DEF HttpInv, WireInv, OneOrigin, MineInv
  <2>9. SentCancelled' <=> SentCancelled
    BY <2>2, <2>6 DEF SentCancelled
  <2>10. OrderInv'
    <3> SUFFICES ASSUME ~SentCancelled, NEW k \in 1..Len(conn.wire)
                 PROVE  /\ pc'[conn.wire[k]] = pc[conn.wire[k]]
                        /\ \A j \in 1..Len(conn.wire), a, b \in 1..Len(line2') :
                              /\ j < k
                              /\ line2'[a] = conn.wire[j] /\ line2'[b] = conn.wire[k]
                              => a < b
      BY <2>6, <2>9 DEF HttpInv, OrderInv
    <3>1. \A i \in 1..Len(conn.wire) : conn.wire[i] # r /\ conn.wire[i] \in Requests
      BY LineFacts DEF HttpInv, OrderInv
    <3>2. \A i \in 1..Len(line2') : line2'[i] # r => i \in 1..Len(line2) /\ line2'[i] = line2[i]
      BY <2>3, LineFacts
    <3> QED BY <2>2, <3>1, <3>2 DEF HttpInv, OrderInv
  <2>11. ReaderInv'
    BY <2>2, <2>6, <2>9 DEF HttpInv, ReaderInv, Strayed
  <2> QED BY <2>3, <2>4, <2>5, <2>7, <2>8, <2>10, <2>11 DEF HttpInv
<1> QED BY <1>1, <1>2, <1>3 DEF HasMut1, Serialise

\* A request begins.
LEMMA ArriveStep ==
    ASSUME HttpInv, ~barged', NEW r \in Requests, Arrive(r) PROVE HttpInv'
<1>1. pc[r] = "idle"
  BY DEF Arrive
<1>2. CASE line1 = <<>>
  <2>1. HasMut1(r) /\ ~inside1
    BY <1>2 DEF Arrive, HttpInv, Line1Inv
  <2> QED BY <1>1, <1>2, <2>1, HasMut1Step
<1>3. CASE line1 # <<>>
  <2>1. /\ line1' = Append(line1, r) /\ Goto(r, "wait1")
        /\ UNCHANGED <<inside1, line2, inside2, due, beside, locals, http, conn>>
    BY <1>3 DEF Arrive, mutex2
  <2>2. inside1
    BY <1>3 DEF Arrive, Pending
  <2>3. \A q \in Requests : pc'[q] = IF q = r THEN "wait1" ELSE pc[q]
    BY <2>1 DEF Goto, HttpInv, TypeInv
  <2>4. UNCHANGED <<far, retry, mine, got, outcome, sends, http, conn>>
    BY <2>1 DEF locals
  <2>5. /\ line1' \in Seq(Requests) /\ line1' # <<>> /\ 1 \in 1..Len(line1)
        /\ Len(line1') = Len(line1) + 1 /\ line1'[Len(line1) + 1] = r
        /\ \A i \in 1..Len(line1) : line1'[i] = line1[i]
    BY <1>3, <2>1, LineFacts, AppendProperties
  <2>6. \A i \in 1..Len(line1) :
           line1[i] # r /\ line1[i] \in Requests /\ pc'[line1[i]] = pc[line1[i]]
    BY <1>1, <2>3, LineFacts DEF HttpInv, Line1Inv
  <2>7. \A i \in 1..Len(line1') : i \in 1..Len(line1) \/ i = Len(line1) + 1
    BY <2>5, LineFacts
  <2>8. Line1Inv'
    <3>1. Distinct(line1')
      BY <2>5, <2>6, <2>7 DEF HttpInv, Line1Inv, Distinct
    <3>2. \A i \in 1..Len(line1') : i > 1 => pc'[line1'[i]] = "wait1"
      BY <2>3, <2>5, <2>6, <2>7 DEF HttpInv, Line1Inv
    <3>3. ASSUME NEW q \in Requests, pc'[q] = "wait1" PROVE Contains(line1', q)
      <4>1. CASE q = r
        <5>1. Len(line1) + 1 \in 1..Len(line1')
          BY <2>5, LineFacts
        <5> QED BY <2>5, <4>1, <5>1 DEF Contains
      <4>2. CASE q # r
        <5>1. PICK i \in 1..Len(line1) : line1[i] = q
          BY <2>3, <3>3, <4>2 DEF HttpInv, Line1Inv, Contains
        <5>2. i \in 1..Len(line1')
          BY <2>5, LineFacts
        <5> QED BY <2>5, <5>1, <5>2 DEF Contains
      <4> QED BY <4>1, <4>2
    <3>4. /\ line2 # <<>> /\ line1'[1] = line2[Len(line2)]
          /\ pc'[line1'[1]] \in {"wait2", "connect", "returning"}
      BY <2>2, <2>5, <2>6 DEF HttpInv, Line1Inv
    <3>5. \A q \in Requests : pc'[q] = "wait2" => line1'[1] = q
      BY <2>3, <2>5 DEF HttpInv, Line1Inv
    <3> QED BY <2>1, <2>2, <2>5, <3>1, <3>2, <3>3, <3>4, <3>5 DEF Line1Inv
  <2>9. \A i \in 1..Len(line2) : line2[i] # r /\ pc'[line2[i]] = pc[line2[i]]
    BY <1>1, <2>3, LineFacts DEF AtSocket
  <2>10. Line2Inv'
    <3>1. \A q \in Requests : pc'[q] \in {"wait2", "sent", "sending"} \cup AtSocket => pc'[q] = pc[q]
      BY <2>3 DEF AtSocket
    <3> QED BY <2>1, <2>9, <3>1, LineFacts DEF HttpInv, Line2Inv, AtSocket
  <2>11. TypeInv'
    <3>1. pc' \in [Requests -> Places]
      BY <2>1 DEF Goto, HttpInv, TypeInv, Places
    <3> QED BY <2>1, <2>4, <2>5, <3>1 DEF HttpInv, TypeInv
  <2>12. SendInv'
    BY <1>1, <2>3, <2>4 DEF HttpInv, SendInv, Requests
  <2>13. WireInv' /\ MineInv'
    BY <2>3, <2>4 DEF HttpInv, WireInv, OneOrigin, MineInv
  <2>14. SentCancelled' <=> SentCancelled
    BY <1>1, <2>3, <2>4 DEF SentCancelled
  <2>15. OrderInv'
    <3> SUFFICES ASSUME ~SentCancelled, NEW k \in 1..Len(conn.wire)
                 PROVE  pc'[conn.wire[k]] = pc[conn.wire[k]]
      BY <2>1, <2>4, <2>14 DEF HttpInv, OrderInv
    <3> QED BY <1>1, <2>3, LineFacts DEF HttpInv, OrderInv
  <2>16. ReaderInv'
    BY <2>3, <2>4, <2>14 DEF HttpInv, ReaderInv, Strayed
  <2> QED BY <2>8, <2>10, <2>11, <2>12, <2>13, <2>15, <2>16 DEF HttpInv
<1> QED BY <1>2, <1>3

\* The first of the first line enters.
LEMMA Enter1Step ==
    ASSUME HttpInv, ~barged', NEW r \in Requests, Enter1(r) PROVE HttpInv'
<1>1. r = line1[1] /\ pc[r] = "wait1" /\ ~inside1 /\ HasMut1(r)
  BY DEF Enter1, Pending
<1> QED BY <1>1, HasMut1Step

\* Who waits for mut2 unsent holds mut1, so nobody is behind it.
LEMMA Enter2UnsentStep ==
    ASSUME HttpInv, NEW r \in Requests, Enter2Unsent(r) PROVE HttpInv'
<1>1. /\ line2 # <<>> /\ ~inside2 /\ r = line2[1]
      /\ inside2' = TRUE /\ line2' = line2 /\ due' = FALSE /\ beside' = {}
  BY DEF Enter2Unsent, Enter2, Due2, Pending, HttpInv, Line2Inv
<1>2. pc[r] = "wait2" /\ HasBoth(r) /\ 1 \in 1..Len(line2)
  BY <1>1, LineFacts DEF Enter2Unsent
<1>3. inside1 /\ line1[1] = r /\ line2[Len(line2)] = r
  BY <1>1, <1>2 DEF HttpInv, Line1Inv
<1>4. Len(line2) = 1
  <2>1. Len(line2) \in 1..Len(line2) /\ line2[1] = line2[Len(line2)]
    BY <1>1, <1>2, <1>3, LineFacts
  <2> QED BY <1>2, <2>1 DEF HttpInv, Line2Inv, Distinct
<1>5. line2' = <<r>>
  <2>1. <<r>> \in Seq(Requests) /\ Len(<<r>>) = 1 /\ <<r>>[1] = r
    BY <1>2
  <2>2. \A i \in 1..Len(line2) : line2[i] = <<r>>[i]
    BY <1>1, <1>4, <2>1
  <2> QED BY <1>1, <1>4, <2>1, <2>2, LineFacts, SeqEqual
<1>6. \A q \in Requests : pc[q] \in {"wait2", "sent", "sending"} \cup AtSocket => q = r
  BY <1>1, <1>4 DEF HttpInv, Line2Inv, Contains, AtSocket
<1> QED BY <1>1, <1>2, <1>3, <1>5, <1>6, BothStep

-----------------------------------------------------------------------------
(* The invariant, and what follows.                                        *)

\* Before the first request the invariant holds.
LEMMA HttpInit ==
    ASSUME Init PROVE HttpInv
<1>1. /\ line1 = <<>> /\ inside1 = FALSE /\ line2 = <<>> /\ inside2 = FALSE
      /\ due = FALSE /\ beside = {}
      /\ \A r \in Requests : pc[r] = "idle" /\ outcome[r] = "none" /\ sends[r] = 0
      /\ conn.wire = <<>> /\ conn.closed = TRUE /\ http.sock = FALSE
  BY DEF Init, Dead
<1>2. Len(conn.wire) = 0 /\ Len(line1) = 0 /\ Len(line2) = 0
  BY <1>1, EmptySeq
<1>3. TypeInv
  <2>1. line1 \in Seq(Requests) /\ line2 \in Seq(Requests)
    BY <1>1, EmptySeq
  <2>2. http \in Sockets
    BY DEF Init, Sockets
  <2>3. conn \in Connections
    BY DEF Init, Connections, Dead
  <2>4. mine \in [Requests -> [gen : Nat, expect : Nat]]
    BY DEF Init, Unset
  <2>5. pc \in [Requests -> Places] /\ outcome \in [Requests -> {"none", "unsent", "error", "cut", "ok"}]
    BY DEF Init, Places
  <2>6. retry \in [Requests -> BOOLEAN] /\ got \in [Requests -> Requests \cup {None}]
        /\ sends \in [Requests -> Nat]
    BY DEF Init
  <2> QED BY <1>1, <2>1, <2>2, <2>3, <2>4, <2>5, <2>6 DEF TypeInv
<1>4. Line1Inv /\ Line2Inv
  BY <1>1, <1>2 DEF Line1Inv, Line2Inv, Distinct
<1>5. SendInv
  BY <1>1 DEF SendInv, Requests
<1>6. WireInv /\ MineInv /\ OrderInv /\ ReaderInv
  BY <1>1, <1>2 DEF WireInv, OneOrigin, MineInv, OrderInv, ReaderInv
<1> QED BY <1>3, <1>4, <1>5, <1>6 DEF HttpInv

\* Every step keeps it.
LEMMA HttpStep ==
    ASSUME HttpInv, ~barged', [Next]_vars PROVE HttpInv'
<1>1. ASSUME NEW r \in Requests, Arrive(r) PROVE HttpInv'
  BY <1>1, ArriveStep
<1>2. ASSUME NEW r \in Requests, Cancel(r) PROVE HttpInv'
  BY <1>2, CancelStep
<1>3. ASSUME NEW r \in Requests, Step(r) PROVE HttpInv'
  <2>1. CASE Connected(r)
    BY <2>1, ConnectedStep
  <2>2. CASE ConnectFails(r)
    <3>1. pc[r] = "connect"
      BY <2>2 DEF ConnectFails, Replaces, HttpInv, TypeInv, Places
    <3> QED BY <2>2, <3>1, ErrorStep DEF ConnectFails
  <2>3. CASE NoStatus(r)
    BY <2>3, NoStatusStep
  <2>4. CASE Status(r)
    BY <2>4, StatusStep
  <2>5. CASE BadAnswer(r)
    BY <2>5, ErrorStep DEF BadAnswer
  <2>6. CASE Body(r)
    BY <2>6, BodyStep
  <2>7. CASE CutBody(r)
    BY <2>7, CutBodyStep
  <2>8. CASE Unlock(r)
    BY <2>8, UnlockStep
  <2>9. CASE Sending(r)
    BY <2>9, SendingStep
  <2>10. ~SendFailed(r)
    BY DEF SendFailed, HttpInv, TypeInv, Places
  <2>11. ~Replace(r)
    <3> SUFFICES ASSUME pc[r] = "connect", NEW q \in Requests, pc[q] \in {"status", "body"}
                 PROVE  FALSE
      BY DEF Replace, Reader
    <3> QED BY OneHolder DEF AtSocket
  <2>12. CASE Enter1(r) \/ Enter2Unsent(r) \/ Enter2Sent(r)
    BY <2>12, Enter1Step, Enter2UnsentStep, Enter2SentStep
  <2> QED BY <1>3, <2>1, <2>2, <2>3, <2>4, <2>5, <2>6, <2>7, <2>8, <2>9, <2>10, <2>11, <2>12 DEF Step
<1>5. CASE KeepaliveEnds
  BY <1>5, KeepaliveStep
<1>6. CASE ServerCloses
  BY <1>6, ClosesStep
<1>7. CASE UNCHANGED vars
  BY <1>7 DEF vars, mutexes, mutex1, mutex2, HttpInv, TypeInv, Line1Inv, Line2Inv, SendInv,
              WireInv, OneOrigin, MineInv, OrderInv, SentCancelled, ReaderInv, Strayed,
              Distinct, Contains
<1> QED BY <1>1, <1>2, <1>3, <1>5, <1>6, <1>7 DEF Next

\* Whether somebody took mut2 past a request that waits is never forgotten.
LEMMA BargedStep ==
    ASSUME barged \in BOOLEAN, [Next]_vars
    PROVE  barged' \in BOOLEAN /\ (~barged' => ~barged)
<1>1. CASE UNCHANGED mutex2
  BY <1>1 DEF mutex2
<1>2. ASSUME NEW r \in Requests, Join2(r) \/ Leave2(r) \/ Enter2(r) \/ Sending(r)
      PROVE  barged' \in BOOLEAN /\ (~barged' => ~barged)
  BY <1>2 DEF Join2, Leave2, Enter2, Sending, mutex2
<1>3. ASSUME NEW r \in Requests, HasMut1(r)
      PROVE  (\E q \in Requests : Join2(q)) \/ UNCHANGED barged
  BY <1>3 DEF HasMut1, Pipeline, Serialise
<1>4. ASSUME NEW r \in Requests, Arrive(r) \/ Enter1(r)
      PROVE  barged' \in BOOLEAN /\ (~barged' => ~barged)
  <2>1. HasMut1(r) \/ UNCHANGED mutex2
    BY <1>4 DEF Arrive, Enter1
  <2> QED BY <1>1, <1>2, <1>3, <2>1
<1>5. ASSUME NEW r \in Requests, Enter2Unsent(r) \/ Enter2Sent(r) \/ Unlock(r) \/ Cancel(r)
      PROVE  barged' \in BOOLEAN /\ (~barged' => ~barged)
  BY <1>2, <1>5 DEF Enter2Unsent, Enter2Sent, Unlock, Cancel
<1>6. ASSUME NEW r \in Requests,
             SendFailed(r) \/ Replace(r) \/ Connected(r) \/ ConnectFails(r) \/ NoStatus(r)
             \/ Status(r) \/ BadAnswer(r) \/ Body(r) \/ CutBody(r)
      PROVE  UNCHANGED mutex2
  BY <1>6 DEF SendFailed, Replace, Connected, ConnectFails, NoStatus, Status, BadAnswer, Body,
              CutBody, SetError, Answer, mutexes
<1>7. ASSUME KeepaliveEnds \/ ServerCloses \/ UNCHANGED vars PROVE UNCHANGED mutex2
  BY <1>7 DEF KeepaliveEnds, ServerCloses, vars, mutexes
<1> QED BY <1>1, <1>2, <1>4, <1>5, <1>6, <1>7 DEF Next, Step

\* r goes on to p, with these values of what it remembers.
Moves(r, p, t, o, n) ==
    /\ p \in AllPlaces /\ (Goto(r, p) \/ pc' = [q \in Requests |-> "aborted"])
    /\ t \in BOOLEAN /\ retry' = [retry EXCEPT ![r] = t]
    /\ o \in {"none", "unsent", "error", "cut", "ok"} /\ outcome' = [outcome EXCEPT ![r] = o]
    /\ n \in Nat /\ sends' = [sends EXCEPT ![r] = n]
    /\ Allowed(r, p, t, o, n)

\* A request that moves on, or ends the program, and the others, which stay.
LEMMA MoveStep ==
    ASSUME RequestsInv, NEW r \in Requests, NEW p, NEW t, NEW o, NEW n, Moves(r, p, t, o, n)
    PROVE  RequestsInv'
<1>0. /\ p \in AllPlaces /\ (Goto(r, p) \/ pc' = [q \in Requests |-> "aborted"])
      /\ t \in BOOLEAN /\ retry' = [retry EXCEPT ![r] = t]
      /\ o \in {"none", "unsent", "error", "cut", "ok"} /\ outcome' = [outcome EXCEPT ![r] = o]
      /\ n \in Nat /\ sends' = [sends EXCEPT ![r] = n]
      /\ Allowed(r, p, t, o, n)
  BY DEF Moves
<1>1. /\ retry' \in [Requests -> BOOLEAN] /\ sends' \in [Requests -> Nat]
      /\ outcome' \in [Requests -> {"none", "unsent", "error", "cut", "ok"}]
      /\ \A q \in Requests : /\ retry'[q] = IF q = r THEN t ELSE retry[q]
                             /\ outcome'[q] = IF q = r THEN o ELSE outcome[q]
                             /\ sends'[q] = IF q = r THEN n ELSE sends[q]
  BY <1>0 DEF RequestsInv
<1>2. /\ pc' \in [Requests -> AllPlaces]
      /\ \A q \in Requests : pc'[q] = "aborted" \/ pc'[q] = IF q = r THEN p ELSE pc[q]
  BY <1>0 DEF RequestsInv, Goto, AllPlaces
<1>3. ASSUME NEW q \in Requests
      PROVE  Allowed(q, pc'[q], retry'[q], outcome'[q], sends'[q])
  <2>1. Allowed(q, pc[q], retry[q], outcome[q], sends[q])
    BY DEF RequestsInv
  <2>2. CASE q = r
    BY <1>0, <1>1, <1>2, <2>2 DEF Allowed
  <2>3. CASE q # r
    BY <1>1, <1>2, <2>1, <2>3 DEF Allowed
  <2> QED BY <2>2, <2>3
<1> QED BY <1>1, <1>2, <1>3 DEF RequestsInv

\* Of a request that moves on without being sent, nothing else changes.
LEMMA GoStep ==
    ASSUME RequestsInv, NEW r \in Requests,
           NEW p \in AllPlaces, Goto(r, p) \/ pc' = [q \in Requests |-> "aborted"],
           UNCHANGED <<retry, outcome, sends>>,
           Allowed(r, p, retry[r], outcome[r], sends[r])
    PROVE  RequestsInv'
<1>1. /\ pc' \in [Requests -> AllPlaces]
      /\ \A q \in Requests : pc'[q] = "aborted" \/ pc'[q] = IF q = r THEN p ELSE pc[q]
  BY DEF RequestsInv, Goto, AllPlaces
<1>2. ASSUME NEW q \in Requests
      PROVE  Allowed(q, pc'[q], retry[q], outcome[q], sends[q])
  <2>1. Allowed(q, pc[q], retry[q], outcome[q], sends[q])
    BY DEF RequestsInv
  <2>2. CASE q = r
    BY <1>1, <2>2 DEF Allowed
  <2>3. CASE q # r
    BY <1>1, <2>1, <2>3 DEF Allowed
  <2> QED BY <2>2, <2>3
<1> QED BY <1>1, <1>2 DEF RequestsInv

\* What request() returned is fit for a request that could be sent once.
LEMMA AnswerStep ==
    ASSUME RequestsInv, NEW r \in Requests,
           NEW what \in {"unsent", "error", "cut", "ok"}, Answer(r, what),
           what = "unsent" => pc[r] \in {"connect", "replacing"}
    PROVE  RequestsInv'
<1>1. /\ retry' = [retry EXCEPT ![r] = retry[r]]
      /\ sends' = [sends EXCEPT ![r] = sends[r]]
      /\ retry[r] \in BOOLEAN /\ sends[r] \in Nat
      /\ Goto(r, "returning") /\ outcome' = [outcome EXCEPT ![r] = what]
      /\ "returning" \in AllPlaces /\ what \in {"none", "unsent", "error", "cut", "ok"}
  BY DEF Answer, RequestsInv, AllPlaces, Places
<1>2. Allowed(r, "returning", retry[r], what, sends[r])
  BY DEF RequestsInv, Allowed
<1>3. Moves(r, "returning", retry[r], what, sends[r])
  BY <1>1, <1>2 DEF Moves
<1> QED BY <1>3, MoveStep

\* With both mutexes held the request is sent, once, or not at all.
LEMMA BothSends ==
    ASSUME RequestsInv, NEW r \in Requests, HasBoth(r), pc[r] \in {"idle", "wait1", "wait2"}
    PROVE  RequestsInv'
<1>1. Allowed(r, pc[r], retry[r], outcome[r], sends[r]) /\ sends[r] \in Nat
  BY DEF RequestsInv
<1>2. CASE CanKeepalive(r)
  <2>1. PICK n : n = sends[r] + 1
    OBVIOUS
  <2>2. PICK p \in {"status", "failing"} :
           Goto(r, p) \/ pc' = [q \in Requests |-> "aborted"]
    BY <1>2 DEF HasBoth, Read
  <2>3. /\ retry' = [retry EXCEPT ![r] = FALSE] /\ sends' = [sends EXCEPT ![r] = n]
        /\ outcome' = [outcome EXCEPT ![r] = outcome[r]]
        /\ outcome[r] \in {"none", "unsent", "error", "cut", "ok"}
    BY <1>2, <2>1 DEF HasBoth, RequestsInv
  <2>4. n \in Nat /\ p \in AllPlaces /\ FALSE \in BOOLEAN
    BY <1>1, <2>1 DEF AllPlaces, Places
  <2>5. Allowed(r, p, FALSE, outcome[r], n)
    BY <1>1, <2>1 DEF Allowed
  <2>6. Moves(r, p, FALSE, outcome[r], n)
    BY <2>2, <2>3, <2>4, <2>5 DEF Moves
  <2> QED BY <2>6, MoveStep
<1>3. CASE ~CanKeepalive(r)
  <2>1. Goto(r, "connect") /\ UNCHANGED <<retry, outcome, sends>> /\ "connect" \in AllPlaces
    BY <1>3 DEF HasBoth, locals, AllPlaces, Places
  <2>2. Allowed(r, "connect", retry[r], outcome[r], sends[r])
    BY <1>1 DEF Allowed
  <2> QED BY <2>1, <2>2, GoStep
<1> QED BY <1>2, <1>3

\* So is a request past mut1.
LEMMA Mut1Sends ==
    ASSUME RequestsInv, NEW r \in Requests, HasMut1(r), pc[r] \in {"idle", "wait1"}
    PROVE  RequestsInv'
<1>1. Allowed(r, pc[r], retry[r], outcome[r], sends[r]) /\ sends[r] \in Nat
  BY DEF RequestsInv
<1>2. CASE Pipeline(r)
  <2>1. PICK n : n = sends[r] + 1
    OBVIOUS
  <2>2. PICK p \in {"sending", "sent", "status", "connect"} :
           Goto(r, p) \/ pc' = [q \in Requests |-> "aborted"]
    BY <1>2 DEF Pipeline, TakesUp, Read
  <2>3. /\ sends' = [sends EXCEPT ![r] = n]
        /\ retry' = [retry EXCEPT ![r] = retry[r]]
        /\ outcome' = [outcome EXCEPT ![r] = outcome[r]]
        /\ retry[r] \in BOOLEAN /\ outcome[r] \in {"none", "unsent", "error", "cut", "ok"}
    BY <1>2, <2>1 DEF Pipeline, RequestsInv
  <2>4. n \in Nat /\ p \in AllPlaces
    BY <1>1, <2>1 DEF AllPlaces, Places
  <2>5. r \notin Posts
    BY <1>2, RequestsOK DEF Pipeline, CanPipeline, RequestsOK
  <2>6. Allowed(r, p, retry[r], outcome[r], n)
    BY <1>1, <2>5 DEF Allowed
  <2>7. Moves(r, p, retry[r], outcome[r], n)
    BY <2>2, <2>3, <2>4, <2>6 DEF Moves
  <2> QED BY <2>7, MoveStep
<1>3. CASE Serialise(r) /\ HasBoth(r)
  BY <1>3, BothSends
<1>4. CASE Serialise(r) /\ ~HasBoth(r)
  <2>1. Goto(r, "wait2") /\ UNCHANGED <<retry, outcome, sends>> /\ "wait2" \in AllPlaces
    BY <1>4 DEF Serialise, locals, AllPlaces, Places
  <2>2. Allowed(r, "wait2", retry[r], outcome[r], sends[r])
    BY <1>1 DEF Allowed
  <2> QED BY <2>1, <2>2, GoStep
<1> QED BY <1>2, <1>3, <1>4 DEF HasMut1

\* Whoever holds mut2 beside it, a request that must not be repeated is not.
LEMMA RequestsStep ==
    ASSUME RequestsInv, [Next]_vars PROVE RequestsInv'
<1>1. ASSUME NEW r \in Requests PROVE Allowed(r, pc[r], retry[r], outcome[r], sends[r])
  BY DEF RequestsInv
<1>2. ASSUME NEW r \in Requests, NEW p \in AllPlaces,
             Goto(r, p) \/ pc' = [q \in Requests |-> "aborted"],
             UNCHANGED <<retry, outcome, sends>>,
             Allowed(r, pc[r], retry[r], outcome[r], sends[r])
             => Allowed(r, p, retry[r], outcome[r], sends[r])
      PROVE  RequestsInv'
  BY <1>1, <1>2, GoStep
<1>3. ASSUME NEW r \in Requests, Arrive(r) \/ Enter1(r) PROVE RequestsInv'
  <2>1. CASE HasMut1(r)
    BY <1>3, <2>1, Mut1Sends DEF Arrive, Enter1
  <2>2. CASE ~HasMut1(r)
    <3>1. pc[r] = "idle" /\ Goto(r, "wait1") /\ UNCHANGED <<retry, outcome, sends>>
      BY <1>3, <2>2 DEF Arrive, Enter1, locals
    <3> QED BY <1>2, <3>1 DEF AllPlaces, Places, Allowed
  <2> QED BY <2>1, <2>2
<1>4. ASSUME NEW r \in Requests, Enter2Unsent(r) PROVE RequestsInv'
  BY <1>4, BothSends DEF Enter2Unsent
<1>5. ASSUME NEW r \in Requests, Enter2Sent(r) \/ Sending(r) PROVE RequestsInv'
  <2>1. pc[r] \in {"sent", "sending"} /\ UNCHANGED <<retry, outcome, sends>>
    BY <1>5 DEF Enter2Sent, Sending
  <2>2. PICK p \in {"sent", "status", "connect"} :
           Goto(r, p) \/ pc' = [q \in Requests |-> "aborted"]
    BY <1>5 DEF Enter2Sent, Sending, TakesUp, Read
  <2>3. p \in AllPlaces
    BY DEF AllPlaces, Places
  <2>4. r \notin Posts
    BY <1>1, <2>1 DEF Allowed
  <2> QED BY <1>2, <2>1, <2>2, <2>3, <2>4 DEF Allowed
<1>6. ASSUME NEW r \in Requests, Replace(r) \/ Status(r) \/ Unlock(r) PROVE RequestsInv'
  <2>1. PICK p \in {"replacing", "body", "done"} :
           /\ Goto(r, p) /\ UNCHANGED <<retry, outcome, sends>>
           /\ p = "replacing" => pc[r] = "connect"
           /\ p = "body" => pc[r] = "status"
    BY <1>6 DEF Replace, Status, Unlock, locals
  <2>2. p = "done" => pc[r] = "returning"
    BY <1>6, <2>1 DEF Replace, Status, Unlock, Goto, RequestsInv
  <2>3. p \in AllPlaces
    BY DEF AllPlaces, Places
  <2> QED BY <1>2, <2>1, <2>2, <2>3 DEF Allowed
<1>7. ASSUME NEW r \in Requests, Connected(r) PROVE RequestsInv'
  <2>1. PICK n : n = sends[r] + 1
    OBVIOUS
  <2>2. /\ Goto(r, "status") /\ sends' = [sends EXCEPT ![r] = n]
        /\ retry' = [retry EXCEPT ![r] = FALSE]
        /\ outcome' = [outcome EXCEPT ![r] = outcome[r]]
        /\ outcome[r] \in {"none", "unsent", "error", "cut", "ok"}
        /\ sends[r] \in Nat /\ n \in Nat /\ pc[r] \in {"connect", "replacing"}
    BY <1>7, <2>1 DEF Connected, Replaces, RequestsInv
  <2>3. "status" \in AllPlaces /\ FALSE \in BOOLEAN
    BY DEF AllPlaces, Places
  <2>4. Allowed(r, "status", FALSE, outcome[r], n)
    BY <1>1, <2>1, <2>2 DEF Allowed
  <2>5. Moves(r, "status", FALSE, outcome[r], n)
    BY <2>2, <2>3, <2>4 DEF Moves
  <2> QED BY <2>5, MoveStep
<1>8. ASSUME NEW r \in Requests,
             SendFailed(r) \/ ConnectFails(r) \/ BadAnswer(r) \/ Body(r) \/ CutBody(r)
      PROVE  RequestsInv'
  <2>1. PICK what \in {"unsent", "error", "cut", "ok"} :
           Answer(r, what) /\ (what = "unsent" => pc[r] \in {"connect", "replacing"})
    BY <1>8 DEF SendFailed, ConnectFails, Replaces, BadAnswer, Body, CutBody, SetError
  <2> QED BY <2>1, AnswerStep
<1>9. ASSUME NEW r \in Requests, NoStatus(r) PROVE RequestsInv'
  <2>1. CASE retry[r]
    <3>1. Goto(r, "connect") /\ UNCHANGED <<retry, outcome, sends>> /\ pc[r] = "status"
      BY <1>9, <2>1 DEF NoStatus, locals
    <3>2. "connect" \in AllPlaces
      BY DEF AllPlaces, Places
    <3>3. r \notin Posts
      BY <1>1, <2>1, <3>1 DEF Allowed
    <3> QED BY <1>2, <3>1, <3>2, <3>3 DEF Allowed
  <2>2. CASE ~retry[r]
    <3>1. Answer(r, "error")
      BY <1>9, <2>2 DEF NoStatus, SetError
    <3>2. "error" \in {"unsent", "error", "cut", "ok"}
      OBVIOUS
    <3> QED BY <3>1, <3>2, AnswerStep
  <2> QED BY <2>1, <2>2
<1>10. ASSUME NEW r \in Requests, Cancel(r) PROVE RequestsInv'
  <2>1. /\ Goto(r, "cancelled") /\ retry' = [retry EXCEPT ![r] = TRUE]
        /\ outcome' = [outcome EXCEPT ![r] = outcome[r]]
        /\ sends' = [sends EXCEPT ![r] = sends[r]]
        /\ outcome[r] \in {"none", "unsent", "error", "cut", "ok"} /\ sends[r] \in Nat
        /\ pc[r] \in {"wait1", "wait2", "sent", "connect", "status", "body"}
    BY <1>10 DEF Cancel, RequestsInv
  <2>2. "cancelled" \in AllPlaces /\ TRUE \in BOOLEAN
    BY DEF AllPlaces, Places
  <2>3. Allowed(r, "cancelled", TRUE, outcome[r], sends[r])
    BY <1>1, <2>1 DEF Allowed
  <2>4. Moves(r, "cancelled", TRUE, outcome[r], sends[r])
    BY <2>1, <2>2, <2>3 DEF Moves
  <2> QED BY <2>4, MoveStep
<1>11. ASSUME KeepaliveEnds \/ ServerCloses \/ UNCHANGED vars PROVE RequestsInv'
  BY <1>11 DEF KeepaliveEnds, ServerCloses, vars, locals, RequestsInv, Allowed
<1> QED BY <1>3, <1>4, <1>5, <1>6, <1>7, <1>8, <1>9, <1>10, <1>11 DEF Next, Step

\* On the wire is what was there, or a request for the origin of the socket.
LEMMA WireStep ==
    ASSUME SocketInv, far' = far, http' \in Sockets, conn' \in Connections,
           \/ conn' = Dead
           \/ /\ http'.elsewhere = http.elsewhere
              /\ \A k \in 1..Len(conn'.wire) :
                    \/ \E j \in 1..Len(conn.wire) : conn'.wire[k] = conn.wire[j]
                    \/ (conn'.wire[k] \in far) = http.elsewhere
    PROVE  SocketInv'
<1>1. CASE conn' = Dead
  BY <1>1 DEF SocketInv, OneOrigin, Dead
<1>2. CASE conn' # Dead
  BY <1>2 DEF SocketInv, OneOrigin
<1> QED BY <1>1, <1>2

\* A socket that is dropped, or that a request is sent over.
LEMMA DropWire ==
    ASSUME SocketInv, far' = far, http' \in Sockets, conn' = Dead PROVE SocketInv'
<1>1. conn' \in Connections
  BY DEF Dead, Connections
<1> QED BY <1>1, WireStep

LEMMA SendWire ==
    ASSUME SocketInv, far' = far, NEW r \in Requests, CanKeepalive(r),
           http' \in Sockets, http'.elsewhere = http.elsewhere, conn' = Sent(conn, r)
    PROVE  SocketInv'
<1>1. http.elsewhere = (r \in far)
  BY DEF CanKeepalive
<1>2. PICK d : d = Sent(conn, r)
  OBVIOUS
<1>3. conn \in Connections
  BY DEF SocketInv
<1>4. /\ d \in Connections /\ conn.wire \in Seq(Requests) /\ Len(conn.wire) \in Nat
      /\ \A k \in 1..Len(d.wire) : (k \in 1..Len(conn.wire) /\ d.wire[k] = conn.wire[k]) \/ d.wire[k] = r
  <2>1. /\ d \in Connections /\ d.closed = conn.closed
        /\ conn.closed => d.wire = conn.wire
        /\ Len(conn.wire) \in Nat
        /\ ~conn.closed => /\ Len(d.wire) = Len(conn.wire) + 1 /\ d.wire # <<>>
                           /\ d.wire[Len(conn.wire) + 1] = r
                           /\ \A k \in 1..Len(conn.wire) : d.wire[k] = conn.wire[k]
    BY <1>2, <1>3, SentFacts
  <2>2. conn.wire \in Seq(Requests)
    BY <1>3 DEF Connections
  <2> QED BY <2>1, <2>2
<1> QED BY <1>1, <1>2, <1>4, WireStep

\* Whoever holds mut2 beside it, a request goes to the server it is for.
LEMMA SocketStep ==
    ASSUME SocketInv, [Next]_vars PROVE SocketInv'
<1>1. http \in Sockets /\ conn \in Connections
  BY DEF SocketInv
<1>2. PICK dropped : dropped = [http EXCEPT !.sock = FALSE]
  OBVIOUS
<1>3. dropped \in Sockets
  BY <1>1, <1>2, DroppedSocket
<1>4. CASE UNCHANGED <<far, http, conn>>
  BY <1>4 DEF SocketInv, OneOrigin
<1>5. ASSUME NEW r \in Requests, HasBoth(r) PROVE SocketInv'
  <2>1. CASE CanKeepalive(r) /\ conn' = Sent(conn, r) /\ http' = [http EXCEPT !.sent = @ + 1]
    <3>1. http' \in Sockets /\ http'.elsewhere = http.elsewhere
      BY <1>1, <2>1, SentSocket
    <3> QED BY <1>5, <2>1, <3>1, SendWire DEF HasBoth
  <2>2. CASE conn' = Dead /\ http' = [http EXCEPT !.sent = @ + 1, !.sock = FALSE]
    <3>1. PICK n : n = http.sent + 1
      OBVIOUS
    <3>2. n \in Nat
      BY <1>1, <3>1, SocketFacts
    <3>3. http' = [http EXCEPT !.sent = n, !.sock = FALSE]
      BY <2>2, <3>1, Zenon
    <3>4. http' \in Sockets
      BY <1>1, <3>2, <3>3 DEF Sockets
    <3> QED BY <1>5, <2>2, <3>4, DropWire DEF HasBoth, locals
  <2>3. CASE ~CanKeepalive(r)
    BY <1>4, <1>5, <2>3 DEF HasBoth, locals
  <2> QED BY <1>5, <2>1, <2>2, <2>3 DEF HasBoth
<1>6. ASSUME NEW r \in Requests, Pipeline(r) PROVE SocketInv'
  <2>1. PICK alive \in BOOLEAN :
           /\ http' = [http EXCEPT !.sent = @ + 1, !.sock = alive]
           /\ conn' = IF alive THEN Sent(conn, r) ELSE Dead
    BY <1>6 DEF Pipeline
  <2>2. PICK n : n = http.sent + 1
    OBVIOUS
  <2>3. n \in Nat
    BY <1>1, <2>2, SocketFacts
  <2>4. http' = [http EXCEPT !.sent = n, !.sock = alive]
    BY <2>1, <2>2, Zenon
  <2>5. http' \in Sockets /\ http'.elsewhere = http.elsewhere
    BY <1>1, <2>3, <2>4 DEF Sockets
  <2>6. CanKeepalive(r) /\ far' = far
    BY <1>6 DEF Pipeline, CanPipeline
  <2> QED BY <2>1, <2>5, <2>6, SendWire, DropWire
<1>7. ASSUME NEW r \in Requests, HasMut1(r) PROVE SocketInv'
  BY <1>4, <1>5, <1>6, <1>7 DEF HasMut1, Serialise, locals
<1>8. ASSUME NEW r \in Requests, Arrive(r) \/ Enter1(r) \/ Enter2Unsent(r) PROVE SocketInv'
  BY <1>4, <1>5, <1>7, <1>8 DEF Arrive, Enter1, Enter2Unsent, locals
<1>9. ASSUME NEW r \in Requests, Enter2Sent(r) \/ Sending(r) \/ Status(r) \/ Unlock(r)
      PROVE  SocketInv'
  BY <1>4, <1>9 DEF Enter2Sent, Sending, Status, Unlock, locals
<1>10. ASSUME far' = far, http' = [http EXCEPT !.sock = FALSE], conn' = Dead PROVE SocketInv'
  BY <1>2, <1>3, <1>10, DropWire
<1>11. ASSUME NEW r \in Requests,
              SendFailed(r) \/ Replace(r) \/ ConnectFails(r) \/ NoStatus(r) \/ BadAnswer(r)
       PROVE  SocketInv'
  <2>1. far' = far /\ http' = [http EXCEPT !.sock = FALSE] /\ conn' = Dead
    BY <1>11 DEF SendFailed, Replace, ConnectFails, NoStatus, BadAnswer, SetError, Answer, locals
  <2> QED BY <1>10, <2>1
<1>12. ASSUME NEW r \in Requests, CutBody(r) PROVE SocketInv'
  <2>1. CASE SetError(r, "error")
    BY <1>10, <2>1 DEF SetError, Answer
  <2>2. CASE ~SetError(r, "error")
    <3>1. /\ far' = far /\ conn' = Dead
          /\ http' = [http EXCEPT !.sock = FALSE, !.received = @ + 1, !.fresh = TRUE]
      BY <1>12, <2>2 DEF CutBody, Answer
    <3>2. http' \in Sockets
      BY <1>1, <3>1, CutSocket
    <3> QED BY <3>1, <3>2, DropWire
  <2> QED BY <2>1, <2>2
<1>13. ASSUME NEW r \in Requests, Connected(r) PROVE SocketInv'
  <2>1. /\ far' = far /\ conn' \in Connections /\ http' \in Sockets
        /\ conn'.wire = <<r>> /\ http'.elsewhere = (r \in far)
    <3>1. http.gen + 1 \in Nat
      BY <1>1, SocketFacts
    <3> QED BY <1>13, <3>1 DEF Connected, Connections, Sockets
  <2>2. \A k \in 1..Len(conn'.wire) : conn'.wire[k] = r
    BY <2>1
  <2> QED BY <2>1, <2>2 DEF SocketInv, OneOrigin
<1>14. ASSUME NEW r \in Requests, Body(r) PROVE SocketInv'
  <2>1. http' \in Sockets /\ http'.elsewhere = http.elsewhere /\ far' = far
    BY <1>1, <1>14, ReadSocket DEF Body, Answer
  <2>2. PICK w : w = Tail(conn.wire)
    OBVIOUS
  <2>3. conn.wire # <<>> /\ conn.wire \in Seq(Requests)
    BY <1>1, <1>14 DEF Body, Connections
  <2>4. w \in Seq(Requests) /\ \A k \in 1..Len(w) : k + 1 \in 1..Len(conn.wire) /\ w[k] = conn.wire[k + 1]
    BY <2>2, <2>3, TailFacts
  <2>5. conn' = [conn EXCEPT !.wire = w]
    BY <1>14, <2>2, Zenon DEF Body
  <2>6. conn' \in Connections /\ conn'.wire = w
    BY <1>1, <2>4, <2>5 DEF Connections
  <2>7. \A k \in 1..Len(conn'.wire) : \E j \in 1..Len(conn.wire) : conn'.wire[k] = conn.wire[j]
    BY <2>4, <2>6
  <2> QED BY <2>1, <2>6, <2>7, WireStep
<1>15. ASSUME NEW r \in Requests, Cancel(r) PROVE SocketInv'
  <2>1. PICK t \in BOOLEAN : t = (conn.torn \/ pc[r] = "body")
    OBVIOUS
  <2>2. conn' = [conn EXCEPT !.torn = t] /\ far' = far /\ http' = http
    BY <1>15, <2>1, Zenon DEF Cancel
  <2>3. conn' \in Connections /\ conn'.wire = conn.wire
    BY <1>1, <2>2 DEF Connections
  <2> QED BY <2>2, <2>3 DEF SocketInv, OneOrigin
<1>16. ASSUME KeepaliveEnds PROVE SocketInv'
  <2>1. far' = far /\ conn' = conn /\ http' \in Sockets /\ http'.elsewhere = http.elsewhere
    BY <1>1, <1>16 DEF KeepaliveEnds, locals, Sockets
  <2> QED BY <2>1 DEF SocketInv, OneOrigin
<1>17. ASSUME ServerCloses PROVE SocketInv'
  <2>1. PICK k \in 0..Len(conn.wire), cut \in BOOLEAN :
           conn' = [conn EXCEPT !.closed = TRUE, !.cut = cut, !.wire = SubSeq(@, 1, k)]
    BY <1>17 DEF ServerCloses
  <2>2. PICK w : w = SubSeq(conn.wire, 1, k)
    OBVIOUS
  <2>3. conn.wire \in Seq(Requests)
    BY <1>1 DEF Connections
  <2>4. w \in Seq(Requests) /\ \A i \in 1..Len(w) : i \in 1..Len(conn.wire) /\ w[i] = conn.wire[i]
    BY <2>2, <2>3, SubSeqProperties
  <2>5. conn' = [conn EXCEPT !.closed = TRUE, !.cut = cut, !.wire = w]
    BY <2>1, <2>2, Zenon
  <2>6. conn' \in Connections /\ conn'.wire = w
    BY <1>1, <2>4, <2>5 DEF Connections
  <2>7. far' = far /\ http' = http
    BY <1>17 DEF ServerCloses, locals
  <2> QED BY <1>1, <2>4, <2>6, <2>7, WireStep
<1>18. CASE UNCHANGED vars
  BY <1>4, <1>18 DEF vars
<1> QED BY <1>8, <1>9, <1>11, <1>12, <1>13, <1>14, <1>15, <1>16, <1>17, <1>18 DEF Next, Step

\* What holds from the start, and whether mut2 was taken past somebody.
LEMMA SendsInit ==
    ASSUME Init PROVE RequestsInv /\ SocketInv /\ barged \in BOOLEAN
<1>1. RequestsInv
  BY DEF Init, RequestsInv, Allowed, AllPlaces, Places, Requests
<1>2. http \in Sockets
  BY DEF Init, Sockets
<1>3. conn \in Connections /\ conn.wire = <<>>
  BY DEF Init, Connections, Dead
<1>4. OneOrigin
  BY <1>3 DEF OneOrigin
<1> QED BY <1>1, <1>2, <1>3, <1>4 DEF Init, SocketInv

-----------------------------------------------------------------------------
(* Whoever reads is served, whoever holds mut2 beside it.                  *)

\* The connection goes on, is over, or is another one.
Flows ==
    \/ conn'.closed /\ http'.gen = http.gen
    \/ /\ ~conn.closed /\ ~conn'.closed /\ http'.gen = http.gen
       /\ http'.sock /\ http.sent <= http'.sent
       /\ http'.received + Len(conn'.wire) = http'.sent
    \/ /\ http'.gen = http.gen + 1 /\ http'.sock
       /\ http'.received + Len(conn'.wire) = http'.sent

\* The counters stay right, and so does what requests remember.
LEMMA FlowsOn ==
    ASSUME Flows, http \in Sockets, http' \in Sockets
    PROVE  /\ Counted'
           /\ \A m \in [gen : Nat, expect : Nat] : Remembers(m) => Remembers(m)'
<1>1. http.gen \in Nat /\ http'.gen \in Nat /\ http.sent \in Nat /\ http'.sent \in Nat
  BY SocketFacts
<1>2. Counted'
  BY DEF Flows, Counted
<1>3. ASSUME NEW m \in [gen : Nat, expect : Nat], Remembers(m) PROVE Remembers(m)'
  BY <1>1, <1>3 DEF Flows, Remembers
<1> QED BY <1>2, <1>3

\* A request is sent over the connection.
LEMMA SendFlows ==
    ASSUME SocketInv, Counted, NEW r \in Requests, conn' = Sent(conn, r),
           NEW n, n = http.sent + 1, http'.sent = n, http'.gen = http.gen,
           http'.received = http.received, http'.sock = http.sock
    PROVE  Flows /\ Fed'
<1>1. http.sent \in Nat /\ http.received \in Nat /\ conn \in Connections
  BY SocketFacts DEF SocketInv
<1>2. PICK d : d = Sent(conn, r)
  OBVIOUS
<1>3. /\ d.closed = conn.closed /\ Len(conn.wire) \in Nat
      /\ ~conn.closed => Len(d.wire) = Len(conn.wire) + 1 /\ d.wire # <<>>
  BY <1>1, <1>2, SentFacts
<1>4. conn' = d
  BY <1>2
<1> QED BY <1>1, <1>3, <1>4 DEF Flows, Fed, Counted

\* Nothing happens on it.
LEMMA StillFlows ==
    ASSUME SocketInv, Counted, conn'.wire = conn.wire, conn'.closed = conn.closed,
           http'.sent = http.sent, http'.gen = http.gen,
           http'.received = http.received, http'.sock = http.sock
    PROVE  Flows /\ (Fed => Fed')
<1>1. http.sent \in Nat
  BY SocketFacts DEF SocketInv
<1> QED BY <1>1 DEF Flows, Fed, Counted

\* It is gone.
LEMMA DeadFlows ==
    ASSUME conn' = Dead, http'.gen = http.gen PROVE Flows /\ Fed'
BY DEF Dead, Flows, Fed

\* So it is when a request takes both mutexes:
LEMMA BothFlows ==
    ASSUME SocketInv, Counted, NEW r \in Requests, HasBoth(r)
    PROVE  Flows /\ (CanKeepalive(r) \/ Fed => Fed')
<1>1. http \in Sockets
  BY DEF SocketInv
<1>2. CASE CanKeepalive(r) /\ conn' = Sent(conn, r) /\ http' = [http EXCEPT !.sent = @ + 1]
  <2>1. PICK n : n = http.sent + 1
    OBVIOUS
  <2>2. /\ http'.sent = n /\ http'.gen = http.gen
        /\ http'.received = http.received /\ http'.sock = http.sock
    BY <1>1, <1>2, <2>1, SentSocket
  <2> QED BY <1>2, <2>1, <2>2, SendFlows
<1>3. CASE conn' = Dead /\ http' = [http EXCEPT !.sent = @ + 1, !.sock = FALSE]
  <2>1. http'.gen = http.gen
    BY <1>1, <1>3 DEF Sockets
  <2> QED BY <1>3, <2>1, DeadFlows
<1>4. CASE ~CanKeepalive(r)
  <2>1. http' = http /\ conn' = conn
    BY <1>4 DEF HasBoth
  <2> QED BY <1>4, <2>1, StillFlows
<1> QED BY <1>2, <1>3, <1>4 DEF HasBoth

\* when it takes mut1 and is pipelined;
LEMMA PipelineFlows ==
    ASSUME SocketInv, Counted, NEW r \in Requests, Pipeline(r)
    PROVE  Flows /\ Fed'
<1>1. http \in Sockets
  BY DEF SocketInv
<1>2. PICK alive \in BOOLEAN :
         /\ http' = [http EXCEPT !.sent = @ + 1, !.sock = alive]
         /\ conn' = IF alive THEN Sent(conn, r) ELSE Dead
  BY DEF Pipeline
<1>3. PICK n : n = http.sent + 1
  OBVIOUS
<1>4. http' = [http EXCEPT !.sent = n, !.sock = alive]
  BY <1>2, <1>3, Zenon
<1>5. /\ http'.gen = http.gen /\ http'.sent = n
      /\ http'.received = http.received /\ http'.sock = alive
  BY <1>1, <1>4 DEF Sockets
<1>6. CASE alive
  <2>1. http.sock
    BY DEF Pipeline, CanPipeline, CanKeepalive
  <2>2. http.sock = TRUE
    BY <1>1, <2>1, SocketFacts
  <2>3. conn' = Sent(conn, r) /\ http'.sock = http.sock
    BY <1>2, <1>5, <1>6, <2>2
  <2> QED BY <1>3, <1>5, <2>3, SendFlows
<1>7. CASE ~alive
  BY <1>2, <1>5, <1>7, DeadFlows
<1> QED BY <1>6, <1>7

\* and when it takes mut1 in any way.
LEMMA Mut1Flows ==
    ASSUME SocketInv, Counted, NEW r \in Requests, HasMut1(r)
    PROVE  Flows /\ (Fed => Fed')
<1>1. CASE Pipeline(r)
  BY <1>1, PipelineFlows
<1>2. CASE HasBoth(r)
  BY <1>2, BothFlows
<1>3. CASE http' = http /\ conn' = conn
  BY <1>3, StillFlows
<1> QED BY <1>1, <1>2, <1>3 DEF HasMut1, Serialise

\* Who finds the counters as it remembers them finds its answer on the way.
LEMMA PairedFed ==
    ASSUME SocketInv, Counted, NEW m \in [gen : Nat, expect : Nat], Remembers(m), Paired(m, http)
    PROVE  Fed
<1>1. /\ http.gen \in Nat /\ http.sent \in Nat /\ http.received \in Nat
      /\ conn.wire \in Seq(Requests)
  BY SocketFacts DEF SocketInv, Connections
<1>2. m.gen = http.gen /\ m.expect = http.received
  BY DEF Paired
<1>3. ASSUME ~conn.closed PROVE Len(conn.wire) # 0
  BY <1>1, <1>2, <1>3 DEF Counted, Remembers
<1>4. conn.wire = <<>> => Len(conn.wire) = 0
  OBVIOUS
<1> QED BY <1>3, <1>4 DEF Fed

\* How r moves on, beside the others, if the program is not ended;
GoesOn(r) ==
    /\ \A q \in Requests \ {r} : pc'[q] = pc[q] /\ mine'[q] = mine[q]
    /\ (Fed => Fed') \/ r \in Reading
    /\ pc'[r] = "status" => Fed'
    /\ pc'[r] \in {"status", "body"} => r \in Reading \/ ~Reader
    /\ pc'[r] \in {"sent", "sending"} => Remembers(mine[r])'

\* it is ended by a second reader.
Aborts == pc' = [q \in Requests |-> "aborted"]

\* Such a step keeps readers served.
LEMMA GoesOnStep ==
    ASSUME SocketInv, SocketInv', ServedInv, Flows,
           mine' \in [Requests -> [gen : Nat, expect : Nat]],
           NEW r \in Requests, GoesOn(r) \/ Aborts
    PROVE  ServedInv'
<1>1. Counted' /\ \A m \in [gen : Nat, expect : Nat] : Remembers(m) => Remembers(m)'
  BY FlowsOn DEF SocketInv
<1>2. CASE Aborts
  BY <1>1, <1>2 DEF Aborts, ServedInv, Reading, ReaderServed
<1>3. CASE GoesOn(r)
  <2>1. ASSUME NEW q \in Requests, pc'[q] \in {"sent", "sending"} PROVE Remembers(mine[q])'
    <3>1. CASE q = r
      BY <1>3, <2>1, <3>1 DEF GoesOn
    <3>2. CASE q # r
      <4>1. pc[q] \in {"sent", "sending"} /\ mine'[q] = mine[q]
        BY <1>3, <2>1, <3>2 DEF GoesOn
      <4>2. Remembers(mine[q]) /\ mine[q] \in [gen : Nat, expect : Nat]
        BY <4>1 DEF ServedInv
      <4> QED BY <1>1, <4>1, <4>2 DEF Remembers
    <3> QED BY <3>1, <3>2
  <2>2. \A p, q \in Reading' : p = q
    BY <1>3 DEF GoesOn, Reading, Reader, ServedInv
  <2>3. ReaderServed'
    <3>1. ASSUME NEW q \in Requests, pc'[q] = "status" PROVE Fed'
      <4>1. CASE q = r
        BY <1>3, <3>1, <4>1 DEF GoesOn
      <4>2. CASE q # r
        <5>1. pc[q] = "status"
          BY <1>3, <3>1, <4>2 DEF GoesOn
        <5>2. Fed /\ q \in Reading
          BY <5>1 DEF ServedInv, ReaderServed, Fed, Reading
        <5>3. r \notin Reading
          BY <4>2, <5>2 DEF ServedInv
        <5> QED BY <1>3, <5>2, <5>3 DEF GoesOn
      <4> QED BY <4>1, <4>2
    <3> QED BY <3>1 DEF ReaderServed, Fed
  <2> QED BY <1>1, <2>1, <2>2, <2>3 DEF ServedInv
<1> QED BY <1>2, <1>3

\* A request that goes to p, where it remembers nothing new.
LEMMA GoesTo ==
    ASSUME RequestsInv, ServedInv, NEW r \in Requests, NEW p, Goto(r, p),
           mine' = mine \/ mine' = [mine EXCEPT ![r] = Unset],
           (Fed => Fed') \/ r \in Reading,
           p = "status" => Fed',
           p \in {"status", "body"} => r \in Reading \/ ~Reader,
           p \notin {"sent", "sending"}
    PROVE  GoesOn(r) /\ mine' \in [Requests -> [gen : Nat, expect : Nat]]
<1>1. Unset \in [gen : Nat, expect : Nat] /\ mine \in [Requests -> [gen : Nat, expect : Nat]]
  BY DEF Unset, ServedInv
<1>2. pc'[r] = p /\ \A q \in Requests \ {r} : pc'[q] = pc[q]
  BY DEF Goto, RequestsInv
<1>3. /\ mine' \in [Requests -> [gen : Nat, expect : Nat]]
      /\ \A q \in Requests \ {r} : mine'[q] = mine[q]
  BY <1>1
<1> QED BY <1>2, <1>3 DEF GoesOn

\* A request begins to read what is there.
LEMMA ReadsOn ==
    ASSUME RequestsInv, ServedInv, NEW r \in Requests, Read(r),
           mine' = mine \/ mine' = [mine EXCEPT ![r] = Unset], Fed'
    PROVE  (GoesOn(r) \/ Aborts) /\ mine' \in [Requests -> [gen : Nat, expect : Nat]]
<1>1. CASE Reader
  <2>1. Unset \in [gen : Nat, expect : Nat] /\ mine \in [Requests -> [gen : Nat, expect : Nat]]
    BY DEF Unset, ServedInv
  <2>2. mine' \in [Requests -> [gen : Nat, expect : Nat]]
    BY <2>1
  <2> QED BY <1>1, <2>2 DEF Read, Aborts
<1>2. CASE ~Reader
  BY <1>2, GoesTo DEF Read
<1> QED BY <1>1, <1>2

\* Both mutexes are taken.
LEMMA BothServed ==
    ASSUME RequestsInv, SocketInv, SocketInv', ServedInv, NEW r \in Requests, HasBoth(r)
    PROVE  ServedInv'
<1>1. Flows /\ (CanKeepalive(r) \/ Fed => Fed')
  BY BothFlows DEF ServedInv
<1>2. mine' = mine
  BY DEF HasBoth, locals
<1>3. CASE Read(r) /\ CanKeepalive(r)
  BY <1>1, <1>2, <1>3, ReadsOn, GoesOnStep
<1>4. CASE Goto(r, "failing") \/ Goto(r, "connect")
  BY <1>1, <1>2, <1>4, GoesTo, GoesOnStep
<1> QED BY <1>3, <1>4 DEF HasBoth

\* mut1 is taken by a request that is pipelined.
LEMMA PipelineServed ==
    ASSUME RequestsInv, SocketInv, SocketInv', ServedInv, NEW r \in Requests, Pipeline(r)
    PROVE  ServedInv'
<1>1. Flows /\ Fed' /\ http \in Sockets /\ conn' \in Connections
  BY PipelineFlows DEF ServedInv, SocketInv
<1>2. PICK m : m = [gen |-> http.gen, expect |-> http.sent]
  OBVIOUS
<1>3. /\ m \in [gen : Nat, expect : Nat] /\ m.gen = http.gen /\ m.expect = http.sent
      /\ http.sent \in Nat
  BY <1>1, <1>2, SocketFacts
<1>4. PICK alive \in BOOLEAN :
         LET h == [http EXCEPT !.sent = @ + 1, !.sock = alive]
             fails == ~alive /\ Reader
         IN  /\ http' = h
             /\ mine' = IF inside2 \/ fails THEN [mine EXCEPT ![r] = m] ELSE mine
             /\ IF fails THEN Goto(r, "sending")
                ELSE IF inside2 THEN Goto(r, "sent") ELSE TakesUp(r, m, h)
  BY <1>2 DEF Pipeline
<1>5. PICK n : n = http.sent + 1
  OBVIOUS
<1>6. http' = [http EXCEPT !.sent = n, !.sock = alive]
  BY <1>4, <1>5, Zenon
<1>7. http'.gen = http.gen /\ http'.sent = n
  BY <1>1, <1>6 DEF Sockets
<1>8. Remembers(m)'
  BY <1>3, <1>5, <1>7 DEF Remembers
<1>9. CASE Goto(r, "sending") \/ Goto(r, "sent")
  <2>1. CASE mine' = [mine EXCEPT ![r] = m]
    <3>1. /\ mine' \in [Requests -> [gen : Nat, expect : Nat]] /\ mine'[r] = m
          /\ \A q \in Requests \ {r} : mine'[q] = mine[q]
      BY <1>3, <2>1 DEF ServedInv
    <3>2. /\ pc'[r] \in {"sending", "sent"}
          /\ \A q \in Requests \ {r} : pc'[q] = pc[q]
      BY <1>9 DEF Goto, RequestsInv
    <3>3. Remembers(mine[r])'
      BY <1>8, <3>1 DEF Remembers
    <3>4. GoesOn(r)
      BY <1>1, <3>1, <3>2, <3>3 DEF GoesOn
    <3> QED BY <1>1, <3>1, <3>4, GoesOnStep
  <2>2. CASE mine' # [mine EXCEPT ![r] = m]
    <3>1. ~inside2 /\ TakesUp(r, m, http')
      BY <1>4, <2>2
    <3>2. mine' = mine
      BY <1>4, <2>2
    <3> QED BY <1>1, <3>1, <3>2, ReadsOn, GoesTo, GoesOnStep DEF TakesUp
  <2> QED BY <2>1, <2>2
<1>10. CASE ~Goto(r, "sending") /\ ~Goto(r, "sent")
  <2>1. TakesUp(r, m, http') /\ mine' = mine
    BY <1>4, <1>10
  <2> QED BY <1>1, <2>1, ReadsOn, GoesTo, GoesOnStep DEF TakesUp
<1> QED BY <1>9, <1>10

\* mut1 is taken.
LEMMA Mut1Served ==
    ASSUME RequestsInv, SocketInv, SocketInv', ServedInv, NEW r \in Requests, HasMut1(r)
    PROVE  ServedInv'
<1>1. CASE Pipeline(r)
  BY <1>1, PipelineServed
<1>2. CASE HasBoth(r)
  BY <1>2, BothServed
<1>3. CASE Goto(r, "wait2") /\ UNCHANGED <<locals, http, conn>>
  <2>1. mine' = mine /\ http' = http /\ conn' = conn
    BY <1>3 DEF locals
  <2>2. Flows /\ (Fed => Fed')
    BY <2>1, StillFlows DEF ServedInv
  <2> QED BY <1>3, <2>1, <2>2, GoesTo, GoesOnStep
<1> QED BY <1>1, <1>2, <1>3 DEF HasMut1, Serialise

\* mut2 is taken by a request that was sent.
LEMMA TakesUpServed ==
    ASSUME RequestsInv, SocketInv, SocketInv', ServedInv, NEW r \in Requests,
           pc[r] \in {"sent", "sending"}, TakesUp(r, mine[r], http),
           mine' = [mine EXCEPT ![r] = Unset], http' = http, conn' = conn
    PROVE  ServedInv'
<1>1. Flows /\ (Fed => Fed')
  BY StillFlows DEF ServedInv
<1>2. CASE Paired(mine[r], http)
  <2>1. Remembers(mine[r]) /\ mine[r] \in [gen : Nat, expect : Nat] /\ Counted
    BY DEF ServedInv
  <2>2. Fed'
    BY <1>1, <1>2, <2>1, PairedFed
  <2> QED BY <1>1, <1>2, <2>2, ReadsOn, GoesOnStep DEF TakesUp
<1>3. CASE ~Paired(mine[r], http)
  BY <1>1, <1>3, GoesTo, GoesOnStep DEF TakesUp
<1> QED BY <1>2, <1>3

\* Whoever holds mut2 beside it, a request that reads is served.
LEMMA ServedStep ==
    ASSUME RequestsInv, SocketInv, SocketInv', ServedInv, [Next]_vars PROVE ServedInv'
<1>1. Counted /\ http \in Sockets /\ http' \in Sockets /\ conn' \in Connections
  BY DEF ServedInv, SocketInv
<1>2. ASSUME NEW r \in Requests, Arrive(r) \/ Enter1(r) PROVE ServedInv'
  <2>1. CASE HasMut1(r)
    BY <2>1, Mut1Served
  <2>2. CASE ~HasMut1(r)
    <3>1. Goto(r, "wait1") /\ mine' = mine /\ http' = http /\ conn' = conn
      BY <1>2, <2>2 DEF Arrive, Enter1, locals
    <3>2. Flows /\ (Fed => Fed')
      BY <1>1, <3>1, StillFlows
    <3> QED BY <3>1, <3>2, GoesTo, GoesOnStep
  <2> QED BY <2>1, <2>2
<1>3. ASSUME NEW r \in Requests, Enter2Unsent(r) PROVE ServedInv'
  BY <1>3, BothServed DEF Enter2Unsent
<1>4. ASSUME NEW r \in Requests, Enter2Sent(r) PROVE ServedInv'
  BY <1>4, TakesUpServed DEF Enter2Sent
<1>5. ASSUME NEW r \in Requests, Sending(r) PROVE ServedInv'
  <2>1. CASE inside2
    <3>1. /\ pc[r] = "sending" /\ Goto(r, "sent") /\ mine' = mine
          /\ http' = http /\ conn' = conn
      BY <1>5, <2>1 DEF Sending
    <3>2. Flows /\ (Fed => Fed')
      BY <1>1, <3>1, StillFlows
    <3>3. Remembers(mine[r])'
      BY <3>1 DEF ServedInv, Remembers
    <3>4. pc'[r] = "sent" /\ \A q \in Requests \ {r} : pc'[q] = pc[q]
      BY <3>1 DEF Goto, RequestsInv
    <3>5. GoesOn(r)
      BY <3>1, <3>2, <3>3, <3>4 DEF GoesOn
    <3>6. mine' \in [Requests -> [gen : Nat, expect : Nat]]
      BY <3>1 DEF ServedInv
    <3> QED BY <3>2, <3>5, <3>6, GoesOnStep
  <2>2. CASE ~inside2
    BY <1>5, <2>2, TakesUpServed DEF Sending
  <2> QED BY <2>1, <2>2
<1>6. ASSUME NEW r \in Requests, NEW p \in {"connect", "replacing", "returning"},
             Goto(r, p), mine' = mine, http'.gen = http.gen, conn' = Dead
      PROVE  ServedInv'
  BY <1>6, DeadFlows, GoesTo, GoesOnStep
<1>7. ASSUME NEW r \in Requests,
             SendFailed(r) \/ ConnectFails(r) \/ BadAnswer(r) \/ Replace(r) \/ NoStatus(r)
      PROVE  ServedInv'
  <2>1. http' = [http EXCEPT !.sock = FALSE] /\ conn' = Dead /\ mine' = mine
    BY <1>7 DEF SendFailed, ConnectFails, BadAnswer, Replace, NoStatus, SetError, Answer, locals
  <2>2. http'.gen = http.gen
    BY <1>1, <2>1, DroppedSocket
  <2>3. PICK p \in {"connect", "replacing", "returning"} : Goto(r, p)
    BY <1>7 DEF SendFailed, ConnectFails, BadAnswer, Replace, NoStatus, SetError, Answer
  <2> QED BY <1>6, <2>1, <2>2, <2>3
<1>8. ASSUME NEW r \in Requests, CutBody(r) PROVE ServedInv'
  <2>1. conn' = Dead /\ mine' = mine /\ Goto(r, "returning")
    BY <1>8 DEF CutBody, SetError, Answer
  <2>2. http'.gen = http.gen
    BY <1>1, <1>8, DroppedSocket, CutSocket DEF CutBody, SetError
  <2> QED BY <1>6, <2>1, <2>2
<1>9. ASSUME NEW r \in Requests, Connected(r) PROVE ServedInv'
  <2>1. PICK g : g = http.gen + 1
    OBVIOUS
  <2>2. /\ http' = [sock |-> TRUE, elsewhere |-> r \in far, fresh |-> TRUE,
                    gen |-> g, sent |-> 1, received |-> 0]
        /\ conn' = [wire |-> <<r>>, closed |-> FALSE, cut |-> FALSE, torn |-> FALSE]
        /\ Goto(r, "status") /\ mine' = mine /\ ~Reader
    BY <1>9, <2>1 DEF Connected, Replaces
  <2>3. /\ http'.gen = g /\ http'.sock = TRUE /\ http'.sent = 1 /\ http'.received = 0
        /\ conn'.wire = <<r>>
    BY <2>2
  <2>4. Flows /\ Fed'
    BY <2>1, <2>3 DEF Flows, Fed
  <2> QED BY <2>2, <2>4, GoesTo, GoesOnStep
<1>10. ASSUME NEW r \in Requests, Status(r) \/ Unlock(r) PROVE ServedInv'
  <2>1. http' = http /\ conn' = conn /\ mine' = mine
    BY <1>10 DEF Status, Unlock, locals
  <2>2. Flows /\ (Fed => Fed')
    BY <1>1, <2>1, StillFlows
  <2>3. (Goto(r, "body") /\ r \in Reading) \/ Goto(r, "done")
    BY <1>10 DEF Status, Unlock, Reading
  <2> QED BY <2>1, <2>2, <2>3, GoesTo, GoesOnStep
<1>11. ASSUME NEW r \in Requests, Body(r) PROVE ServedInv'
  <2>1. /\ r \in Reading /\ Goto(r, "returning") /\ mine' = mine
        /\ conn.wire # <<>> /\ conn.wire \in Seq(Requests)
    BY <1>11 DEF Body, Answer, Reading, SocketInv, Connections
  <2>2. /\ http'.sock = http.sock /\ http'.gen = http.gen /\ http'.sent = http.sent
        /\ http'.received = http.received + 1
    BY <1>1, <1>11, ReadSocket DEF Body
  <2>3. PICK w : w = Tail(conn.wire)
    OBVIOUS
  <2>4. Len(w) = Len(conn.wire) - 1 /\ Len(conn.wire) \in Nat
    BY <2>1, <2>3, TailFacts
  <2>5. conn' = [conn EXCEPT !.wire = w]
    BY <1>11, <2>3, Zenon DEF Body
  <2>6. conn'.wire = w /\ conn'.closed = conn.closed
    BY <2>5 DEF SocketInv, Connections
  <2>7. http.sent \in Nat /\ http.received \in Nat
    BY <1>1, SocketFacts
  <2>8. Flows
    BY <1>1, <2>2, <2>4, <2>6, <2>7 DEF Flows, Counted
  <2> QED BY <2>1, <2>8, GoesTo, GoesOnStep
<1>12. ASSUME NEW r \in Requests, Cancel(r) PROVE ServedInv'
  <2>1. http' = http /\ Goto(r, "cancelled") /\ mine' = [mine EXCEPT ![r] = Unset]
    BY <1>12 DEF Cancel
  <2>2. PICK t \in BOOLEAN : t = (conn.torn \/ pc[r] = "body")
    OBVIOUS
  <2>3. conn' = [conn EXCEPT !.torn = t]
    BY <1>12, <2>2, Zenon DEF Cancel
  <2>4. conn'.wire = conn.wire /\ conn'.closed = conn.closed
    BY <2>3 DEF SocketInv, Connections
  <2>5. Flows /\ (Fed => Fed')
    BY <1>1, <2>1, <2>4, StillFlows
  <2> QED BY <2>1, <2>5, GoesTo, GoesOnStep
<1>13. ASSUME UNCHANGED <<pc, mine>>, Flows, Fed => Fed' PROVE ServedInv'
  <2>1. Counted' /\ \A m \in [gen : Nat, expect : Nat] : Remembers(m) => Remembers(m)'
    BY <1>1, <1>13, FlowsOn
  <2>2. ASSUME NEW q \in Requests, pc'[q] \in {"sent", "sending"} PROVE Remembers(mine[q])'
    <3>1. Remembers(mine[q]) /\ mine[q] \in [gen : Nat, expect : Nat] /\ mine'[q] = mine[q]
      BY <1>13, <2>2 DEF ServedInv
    <3> QED BY <2>1, <3>1 DEF Remembers
  <2>3. ReaderServed'
    BY <1>13 DEF ServedInv, ReaderServed, Fed
  <2>4. \A p, q \in Reading' : p = q
    BY <1>13 DEF ServedInv, Reading
  <2> QED BY <1>13, <2>1, <2>2, <2>3, <2>4 DEF ServedInv
<1>14. CASE KeepaliveEnds
  <2>1. http' = [http EXCEPT !.fresh = FALSE] /\ conn' = conn /\ UNCHANGED <<pc, mine>>
    BY <1>14 DEF KeepaliveEnds, locals
  <2>2. /\ http'.sock = http.sock /\ http'.gen = http.gen /\ http'.sent = http.sent
        /\ http'.received = http.received
    BY <1>1, <2>1 DEF Sockets
  <2> QED BY <1>1, <1>13, <2>1, <2>2, StillFlows
<1>15. CASE ServerCloses
  <2>1. /\ UNCHANGED <<pc, mine, http>>
        /\ \E k \in 0..Len(conn.wire), cut \in BOOLEAN :
              conn' = [conn EXCEPT !.closed = TRUE, !.cut = cut, !.wire = SubSeq(@, 1, k)]
    BY <1>15 DEF ServerCloses, locals
  <2>2. conn'.closed
    BY <2>1 DEF SocketInv, Connections
  <2> QED BY <1>13, <2>1, <2>2 DEF Flows, Fed
<1>16. CASE UNCHANGED vars
  <2>1. UNCHANGED <<pc, mine, http, conn>>
    BY <1>16 DEF vars, locals
  <2> QED BY <1>1, <1>13, <2>1, StillFlows
<1> QED BY <1>2, <1>3, <1>4, <1>5, <1>7, <1>8, <1>9, <1>10, <1>11, <1>12, <1>14, <1>15, <1>16
        DEF Next, Step

\* At the start nobody reads.
LEMMA ServedInit == ASSUME Init PROVE ServedInv
BY DEF Init, ServedInv, Counted, Dead, Unset, Reading, ReaderServed

\* As long as no request takes mut2 past one that waits for it, every state the
\* client reaches satisfies the invariant of http.cpp above.
THEOREM HttpInvariant == Spec => [](~barged => HttpInv)
<1>1. Init => barged \in BOOLEAN /\ HttpInv
  BY HttpInit, SendsInit
<1>2. barged \in BOOLEAN /\ (~barged => HttpInv) /\ [Next]_vars
      => (barged \in BOOLEAN)' /\ (~barged => HttpInv)'
  BY HttpStep, BargedStep
<1> QED BY <1>1, <1>2, PTL DEF Spec

\* As long as no request takes mut2 past one that waits for it, two requests are
\* never both at the socket: mut2 keeps the readers apart, and a socket is only
\* replaced by who holds both mutexes (http.cpp, request()).
THEOREM SocketNeverShared == Spec => []OneOnSocket
<1>1. (~barged => HttpInv) => OneOnSocket
  <2> SUFFICES ASSUME HttpInv, ~barged PROVE OneOnSocket
    BY DEF OneOnSocket
  <2>1. \A r \in Requests : pc[r] \in Places
    BY DEF HttpInv, TypeInv
  <2> QED BY <2>1, OneHolder DEF OneOnSocket, AtSocket, Places
<1> QED BY <1>1, HttpInvariant, PTL

\* A POST reaches the server at most once, and not at all when request() tells
\* the caller that it may be repeated, whoever holds mut2 beside it.
THEOREM PostsSentOnce == Spec => []SentOnce
<1>1. Init => RequestsInv
  BY SendsInit
<1>2. RequestsInv /\ [Next]_vars => RequestsInv'
  BY RequestsStep
<1>3. RequestsInv => SentOnce
  BY DEF RequestsInv, Allowed, SentOnce, Requests
<1> QED BY <1>1, <1>2, <1>3, PTL DEF Spec

\* Whoever holds mut2 beside it, a request that reads finds an answer on its way,
\* or the end of the connection: nobody waits for a byte the server does not owe.
THEOREM ReadersServed == Spec => []ReaderServed
<1>1. Init => RequestsInv /\ SocketInv /\ ServedInv
  BY SendsInit, ServedInit
<1>2. RequestsInv /\ SocketInv /\ ServedInv /\ [Next]_vars
      => RequestsInv' /\ SocketInv' /\ ServedInv'
  BY RequestsStep, SocketStep, ServedStep
<1>3. ServedInv => ReaderServed
  BY DEF ServedInv
<1> QED BY <1>1, <1>2, <1>3, PTL DEF Spec

\* Nothing is sent over a socket of another origin, although the socket may be
\* replaced while a request waits for its mutexes, and whoever holds mut2 beside
\* it.
THEOREM SentToItsOrigin == Spec => []OneOrigin
<1>1. Init => SocketInv
  BY SendsInit
<1>2. SocketInv /\ [Next]_vars => SocketInv'
  BY SocketStep
<1>3. SocketInv => OneOrigin
  BY DEF SocketInv
<1> QED BY <1>1, <1>2, <1>3, PTL DEF Spec

\* As long as no request takes mut2 past one that waits for it, the counters pair
\* a request with its own answer, whatever was cancelled, except one that skipped
\* the comparison after a request was cancelled that was sent.
THEOREM CheckedAnswersRight == Spec => []CheckedRightAnswer
<1>1. (~barged => HttpInv) => CheckedRightAnswer
  BY DEF HttpInv, ReaderInv, Strayed, SentCancelled, CheckedRightAnswer
<1> QED BY <1>1, HttpInvariant, PTL

-----------------------------------------------------------------------------
(* The client implements RequestLine.                                      *)

\* Who comes last in the second part of a line comes last in it.
LEMMA AppendBehind ==
    ASSUME NEW a \in Seq(Requests), NEW b \in Seq(Requests), NEW x \in Requests
    PROVE  a \o Append(b, x) = Append(a \o b, x)
<1>1. Append(b, x) = b \o <<x>> /\ <<x>> \in Seq(Requests)
  BY AppendIsConcat
<1>2. a \o b \in Seq(Requests)
  BY ConcatProperties
<1>3. Append(a \o b, x) = (a \o b) \o <<x>>
  BY <1>2, AppendIsConcat
<1> QED BY <1>1, <1>3, ConcatAssociative

\* The first of the second part may be counted as the last of the first.
LEMMA HeadAcross ==
    ASSUME NEW a \in Seq(Requests), NEW s \in Seq(Requests), s # <<>>
    PROVE  Append(a, s[1]) \o Tail(s) = a \o s
<1>1. /\ s[1] \in Requests /\ Tail(s) \in Seq(Requests)
      /\ Len(s) \in 1..Len(s) /\ 1 \in 1..Len(s) /\ Len(s) \in Nat
  BY TailFacts
<1>2. Append(a, s[1]) = a \o <<s[1]>> /\ <<s[1]>> \in Seq(Requests)
  BY <1>1, AppendIsConcat
<1>3. SubSeq(s, 1, Len(s)) = <<s[1]>> \o SubSeq(s, 1 + 1, Len(s))
  BY <1>1, SubSeqRecursiveFirst
<1>4. SubSeq(s, 1, Len(s)) = s /\ Tail(s) = SubSeq(s, 2, Len(s)) /\ 1 + 1 = 2
  BY SubSeqFull, TailIsSubSeq
<1>5. <<s[1]>> \o Tail(s) = s
  BY <1>3, <1>4
<1> QED BY <1>1, <1>2, <1>5, ConcatAssociative

\* A sequence that lacks one element of another is what RemoveAt makes of it.
LEMMA IsRemoveAt ==
    ASSUME NEW s \in Seq(Requests), NEW i \in 1..Len(s), NEW w \in Seq(Requests),
           Len(w) = Len(s) - 1,
           \A j \in 1..(Len(s) - 1) : w[j] = IF j < i THEN s[j] ELSE s[j + 1]
    PROVE  w = RemoveAt(s, i)
<1>1. PICK v : v = RemoveAt(s, i)
  OBVIOUS
<1>2. /\ v \in Seq(Requests) /\ Len(v) = Len(s) - 1
      /\ \A j \in 1..(Len(s) - 1) : v[j] = IF j < i THEN s[j] ELSE s[j + 1]
  BY <1>1, RemoveAtFacts
<1>3. w = v
  BY <1>2, SeqEqual
<1> QED BY <1>1, <1>3

\* Who leaves the first part leaves the line,
LEMMA RemoveLeft ==
    ASSUME NEW a \in Seq(Requests), NEW b \in Seq(Requests), NEW i \in 1..Len(a)
    PROVE  /\ i \in 1..Len(a \o b)
           /\ RemoveAt(a, i) \o b = RemoveAt(a \o b, i)
<1>1. PICK c : c = RemoveAt(a, i)
  OBVIOUS
<1>2. /\ c \in Seq(Requests) /\ Len(c) = Len(a) - 1 /\ Len(a) \in Nat /\ Len(b) \in Nat
      /\ \A j \in 1..(Len(a) - 1) : c[j] = IF j < i THEN a[j] ELSE a[j + 1]
  BY <1>1, RemoveAtFacts, LenProperties
<1>3. PICK s : s = a \o b
  OBVIOUS
<1>4. /\ s \in Seq(Requests) /\ Len(s) = Len(a) + Len(b)
      /\ \A j \in 1..(Len(a) + Len(b)) : s[j] = IF j <= Len(a) THEN a[j] ELSE b[j - Len(a)]
  BY <1>3, ConcatProperties
<1>5. PICK w : w = c \o b
  OBVIOUS
<1>6. /\ w \in Seq(Requests) /\ Len(w) = Len(s) - 1
      /\ \A j \in 1..(Len(s) - 1) :
            w[j] = IF j <= Len(a) - 1 THEN c[j] ELSE b[j - (Len(a) - 1)]
  <2>1. /\ w \in Seq(Requests) /\ Len(w) = Len(c) + Len(b)
        /\ \A j \in 1..(Len(c) + Len(b)) : w[j] = IF j <= Len(c) THEN c[j] ELSE b[j - Len(c)]
    BY <1>2, <1>5, ConcatProperties
  <2>2. Len(c) + Len(b) = Len(s) - 1
    BY <1>2, <1>4
  <2> QED BY <1>2, <2>1, <2>2
<1>7. ASSUME NEW j \in 1..(Len(s) - 1) PROVE w[j] = IF j < i THEN s[j] ELSE s[j + 1]
  <2>1. CASE j <= Len(a) - 1
    <3>1. j \in 1..(Len(a) - 1) /\ j + 1 <= Len(a) /\ j <= Len(a)
      BY <1>2, <2>1
    <3>2. j \in 1..(Len(a) + Len(b)) /\ j + 1 \in 1..(Len(a) + Len(b))
      BY <1>2, <3>1
    <3> QED BY <1>2, <1>4, <1>6, <3>1, <3>2
  <2>2. CASE ~(j <= Len(a) - 1)
    <3>1. /\ ~(j < i) /\ ~(j + 1 <= Len(a)) /\ (j + 1) - Len(a) = j - (Len(a) - 1)
          /\ j + 1 \in 1..(Len(a) + Len(b))
      BY <1>2, <1>4, <2>2
    <3> QED BY <1>4, <1>6, <2>2, <3>1
  <2> QED BY <2>1, <2>2
<1>8. i \in 1..Len(s)
  BY <1>2, <1>4
<1>9. w = RemoveAt(s, i)
  BY <1>4, <1>6, <1>7, <1>8, IsRemoveAt
<1> QED BY <1>1, <1>3, <1>5, <1>8, <1>9

\* and so does who leaves the second.
LEMMA RemoveRight ==
    ASSUME NEW a \in Seq(Requests), NEW b \in Seq(Requests), NEW i \in 1..Len(b)
    PROVE  /\ Len(a) + i \in 1..Len(a \o b)
           /\ a \o RemoveAt(b, i) = RemoveAt(a \o b, Len(a) + i)
<1>1. PICK c : c = RemoveAt(b, i)
  OBVIOUS
<1>2. /\ c \in Seq(Requests) /\ Len(c) = Len(b) - 1 /\ Len(a) \in Nat /\ Len(b) \in Nat
      /\ \A j \in 1..(Len(b) - 1) : c[j] = IF j < i THEN b[j] ELSE b[j + 1]
  BY <1>1, RemoveAtFacts, LenProperties
<1>3. PICK s : s = a \o b
  OBVIOUS
<1>4. /\ s \in Seq(Requests) /\ Len(s) = Len(a) + Len(b)
      /\ \A j \in 1..(Len(a) + Len(b)) : s[j] = IF j <= Len(a) THEN a[j] ELSE b[j - Len(a)]
  BY <1>3, ConcatProperties
<1>5. PICK w : w = a \o c
  OBVIOUS
<1>6. /\ w \in Seq(Requests) /\ Len(w) = Len(s) - 1
      /\ \A j \in 1..(Len(s) - 1) : w[j] = IF j <= Len(a) THEN a[j] ELSE c[j - Len(a)]
  <2>1. /\ w \in Seq(Requests) /\ Len(w) = Len(a) + Len(c)
        /\ \A j \in 1..(Len(a) + Len(c)) : w[j] = IF j <= Len(a) THEN a[j] ELSE c[j - Len(a)]
    BY <1>2, <1>5, ConcatProperties
  <2>2. Len(a) + Len(c) = Len(s) - 1
    BY <1>2, <1>4
  <2> QED BY <2>1, <2>2
<1>7. ASSUME NEW j \in 1..(Len(s) - 1)
      PROVE  w[j] = IF j < Len(a) + i THEN s[j] ELSE s[j + 1]
  <2>1. CASE j <= Len(a)
    <3>1. j < Len(a) + i /\ j \in 1..(Len(a) + Len(b))
      BY <1>2, <1>4, <2>1
    <3> QED BY <1>4, <1>6, <2>1, <3>1
  <2>2. CASE ~(j <= Len(a))
    <3>1. /\ j - Len(a) \in 1..(Len(b) - 1) /\ ~(j + 1 <= Len(a))
          /\ (j + 1) - Len(a) = (j - Len(a)) + 1
          /\ j \in 1..(Len(a) + Len(b)) /\ j + 1 \in 1..(Len(a) + Len(b))
          /\ j < Len(a) + i <=> j - Len(a) < i
      BY <1>2, <1>4, <2>2
    <3>2. w[j] = c[j - Len(a)] /\ s[j] = b[j - Len(a)] /\ s[j + 1] = b[(j - Len(a)) + 1]
      BY <1>4, <1>6, <2>2, <3>1
    <3> QED BY <1>2, <3>1, <3>2
  <2> QED BY <2>1, <2>2
<1>8. Len(a) + i \in 1..Len(s)
  BY <1>2, <1>4
<1>9. w = RemoveAt(s, Len(a) + i)
  BY <1>4, <1>6, <1>7, <1>8, IsRemoveAt
<1> QED BY <1>1, <1>3, <1>5, <1>8, <1>9

\* The first of the first part is the first of the line.
LEMMA TailOfConcat ==
    ASSUME NEW a \in Seq(Requests), NEW b \in Seq(Requests), a # <<>>
    PROVE  /\ a \o b # <<>> /\ (a \o b)[1] = a[1]
           /\ Tail(a \o b) = Tail(a) \o b
<1>1. PICK s : s = a \o b
  OBVIOUS
<1>2. PICK t : t = Tail(a)
  OBVIOUS
<1>3. PICK v : v = Tail(s)
  OBVIOUS
<1>4. PICK w : w = t \o b
  OBVIOUS
<1>5. /\ s \in Seq(Requests) /\ Len(s) = Len(a) + Len(b)
      /\ \A j \in 1..(Len(a) + Len(b)) : s[j] = IF j <= Len(a) THEN a[j] ELSE b[j - Len(a)]
  BY <1>1, ConcatProperties
<1>6. /\ t \in Seq(Requests) /\ Len(a) \in Nat \ {0} /\ Len(t) = Len(a) - 1 /\ Len(b) \in Nat
      /\ \A j \in 1..(Len(a) - 1) : t[j] = a[j + 1]
  BY <1>2, TailFacts, LenProperties
<1>7. s # <<>> /\ s[1] = a[1]
  <2>1. 1 \in 1..(Len(a) + Len(b)) /\ 1 <= Len(a) /\ Len(s) # 0
    BY <1>5, <1>6
  <2> QED BY <1>5, <2>1
<1>8. /\ v \in Seq(Requests) /\ Len(v) = Len(s) - 1
      /\ \A j \in 1..(Len(s) - 1) : v[j] = s[j + 1]
  BY <1>3, <1>5, <1>7, TailFacts
<1>9. /\ w \in Seq(Requests) /\ Len(w) = Len(s) - 1
      /\ \A j \in 1..(Len(s) - 1) :
            w[j] = IF j <= Len(a) - 1 THEN t[j] ELSE b[j - (Len(a) - 1)]
  <2>1. /\ w \in Seq(Requests) /\ Len(w) = Len(t) + Len(b)
        /\ \A j \in 1..(Len(t) + Len(b)) : w[j] = IF j <= Len(t) THEN t[j] ELSE b[j - Len(t)]
    BY <1>4, <1>6, ConcatProperties
  <2>2. Len(t) + Len(b) = Len(s) - 1
    BY <1>5, <1>6
  <2> QED BY <1>6, <2>1, <2>2
<1>10. ASSUME NEW j \in 1..(Len(s) - 1) PROVE v[j] = w[j]
  <2>1. j + 1 \in 1..(Len(a) + Len(b)) /\ (j + 1) - Len(a) = j - (Len(a) - 1)
        /\ (j <= Len(a) - 1 <=> j + 1 <= Len(a))
    BY <1>5, <1>6
  <2>2. j <= Len(a) - 1 => j \in 1..(Len(a) - 1)
    BY <1>6
  <2> QED BY <1>5, <1>6, <1>8, <1>9, <2>1, <2>2
<1>11. v = w
  BY <1>8, <1>9, <1>10, SeqEqual
<1> QED BY <1>1, <1>2, <1>3, <1>4, <1>7, <1>11

\* Removing behind the head, or the head.
LEMMA RemoveInTail ==
    ASSUME NEW s \in Seq(Requests), NEW i \in 1..Len(s)
    PROVE  /\ i = 1 => RemoveAt(s, i) = Tail(s)
           /\ i > 1 => /\ RemoveAt(s, i) # <<>> /\ RemoveAt(s, i)[1] = s[1]
                       /\ i - 1 \in 1..Len(Tail(s))
                       /\ Tail(RemoveAt(s, i)) = RemoveAt(Tail(s), i - 1)
<1>1. s # <<>> /\ Len(s) \in Nat \ {0}
  OBVIOUS
<1>2. PICK t : t = Tail(s)
  OBVIOUS
<1>3. /\ t \in Seq(Requests) /\ Len(t) = Len(s) - 1
      /\ \A j \in 1..(Len(s) - 1) : t[j] = s[j + 1]
  BY <1>1, <1>2, TailFacts
<1>4. PICK w : w = RemoveAt(s, i)
  OBVIOUS
<1>5. /\ w \in Seq(Requests) /\ Len(w) = Len(s) - 1
      /\ \A j \in 1..(Len(s) - 1) : w[j] = IF j < i THEN s[j] ELSE s[j + 1]
  BY <1>4, RemoveAtFacts
<1>6. CASE i = 1
  <2>1. \A j \in 1..Len(w) : w[j] = t[j]
    BY <1>3, <1>5, <1>6
  <2>2. w = t
    BY <1>3, <1>5, <2>1, SeqEqual
  <2> QED BY <1>2, <1>4, <1>6, <2>2
<1>7. CASE i > 1
  <2>1. w # <<>> /\ w[1] = s[1] /\ i - 1 \in 1..Len(t)
    <3>1. 1 \in 1..(Len(s) - 1) /\ Len(w) # 0 /\ i - 1 \in 1..(Len(s) - 1)
      BY <1>1, <1>5, <1>7
    <3> QED BY <1>3, <1>5, <1>7, <3>1
  <2>2. PICK v : v = Tail(w)
    OBVIOUS
  <2>3. /\ v \in Seq(Requests) /\ Len(v) = Len(t) - 1
        /\ \A j \in 1..(Len(t) - 1) : v[j] = w[j + 1]
    BY <1>3, <1>5, <2>1, <2>2, TailFacts
  <2>4. ASSUME NEW j \in 1..(Len(t) - 1) PROVE v[j] = IF j < i - 1 THEN t[j] ELSE t[j + 1]
    <3>1. /\ j + 1 \in 1..(Len(s) - 1) /\ j \in 1..(Len(s) - 1)
          /\ (j + 1 < i <=> j < i - 1)
      BY <1>1, <1>3
    <3>2. v[j] = w[j + 1] /\ w[j + 1] = IF j + 1 < i THEN s[j + 1] ELSE s[(j + 1) + 1]
      BY <1>5, <2>3, <3>1
    <3>3. t[j] = s[j + 1] /\ t[j + 1] = s[(j + 1) + 1]
      BY <1>3, <3>1
    <3> QED BY <3>1, <3>2, <3>3
  <2>5. v = RemoveAt(t, i - 1)
    BY <1>3, <2>1, <2>3, <2>4, IsRemoveAt
  <2> QED BY <1>2, <1>4, <1>7, <2>1, <2>2, <2>5
<1> QED BY <1>1, <1>6, <1>7

\* The promised line is one of requests that have begun.
LEMMA WaitingFacts ==
    ASSUME HttpInv
    PROVE  /\ Unanswered \in Seq(Requests) /\ Behind \in Seq(Requests)
           /\ Waiting \in Seq(Requests)
           /\ \A i \in 1..Len(Unanswered) : pc[Unanswered[i]] # "idle"
           /\ \A i \in 1..Len(Behind) : pc[Behind[i]] # "idle"
<1>1. Unanswered \in Seq(Requests) /\ \A i \in 1..Len(Unanswered) : pc[Unanswered[i]] # "idle"
  <2>1. CASE Unanswered = line2
    BY <2>1, LineFacts DEF AtSocket
  <2>2. CASE line2 # <<>> /\ Unanswered = Tail(line2)
    <3>1. \A i \in 1..Len(Unanswered) : i + 1 \in 1..Len(line2) /\ Unanswered[i] = line2[i + 1]
      BY <2>2, LineFacts, TailFacts
    <3> QED BY <2>2, <3>1, LineFacts, TailFacts DEF AtSocket
  <2> QED BY <2>1, <2>2 DEF Unanswered
<1>2. Behind \in Seq(Requests) /\ \A i \in 1..Len(Behind) : pc[Behind[i]] # "idle"
  <2>1. CASE ~inside1
    BY <2>1, LineFacts DEF Behind, HttpInv, Line1Inv
  <2>2. CASE inside1
    <3>1. line1 # <<>> /\ Behind = Tail(line1)
      BY <2>2 DEF Behind, HttpInv, Line1Inv
    <3>2. /\ Behind \in Seq(Requests)
          /\ \A i \in 1..Len(Behind) :
                i + 1 \in 1..Len(line1) /\ i + 1 > 1 /\ Behind[i] = line1[i + 1]
      BY <3>1, LineFacts, TailFacts
    <3> QED BY <3>2 DEF HttpInv, Line1Inv
  <2> QED BY <2>1, <2>2
<1> QED BY <1>1, <1>2, ConcatProperties DEF Waiting

\* A request whose turn at mut1 it is becomes the last of line 2, and the others
\* of line 1 stay behind.
LEMMA JoinsUnanswered ==
    ASSUME HttpInv, ~barged', NEW r \in Requests, HasMut1(r),
           pc[r] \in {"idle", "wait1"}, ~inside1, line1 # <<>> => line1[1] = r
    PROVE  /\ Unanswered' = Append(Unanswered, r)
           /\ Behind' = (IF line1 = <<>> THEN <<>> ELSE Tail(line1))
           /\ Answered' = Answered
<1>8. ~inside2 => ~Reader
  BY OneHolder DEF Reader, AtSocket
<1>1. PICK p \in {"sent", "sending", "status", "connect", "wait2"} : Goto(r, p)
  <2>1. CASE Pipeline(r)
    BY <1>8, <2>1 DEF Pipeline, TakesUp, Read
  <2>2. CASE Serialise(r) /\ ~inside2
    <3>1. SendsOrAsks(r)
      BY <1>8, <2>2, BothFacts DEF Serialise
    <3> QED BY <3>1 DEF SendsOrAsks
  <2>3. CASE Serialise(r) /\ inside2
    BY <2>3 DEF Serialise
  <2> QED BY <2>1, <2>2, <2>3 DEF HasMut1
<1>2. \A q \in Requests : pc'[q] = IF q = r THEN p ELSE pc[q]
  BY <1>1 DEF Goto, HttpInv, TypeInv
<1>3. line2' = Append(line2, r) /\ (Pass1 \/ Hold1(r))
  <2>1. line2' = Append(line2, r) \/ Join2(r)
    BY DEF HasMut1, Pipeline, Serialise
  <2>2. Pass1 \/ Hold1(r)
    BY DEF HasMut1, Pipeline, Serialise, HasBoth
  <2> QED BY <2>1, <2>2, JoinFacts
<1>4. Answered' = Answered
  BY <1>2 DEF Answered
<1>5. Behind' = (IF line1 = <<>> THEN <<>> ELSE Tail(line1))
  <2>1. CASE Pass1
    BY <2>1 DEF Pass1, Behind
  <2>2. CASE Hold1(r) /\ line1 = <<>>
    <3>1. line1' = <<r>> /\ inside1' = TRUE
      BY <2>2 DEF Hold1
    <3>2. Tail(<<r>>) = <<>>
      OBVIOUS
    <3> QED BY <2>2, <3>1, <3>2 DEF Behind
  <2>3. CASE Hold1(r) /\ line1 # <<>>
    BY <2>3 DEF Hold1, Behind
  <2> QED BY <1>3, <2>1, <2>2, <2>3
<1>6. Unanswered' = Append(Unanswered, r)
  <2>1. CASE line2 = <<>>
    <3>1. line2' = <<r>> /\ line2' # <<>> /\ line2'[1] = r
      BY <1>3, <2>1
    <3>2. pc'[line2'[1]] # "returning"
      BY <1>2, <3>1
    <3>3. Unanswered' = line2' /\ Unanswered = line2
      BY <2>1, <3>2 DEF Unanswered
    <3> QED BY <1>3, <3>3
  <2>2. CASE line2 # <<>>
    <3>1. line2' # <<>> /\ line2'[1] = line2[1]
      BY <1>3, <2>2, LineFacts, AppendProperties
    <3>2. line2[1] # r /\ line2[1] \in Requests
      BY <2>2, LineFacts DEF AtSocket
    <3>3. pc'[line2'[1]] = pc[line2[1]]
      BY <1>2, <3>1, <3>2
    <3>4. Tail(line2') = Append(Tail(line2), r)
      BY <1>3, <2>2, LineFacts, HeadTailAppend
    <3>5. CASE pc[line2[1]] = "returning"
      BY <2>2, <3>1, <3>3, <3>4, <3>5 DEF Unanswered
    <3>6. CASE pc[line2[1]] # "returning"
      BY <1>3, <2>2, <3>1, <3>3, <3>6 DEF Unanswered
    <3> QED BY <3>5, <3>6
  <2> QED BY <2>1, <2>2
<1> QED BY <1>4, <1>5, <1>6

\* Calling request() is Make.
LEMMA ArriveMakes ==
    ASSUME HttpInv, ~barged', NEW r \in Requests, Arrive(r)
    PROVE  Promise!Make(r)
<1>1. pc[r] = "idle"
  BY DEF Arrive
<1>2. /\ Unanswered \in Seq(Requests) /\ Behind \in Seq(Requests)
      /\ Waiting \in Seq(Requests) /\ Waiting = Unanswered \o Behind
  BY WaitingFacts DEF Waiting
<1>3. \A i \in 1..Len(Waiting) : Waiting[i] # r
  <2>1. PICK u : u = Unanswered
    OBVIOUS
  <2>2. PICK b : b = Behind
    OBVIOUS
  <2>3. /\ Len(Waiting) = Len(u) + Len(b) /\ Len(u) \in Nat /\ Len(b) \in Nat
        /\ \A i \in 1..(Len(u) + Len(b)) : Waiting[i] = IF i <= Len(u) THEN u[i] ELSE b[i - Len(u)]
    BY <1>2, <2>1, <2>2, ConcatProperties
  <2>4. (\A i \in 1..Len(u) : u[i] # r) /\ (\A i \in 1..Len(b) : b[i] # r)
    BY <1>1, <2>1, <2>2, WaitingFacts
  <2>5. ASSUME NEW i \in 1..Len(Waiting) PROVE Waiting[i] # r
    <3>1. CASE i <= Len(u)
      BY <2>3, <2>4, <3>1
    <3>2. CASE ~(i <= Len(u))
      <4>1. i - Len(u) \in 1..Len(b) /\ i \in 1..(Len(u) + Len(b))
        BY <2>3, <3>2
      <4> QED BY <2>3, <2>4, <3>2, <4>1
    <3> QED BY <3>1, <3>2
  <2> QED BY <2>5
<1>4. r \notin {Waiting[i] : i \in DOMAIN Waiting}
  BY <1>2, <1>3
<1>5. Waiting' = Append(Waiting, r) /\ Answered' = Answered
  <2>1. CASE line1 = <<>>
    <3>1. ~inside1 /\ HasMut1(r)
      BY <2>1 DEF Arrive, HttpInv, Line1Inv
    <3>2. /\ Unanswered' = Append(Unanswered, r) /\ Behind' = <<>> /\ Answered' = Answered
      BY <1>1, <2>1, <3>1, JoinsUnanswered
    <3>3. Behind = <<>>
      BY <2>1, <3>1 DEF Behind
    <3>4. Waiting = Unanswered /\ Waiting' = Append(Unanswered, r) \o <<>>
      BY <1>2, <3>2, <3>3, ConcatEmptySeq DEF Waiting
    <3> QED BY <1>2, <3>2, <3>4, AppendProperties, ConcatEmptySeq
  <2>2. CASE line1 # <<>>
    <3>1. inside1 /\ line1' = Append(line1, r) /\ Goto(r, "wait1")
          /\ UNCHANGED <<inside1, line2>>
      BY <2>2 DEF Arrive, Pending, mutex2
    <3>2. \A q \in Requests : pc'[q] = IF q = r THEN "wait1" ELSE pc[q]
      BY <3>1 DEF Goto, HttpInv, TypeInv
    <3>3. Answered' = Answered
      BY <1>1, <3>2 DEF Answered
    <3>4. Unanswered' = Unanswered
      <4>1. line2 # <<>> => pc'[line2[1]] = pc[line2[1]]
        BY <1>1, <3>2, LineFacts DEF AtSocket
      <4> QED BY <3>1, <4>1 DEF Unanswered
    <3>5. Behind' = Append(Behind, r)
      <4>1. Tail(line1') = Append(Tail(line1), r)
        BY <2>2, <3>1, LineFacts, HeadTailAppend
      <4> QED BY <3>1, <4>1 DEF Behind
    <3>6. Waiting' = Unanswered \o Append(Behind, r)
      BY <3>4, <3>5 DEF Waiting
    <3> QED BY <1>2, <3>3, <3>6, AppendBehind
  <2> QED BY <2>1, <2>2
<1>6. r \notin Answered
  BY <1>1 DEF Answered
<1> QED BY <1>4, <1>5, <1>6 DEF Promise!Make, Promise!ToSet, Answered

\* Passing mut1 on is not seen.
LEMMA Enter1Stutters ==
    ASSUME HttpInv, ~barged', NEW r \in Requests, Enter1(r)
    PROVE  Waiting' = Waiting /\ Answered' = Answered
<1>1. line1 # <<>> /\ ~inside1 /\ HasMut1(r) /\ r = line1[1] /\ pc[r] = "wait1"
  BY DEF Enter1, Pending
<1>3. /\ Unanswered' = Append(Unanswered, line1[1]) /\ Behind' = Tail(line1)
      /\ Answered' = Answered
  BY <1>1, JoinsUnanswered
<1>4. Behind = line1 /\ Unanswered \in Seq(Requests) /\ line1 \in Seq(Requests)
  BY <1>1, WaitingFacts, LineFacts DEF Behind
<1>5. Append(Unanswered, line1[1]) \o Tail(line1) = Unanswered \o line1
  BY <1>1, <1>4, HeadAcross
<1> QED BY <1>3, <1>4, <1>5 DEF Waiting

\* So is every step of a request that neither returns nor leaves, and whose
\* lines only move from before it to behind it.
LEMMA StaysWaiting ==
    ASSUME HttpInv, NEW r \in Requests, NEW p, Goto(r, p),
           pc[r] \notin {"returning", "done"}, p \notin {"returning", "done"},
           line2' = line2, Behind' = Behind
    PROVE  Waiting' = Waiting /\ Answered' = Answered
<1>1. \A q \in Requests : pc'[q] = IF q = r THEN p ELSE pc[q]
  BY DEF Goto, HttpInv, TypeInv
<1>2. line2 # <<>> => (pc'[line2[1]] = "returning" <=> pc[line2[1]] = "returning")
  BY <1>1, LineFacts
<1>3. Unanswered' = Unanswered
  BY <1>2 DEF Unanswered
<1>4. Answered' = Answered
  BY <1>1 DEF Answered
<1> QED BY <1>3, <1>4 DEF Waiting

\* Returning is Answer.
LEMMA ReturnAnswers ==
    ASSUME HttpInv, NEW r \in Requests, pc[r] \in {"connect", "status", "body"},
           Goto(r, "returning"), UNCHANGED mutexes
    PROVE  Promise!Answer
<1>1. \A q \in Requests : pc'[q] = IF q = r THEN "returning" ELSE pc[q]
  BY DEF Goto, HttpInv, TypeInv
<1>2. line2 # <<>> /\ line2[1] = r /\ line2 \in Seq(Requests)
  BY OneHolder, LineFacts DEF AtSocket
<1>3. Unanswered = line2 /\ Unanswered' = Tail(line2) /\ Behind' = Behind
  BY <1>1, <1>2 DEF Unanswered, Behind, mutexes, mutex1, mutex2
<1>4. Behind \in Seq(Requests)
  BY WaitingFacts
<1>5. Waiting = line2 \o Behind /\ Waiting' = Tail(line2) \o Behind
  BY <1>3 DEF Waiting
<1>6. Waiting # <<>> /\ Waiting[1] = r /\ Waiting' = Tail(Waiting)
  BY <1>2, <1>4, <1>5, TailOfConcat
<1>7. Answered' = Answered \cup {Waiting[1]}
  BY <1>1, <1>6 DEF Answered
<1> QED BY <1>6, <1>7 DEF Promise!Answer, Answered

\* Handing on the first mutex does not change who is behind.
LEMMA ReleaseKeepsBehind ==
    ASSUME HttpInv, NEW r, Release1(r)
    PROVE  Behind' = Behind
<1>1. CASE Holds1(r)
  <2>1. line1 # <<>> /\ inside1
    BY <1>1 DEF Holds1, HttpInv, Line1Inv
  <2> QED BY <1>1, <2>1 DEF Release1, Pass1, Behind
<1>2. CASE ~Holds1(r)
  BY <1>2 DEF Release1, Behind, mutex1
<1> QED BY <1>1, <1>2

\* Nor does leaving the second line after the answer.
LEMMA UnlockStutters ==
    ASSUME HttpInv, HttpInv', NEW r \in Requests, Unlock(r)
    PROVE  Waiting' = Waiting /\ Answered' = Answered
<1>1. /\ \A q \in Requests : pc'[q] = IF q = r THEN "done" ELSE pc[q]
      /\ pc[r] = "returning" /\ Release1(r)
  BY DEF Unlock, Goto, HttpInv, TypeInv
<1>9. line2' = Without(line2, r) /\ inside2' = (inside2 /\ line2[1] # r)
  BY LeaveFacts DEF Unlock
<1>2. line2 # <<>> /\ line2[1] = r /\ line2 \in Seq(Requests) /\ 1 \in 1..Len(line2)
  BY <1>1, OneHolder, LineFacts DEF AtSocket
<1>3. line2' = Tail(line2)
  <2>1. Distinct(line2) /\ Contains(line2, r)
    BY <1>2 DEF HttpInv, Line2Inv, Contains
  <2>2. PICK i \in 1..Len(line2) : line2[i] = r /\ Without(line2, r) = RemoveAt(line2, i)
    BY <1>2, <2>1, WithoutFacts
  <2>3. i = 1
    BY <1>2, <2>1, <2>2 DEF Distinct
  <2> QED BY <1>9, <1>2, <2>2, <2>3, RemoveInTail
<1>4. Unanswered = Tail(line2)
  BY <1>1, <1>2 DEF Unanswered
<1>5. line2' # <<>> => pc'[line2'[1]] # "returning"
  <2>1. line2' \in Seq(Requests)
    BY <1>2, <1>3, TailFacts
  <2>2. line2' # <<>> => 1 \in 1..Len(line2')
    BY <2>1
  <2> QED BY <1>2, <1>9, <2>2 DEF HttpInv, Line2Inv
<1>6. Unanswered' = Tail(line2)
  BY <1>3, <1>5 DEF Unanswered
<1>7. Behind' = Behind
  BY <1>1, ReleaseKeepsBehind
<1>8. Answered' = Answered
  BY <1>1 DEF Answered
<1> QED BY <1>4, <1>6, <1>7, <1>8 DEF Waiting

\* A cancelled request gives up its place, whichever line it is in.
LEMMA CancelGivesUp ==
    ASSUME HttpInv, NEW r \in Requests, Cancel(r)
    PROVE  \E i \in 1..Len(Waiting) : Promise!GiveUp(i)
<1>1. /\ \A q \in Requests : pc'[q] = IF q = r THEN "cancelled" ELSE pc[q]
      /\ pc[r] \in {"wait1", "wait2", "sent", "connect", "status", "body"}
      /\ line1' = Without(line1, r) /\ line2' = Without(line2, r)
      /\ inside1' = (inside1 /\ line1[1] # r)
  BY LeaveFacts DEF Cancel, Goto, HttpInv, TypeInv
<1>2. Answered' = Answered
  BY <1>1 DEF Answered
<1>3. /\ Unanswered \in Seq(Requests) /\ Behind \in Seq(Requests)
      /\ Waiting = Unanswered \o Behind
  BY WaitingFacts DEF Waiting
<1>4. Distinct(line1) /\ Distinct(line2) /\ line1 \in Seq(Requests) /\ line2 \in Seq(Requests)
  BY LineFacts DEF HttpInv, Line1Inv, Line2Inv
<1>5. CASE pc[r] = "wait1"
  <2>1. line2' = line2
    <3>1. ~Contains(line2, r)
      BY <1>5, LineFacts DEF Contains, AtSocket
    <3> QED BY <1>1, <3>1 DEF Without
  <2>2. Unanswered' = Unanswered
    <3>1. line2 # <<>> => pc'[line2[1]] = pc[line2[1]]
      BY <1>1, <1>5, LineFacts DEF AtSocket
    <3> QED BY <2>1, <3>1 DEF Unanswered
  <2>3. Contains(line1, r)
    BY <1>5 DEF HttpInv, Line1Inv
  <2>4. PICK k \in 1..Len(line1) : line1[k] = r /\ line1' = RemoveAt(line1, k)
    BY <1>1, <1>4, <2>3, WithoutFacts
  <2>5. PICK i \in 1..Len(Behind) : Behind' = RemoveAt(Behind, i)
    <3>1. CASE inside1
      <4>1. line1[1] # r
        BY <1>5, <3>1 DEF HttpInv, Line1Inv
      <4>2. k > 1 /\ inside1'
        <5>1. inside1'
          BY <1>1, <3>1, <4>1
        <5>2. k # 1
          BY <2>4, <4>1
        <5> QED BY <5>1, <5>2
      <4>3. Behind = Tail(line1) /\ Behind' = Tail(line1')
        BY <3>1, <4>2 DEF Behind
      <4>4. /\ k - 1 \in 1..Len(Tail(line1))
            /\ Tail(RemoveAt(line1, k)) = RemoveAt(Tail(line1), k - 1)
        BY <1>4, <4>2, RemoveInTail
      <4> QED BY <2>4, <4>3, <4>4
    <3>2. CASE ~inside1
      BY <1>1, <2>4, <3>2 DEF Behind
    <3> QED BY <3>1, <3>2
  <2>6. /\ Len(Unanswered) + i \in 1..Len(Waiting)
        /\ Waiting' = RemoveAt(Waiting, Len(Unanswered) + i)
    <3>1. Waiting' = Unanswered \o RemoveAt(Behind, i)
      BY <2>2, <2>5 DEF Waiting
    <3> QED BY <1>3, <2>5, <3>1, RemoveRight
  <2> QED BY <1>2, <2>6 DEF Promise!GiveUp, Promise!RemoveAt, RemoveAt, Answered
<1>6. CASE pc[r] # "wait1"
  <2>1. Contains(line2, r)
    BY <1>1, <1>6 DEF HttpInv, Line2Inv
  <2>2. PICK k \in 1..Len(line2) : line2[k] = r /\ line2' = RemoveAt(line2, k)
    BY <1>1, <1>4, <2>1, WithoutFacts
  <2>3. Behind' = Behind
    <3>1. CASE inside1 /\ line1[1] = r
      <4>1. line1 # <<>> /\ inside1' = FALSE /\ 1 \in 1..Len(line1)
        BY <1>1, <3>1, LineFacts DEF HttpInv, Line1Inv
      <4>2. PICK i \in 1..Len(line1) : line1[i] = r /\ line1' = RemoveAt(line1, i)
        <5>1. Contains(line1, r)
          BY <3>1, <4>1 DEF Contains
        <5> QED BY <1>1, <1>4, <5>1, WithoutFacts
      <4>3. i = 1
        BY <1>4, <3>1, <4>1, <4>2 DEF Distinct
      <4>4. line1' = Tail(line1)
        BY <1>4, <4>2, <4>3, RemoveInTail
      <4> QED BY <3>1, <4>1, <4>4 DEF Behind
    <3>2. CASE ~(inside1 /\ line1[1] = r)
      <4>1. ~Contains(line1, r)
        <5> SUFFICES ASSUME NEW i \in 1..Len(line1), line1[i] = r PROVE FALSE
          BY DEF Contains
        <5>1. i > 1 \/ ~inside1
          BY <1>4, <3>2
        <5> QED BY <1>6, <5>1 DEF HttpInv, Line1Inv
      <4>2. line1' = line1 /\ (inside1' <=> inside1)
        BY <1>1, <3>2, <4>1, Zenon DEF Without
      <4> QED BY <4>2 DEF Behind
    <3> QED BY <3>1, <3>2
  <2>4. PICK i \in 1..Len(Unanswered) : Unanswered' = RemoveAt(Unanswered, i)
    <3>1. line2 # <<>> /\ line2[1] \in Requests /\ 1 \in 1..Len(line2)
      BY <2>2, LineFacts
    <3>2. CASE pc[line2[1]] = "returning"
      <4>1. k > 1
        BY <1>1, <2>2, <3>2
      <4>2. /\ line2' # <<>> /\ line2'[1] = line2[1]
            /\ k - 1 \in 1..Len(Tail(line2))
            /\ Tail(line2') = RemoveAt(Tail(line2), k - 1)
        BY <1>4, <2>2, <4>1, RemoveInTail
      <4>3. pc'[line2[1]] = "returning"
        BY <1>1, <3>1, <3>2
      <4>4. Unanswered = Tail(line2) /\ Unanswered' = Tail(line2')
        BY <3>1, <3>2, <4>2, <4>3 DEF Unanswered
      <4> QED BY <4>2, <4>4
    <3>3. CASE pc[line2[1]] # "returning"
      <4>1. line2' # <<>> => pc'[line2'[1]] # "returning"
        <5> SUFFICES ASSUME line2' # <<>> PROVE pc'[line2'[1]] # "returning"
          OBVIOUS
        <5>1. \A j \in 1..Len(line2') : \E i \in 1..Len(line2) : line2'[j] = line2[i] /\ j <= i
          <6>1. Leaves(line2, r, line2')
            BY <1>1, <1>4 DEF Leaves
          <6> QED BY ONLY <6>1, LeaveLine DEF IsLeft
        <5>2. line2' \in Seq(Requests)
          BY <1>4, <2>2, RemoveAtFacts
        <5>3. PICK i \in 1..Len(line2) : line2'[1] = line2[i]
          BY <5>1, <5>2
        <5>4. pc[line2[i]] # "returning" /\ line2[i] \in Requests
          BY <3>3, OneHolder, LineFacts DEF AtSocket
        <5> QED BY <1>1, <5>3, <5>4
      <4>2. Unanswered = line2 /\ Unanswered' = line2'
        BY <3>3, <4>1 DEF Unanswered
      <4> QED BY <2>2, <4>2
    <3> QED BY <3>2, <3>3
  <2>5. i \in 1..Len(Waiting) /\ Waiting' = RemoveAt(Waiting, i)
    <3>1. Waiting' = RemoveAt(Unanswered, i) \o Behind
      BY <2>3, <2>4 DEF Waiting
    <3> QED BY <1>3, <2>4, <3>1, RemoveLeft
  <2> QED BY <1>2, <2>5 DEF Promise!GiveUp, Promise!RemoveAt, RemoveAt, Answered
<1> QED BY <1>5, <1>6

\* Passing mut2 on is not seen, whether the request was sent or not; nor is that a
\* send has failed under a reader.
LEMMA Enter2Stutters ==
    ASSUME HttpInv, ~barged', NEW r \in Requests, Enter2Unsent(r) \/ Enter2Sent(r) \/ Sending(r)
    PROVE  Waiting' = Waiting /\ Answered' = Answered
<1>1. pc[r] \in {"wait2", "sent", "sending"}
  BY DEF Enter2Unsent, Enter2Sent, Sending
<1>2. due = FALSE /\ beside = {}
  BY DEF HttpInv, Line2Inv
<1>3. line2' = line2
  <2>1. CASE Enter2Unsent(r) \/ Enter2Sent(r)
    BY <1>2, <2>1 DEF Enter2Unsent, Enter2Sent, Enter2, Due2, Pending
  <2>2. CASE Sending(r) /\ inside2
    BY <2>2 DEF Sending, mutex2
  <2>3. CASE Sending(r) /\ ~inside2
    <3>1. ~(Len(line2) > 1) /\ line2' = <<r>> \o Without(line2, r) /\ Len(line2) \in Nat
      BY <2>3, LineFacts DEF Sending
    <3>2. Contains(line2, r) /\ Distinct(line2) /\ line2 \in Seq(Requests)
      BY <2>3, LineFacts DEF Sending, HttpInv, Line2Inv
    <3>3. Len(line2) = 1 /\ line2[1] = r
      <4>1. PICK i \in 1..Len(line2) : line2[i] = r
        BY <3>2 DEF Contains
      <4> QED BY <3>1, <3>2, <4>1, OnlyPlace
    <3>4. Without(line2, r) \in Seq(Requests) /\ Len(Without(line2, r)) = Len(line2) - 1
      BY <3>2, WithoutFacts
    <3>5. Without(line2, r) = <<>>
      BY <3>3, <3>4, EmptySeq
    <3>6. line2 = <<r>>
      BY <3>2, <3>3
    <3> QED BY <3>1, <3>5, <3>6
  <2> QED BY <2>1, <2>2, <2>3
<1>4. CASE inside2 /\ Sending(r)
  <2>1. Goto(r, "sent") /\ Behind' = Behind
    BY <1>4 DEF Sending, mutex1, Behind
  <2> QED BY <1>1, <1>3, <2>1, StaysWaiting
<1>5. CASE ~(inside2 /\ Sending(r))
  <2>1. ~inside2
    BY <1>2, <1>5 DEF Enter2Unsent, Enter2Sent, Enter2, Due2, Pending
  <2>2. ~Reader
    BY <2>1, OneHolder DEF Reader, AtSocket
  <2>3. CASE Enter2Unsent(r)
    <3>1. SendsOrAsks(r) /\ pc[r] = "wait2"
      BY <2>2, <2>3, BothFacts DEF Enter2Unsent
    <3>2. \E p \in {"status", "connect"} : Goto(r, p)
      BY <3>1 DEF SendsOrAsks
    <3>3. inside1 /\ line1 # <<>> /\ (Pass1 \/ Hold1(r))
      BY <3>1 DEF SendsOrAsks, HttpInv, Line1Inv
    <3>4. Behind' = Behind
      BY <3>3 DEF Pass1, Hold1, Behind
    <3> QED BY <1>1, <1>3, <3>2, <3>4, StaysWaiting
  <2>4. CASE Enter2Sent(r) \/ Sending(r)
    <3>1. TakesUp(r, mine[r], http) /\ UNCHANGED mutex1
      BY <2>1, <2>4 DEF Enter2Sent, Sending
    <3>2. \E p \in {"status", "connect"} : Goto(r, p)
      BY <2>2, <3>1 DEF TakesUp, Read
    <3>3. Behind' = Behind
      BY <3>1 DEF mutex1, Behind
    <3> QED BY <1>1, <1>3, <3>2, <3>3, StaysWaiting
  <2> QED BY <2>3, <2>4
<1> QED BY <1>4, <1>5

\* Every step of the client is one of RequestLine, or leaves its state alone.
LEMMA StepKeepsOrder ==
    ASSUME HttpInv, HttpInv', ~barged', [Next]_vars
    PROVE  [Promise!Next]_(Promise!lineVars)
<1> DEFINE Hidden == Waiting' = Waiting /\ Answered' = Answered
<1>1. Hidden => UNCHANGED Promise!lineVars
  BY DEF Promise!lineVars, Answered
<1> SUFFICES Promise!Next \/ Hidden
  <2> HIDE DEF Hidden
  <2> QED BY <1>1
<1>2. ASSUME NEW r \in Requests, Arrive(r) PROVE Promise!Next
  BY <1>2, ArriveMakes DEF Promise!Next
<1>3. ASSUME NEW r \in Requests, Cancel(r) PROVE Promise!Next
  BY <1>3, CancelGivesUp DEF Promise!Next
<1>4. ASSUME NEW r \in Requests, Step(r) PROVE Promise!Next \/ Hidden
  <2>1. CASE Connected(r)
    <3>1. /\ pc[r] = "connect" /\ Goto(r, "status") /\ line2' = line2 /\ Release1(r)
      BY <2>1 DEF Connected, Replaces, mutex2, HttpInv, TypeInv, Places
    <3> QED BY <3>1, ReleaseKeepsBehind, StaysWaiting
  <2>2. ASSUME NEW what, SetError(r, what), pc[r] \in {"connect", "status", "body"}
        PROVE  Promise!Next
    <3>1. Goto(r, "returning") /\ UNCHANGED mutexes
      BY <2>2 DEF SetError, Answer, mutexes, mutex1, mutex2
    <3> QED BY <2>2, <3>1, ReturnAnswers DEF Promise!Next
  <2>3. CASE NoStatus(r)
    <3>1. CASE SetError(r, "error")
      BY <2>2, <2>3, <3>1 DEF NoStatus
    <3>2. CASE ~SetError(r, "error")
      <4>1. pc[r] = "status" /\ Goto(r, "connect") /\ line2' = line2 /\ Behind' = Behind
        BY <2>3, <3>2 DEF NoStatus, mutexes, mutex1, mutex2, Behind
      <4> QED BY <4>1, StaysWaiting
    <3> QED BY <3>1, <3>2
  <2>4. CASE Status(r)
    <3>1. pc[r] = "status" /\ Goto(r, "body") /\ line2' = line2 /\ Behind' = Behind
      BY <2>4 DEF Status, mutexes, mutex1, mutex2, Behind
    <3> QED BY <3>1, StaysWaiting
  <2>5. CASE ConnectFails(r) \/ BadAnswer(r)
    <3>1. pc[r] \in {"connect", "status", "body"}
      BY <2>5 DEF ConnectFails, Replaces, BadAnswer, HttpInv, TypeInv, Places
    <3> QED BY <2>2, <2>5, <3>1 DEF ConnectFails, BadAnswer
  <2>6. CASE Body(r) \/ CutBody(r)
    <3>1. pc[r] = "body" /\ Goto(r, "returning") /\ UNCHANGED mutexes
      BY <2>6 DEF Body, CutBody, SetError, Answer, mutexes, mutex1, mutex2
    <3> QED BY <3>1, ReturnAnswers DEF Promise!Next
  <2>7. CASE Unlock(r)
    BY <2>7, UnlockStutters
  <2>8. CASE Enter1(r) \/ Enter2Unsent(r) \/ Enter2Sent(r) \/ Sending(r)
    BY <2>8, Enter1Stutters, Enter2Stutters
  <2>9. ~SendFailed(r) /\ ~Replace(r)
    <3>1. ~(pc[r] = "connect" /\ Reader)
      BY OneHolder DEF Reader, AtSocket
    <3> QED BY <3>1 DEF SendFailed, Replace, HttpInv, TypeInv, Places
  <2> QED BY <1>4, <2>1, <2>3, <2>4, <2>5, <2>6, <2>7, <2>8, <2>9 DEF Step
<1>6. CASE KeepaliveEnds \/ ServerCloses \/ UNCHANGED vars
  <2>1. UNCHANGED <<line1, inside1, line2, pc>>
    BY <1>6 DEF KeepaliveEnds, ServerCloses, mutexes, mutex1, mutex2, vars
  <2> QED BY <2>1 DEF Waiting, Unanswered, Behind, Answered
<1> HIDE DEF Hidden
<1> QED BY <1>2, <1>3, <1>4, <1>6 DEF Next

\* Requests return in the order in which they were made, each at most once,
\* whatever is cancelled, however often the socket is replaced (the test
\* "http 4" of http.cpp), as long as no request takes mut2 past one that waits
\* for it: until then, the client implements RequestLine.
THEOREM AnswersInOrder == Spec => KeepsOrder
<1>1. Init => Promise!Init
  <2> SUFFICES ASSUME Init PROVE Promise!Init
    OBVIOUS
  <2>1. Unanswered = <<>> /\ Behind = <<>>
    BY DEF Init, Unanswered, Behind
  <2>2. <<>> \o <<>> = <<>>
    BY EmptySeq, ConcatEmptySeq
  <2>3. Waiting = <<>>
    BY <2>1, <2>2 DEF Waiting
  <2>4. Answered = {}
    BY DEF Init, Answered
  <2> QED BY <2>3, <2>4 DEF Promise!Init, Answered
<1>2. barged \in BOOLEAN /\ (~barged => HttpInv) /\ (~barged => HttpInv)' /\ [Next]_vars
      => [barged' \/ Promise!Next]_<<Waiting, Answered>>
  <2> SUFFICES ASSUME barged \in BOOLEAN, ~barged => HttpInv, ~barged' => HttpInv', [Next]_vars,
                      ~barged'
               PROVE  [Promise!Next]_<<Waiting, Answered>>
    OBVIOUS
  <2>1. HttpInv /\ HttpInv'
    BY BargedStep
  <2>2. [Promise!Next]_(Promise!lineVars)
    BY <2>1, StepKeepsOrder
  <2> QED BY <2>2 DEF Promise!lineVars, Answered
<1>3. Init => barged \in BOOLEAN
  BY SendsInit
<1>4. barged \in BOOLEAN /\ [Next]_vars => (barged \in BOOLEAN)'
  BY BargedStep
<1> QED BY <1>1, <1>2, <1>3, <1>4, HttpInvariant, PTL DEF Spec, KeepsOrder
=============================================================================

---------------------------------- MODULE Dns ----------------------------------
(***************************************************************************)
(* class dns_t, src/arlib/dns.cpp: the lookups of one runloop share a UDP  *)
(* socket and a timer.  A lookup lives in a slot of an allocatable_array   *)
(* until it is answered, has expired as often as it may, or is cancelled.  *)
(*                                                                         *)
(* Completing a lookup runs client code in the middle of complete_recv()   *)
(* or of the loop of timeout(), and client code may ask and cancel; asking *)
(* runs timeout() again, below the first.  Each lookup is for a name of    *)
(* its own.  Packets to and from the server are lost, delayed, doubled and *)
(* reordered; the socket has a port of its own, so they die with it.       *)
(***************************************************************************)
EXTENDS Naturals, FiniteSets, SequencesExt

CONSTANTS
    Lookups,    \* the clients' waiters
    Trids,      \* transaction ids
    Period,     \* what a try is given (two seconds), in units of time
    MaxTries,   \* the most tries a lookup asks for
    None,       \* no lookup, no slot
    Restart     \* whether the callback of an expired lookup may ask again

ASSUME DnsOK == /\ IsFiniteSet(Lookups)
                /\ Lookups \cap {"none", "asked", "failed", "cancelled"} = {}
                /\ Period \in Nat \ {0} /\ MaxTries \in Nat \ {0}
                /\ None \notin Lookups \cup Nat /\ Restart \in BOOLEAN

\* The array has a slot for every lookup: how it grows is RunloopPoll's.
Size == Cardinality(Lookups)
Slots == 0..(Size - 1)

\* A time later than every deadline: timestamp::at_never().
Never == Period + 1

VARIABLES
    node,       \* waiting: what is in each slot
    free,       \* its free list, the next slot first
    sock,       \* whether there is a socket
    recvW,      \* whether recv_w waits for a packet
    timer,      \* the time until time_w fires, or Never
    net,        \* packets on this socket that may still arrive
    loops,      \* the calls of timeout() on the stack, the innermost last
    running,    \* whether the innermost is at work, and not client code
    receiving,  \* whether complete_recv() is on the stack, below them
    result      \* per lookup, what its waiter was given

vars == <<node, free, sock, recvW, timer, net, loops, running, receiving, result>>
stack == <<loops, running, receiving>>
socket == <<sock, recvW, net>>

Empty == [who |-> None, trid |-> None, left |-> 0, retries |-> 0]

Init ==
    /\ node = [i \in Slots |-> Empty]
    /\ free = [k \in 1..Size |-> k - 1]
    /\ sock = FALSE /\ recvW = FALSE
    /\ timer = Never
    /\ net = {}
    /\ loops = <<>> /\ running = FALSE /\ receiving = FALSE
    /\ result = [l \in Lookups |-> "none"]

-----------------------------------------------------------------------------
\* A lookup has no waiter until await_lookup() has returned.
HasWaiter(i) == node[i].who # None /\ \A k \in 1..Len(loops) : loops[k].special # i

ClientRuns == ~running

\* The runloop is at work, and none of this code.
Idle == ~running /\ loops = <<>> /\ ~receiving

\* The slot is free, but keeps its contents until the next alloc().
Dealloc(i) ==
    /\ node' = [node EXCEPT ![i] = Empty]
    /\ free' = <<i>> \o free

Packet(i) == [trid |-> node[i].trid, name |-> node[i].who]

\* pick_trid().
UnusedTrids == {t \in Trids : \A i \in Slots : HasWaiter(i) => node[i].trid # t}

\* await_lookup() of a name that has to be asked for, up to its timeout(n).
AwaitLookup(l, t, tries) ==
    /\ ClientRuns /\ result[l] # "asked"
    /\ loops # <<>> => Restart
    /\ free # <<>>
    /\ t \in UnusedTrids
    /\ LET i == Head(free)
       IN  /\ node' = [node EXCEPT ![i] = [who |-> l, trid |-> t, left |-> Period,
                                           retries |-> tries - 1]]
           /\ loops' = Append(loops, [at |-> 0, next |-> Never, special |-> i])
    /\ free' = Tail(free)
    /\ running' = TRUE
    /\ sock' = TRUE /\ recvW' = (recvW \/ ~sock)
    /\ net' = net \cup {[trid |-> t, name |-> l]}
    /\ result' = [result EXCEPT ![l] = "asked"]
    /\ UNCHANGED <<timer, receiving>>

\* await_lookup() of an address, a name in /etc/hosts or an invalid one, or
\* where there is no resolver: my_complete() returns the slot at once.
AwaitKnown(l) ==
    /\ ClientRuns /\ result[l] # "asked"
    /\ \E r \in {l, "failed"} : result' = [result EXCEPT ![l] = r]
    /\ UNCHANGED <<node, free, socket, timer, stack>>

\* Fault: the slot is not given back.
CancelKeepsSlot(i) ==
    /\ ClientRuns /\ HasWaiter(i)
    /\ result' = [result EXCEPT ![node[i].who] = "cancelled"]
    /\ UNCHANGED <<node, free, socket, timer, stack>>

\* Fault: the timer is stopped when nobody waits any more.
CancelStopsTimer(i) ==
    /\ ClientRuns /\ HasWaiter(i)
    /\ Dealloc(i)
    /\ result' = [result EXCEPT ![node[i].who] = "cancelled"]
    /\ timer' = IF \A j \in Slots \ {i} : ~HasWaiter(j) THEN Never ELSE timer
    /\ UNCHANGED <<socket, stack>>

\* waiter_node::cancel(): the socket and the timer stay.
Cancel(i) ==
    /\ ClientRuns /\ HasWaiter(i)
    /\ Dealloc(i)
    /\ result' = [result EXCEPT ![node[i].who] = "cancelled"]
    /\ UNCHANGED <<socket, timer, stack>>

-----------------------------------------------------------------------------
\* parse_reply(): a packet in reply to a query for another name, which an earlier
\* lookup with the same id sent, is none; any other has an address or not.
Answers(p, name) == IF p.name = name THEN {p.name, "failed"} ELSE {"failed"}

\* complete_recv() up to the client's callback.  A packet that matches no
\* lookup changes nothing.
Receive(p, i) ==
    /\ Idle /\ sock /\ recvW
    /\ HasWaiter(i) /\ node[i].trid = p.trid
    /\ Dealloc(i)
    /\ \E r \in Answers(p, node[i].who) : result' = [result EXCEPT ![node[i].who] = r]
    /\ recvW' = FALSE /\ receiving' = TRUE
    /\ UNCHANGED <<sock, net, timer, loops, running>>

\* The callback returns and complete_recv() listens again.
ReceiveReturns ==
    /\ receiving /\ ~running /\ loops = <<>> /\ sock
    /\ recvW' = TRUE /\ receiving' = FALSE
    /\ UNCHANGED <<node, free, sock, net, timer, loops, running, result>>

\* time_w fires: timeout(nullptr).
TimerFires ==
    /\ Idle /\ timer = 0
    /\ timer' = Never
    /\ loops' = <<[at |-> 0, next |-> Never, special |-> None]>>
    /\ running' = TRUE
    /\ UNCHANGED <<node, free, socket, receiving, result>>

-----------------------------------------------------------------------------
(* The loop of timeout(), one slot at a time.                              *)

\* Fault: the lookup that is about to wait is passed over like a free slot.
SeenIfWaiting(f) == HasWaiter(f.at)

Seen(f) == HasWaiter(f.at) \/ f.special = f.at

Earlier(s, t) == IF s < t THEN s ELSE t

At(f) == running /\ loops # <<>> /\ f = Last(loops) /\ f.at \in Slots

Advance(f, next) ==
    loops' = Append(Front(loops), [f EXCEPT !.at = @ + 1, !.next = next])

\* Nothing to do for this slot but to remember its deadline.
Pass(f) ==
    /\ At(f)
    /\ Seen(f) => node[f.at].left > 0
    /\ Advance(f, IF Seen(f) THEN Earlier(f.next, node[f.at].left) ELSE f.next)
    /\ UNCHANGED <<node, free, socket, timer, running, receiving, result>>

\* Fault: the new deadline is not remembered.
RetryUntimed(f) ==
    /\ At(f) /\ Seen(f) /\ node[f.at].left = 0 /\ node[f.at].retries > 0 /\ sock
    /\ node' = [node EXCEPT ![f.at].retries = @ - 1, ![f.at].left = Period]
    /\ net' = net \cup {Packet(f.at)}
    /\ Advance(f, f.next)
    /\ UNCHANGED <<free, sock, recvW, timer, running, receiving, result>>

\* The lookup is sent again.  What that does without a socket is undefined, so
\* no action says.
Retry(f) ==
    /\ At(f) /\ Seen(f) /\ node[f.at].left = 0 /\ node[f.at].retries > 0 /\ sock
    /\ node' = [node EXCEPT ![f.at].retries = @ - 1, ![f.at].left = Period]
    /\ net' = net \cup {Packet(f.at)}
    /\ Advance(f, Earlier(f.next, Period))
    /\ UNCHANGED <<free, sock, recvW, timer, running, receiving, result>>

\* The lookup has failed, and its client's callback runs.
Expire(f) ==
    /\ At(f) /\ Seen(f) /\ node[f.at].left = 0 /\ node[f.at].retries = 0
    /\ Dealloc(f.at)
    /\ result' = [result EXCEPT ![node[f.at].who] = "failed"]
    /\ running' = FALSE
    /\ Advance(f, f.next)
    /\ UNCHANGED <<socket, timer, receiving>>

\* That callback returns to the loop.
CallbackReturns ==
    /\ ~running /\ loops # <<>>
    /\ running' = TRUE
    /\ UNCHANGED <<node, free, socket, timer, loops, receiving, result>>

\* Fault: the timer is left to whoever set it first.
TimeoutReturnsUntimed ==
    /\ running /\ loops # <<>> /\ Last(loops).at = Size
    /\ loops' = Front(loops) /\ running' = FALSE
    /\ IF Last(loops).next = Never
       THEN sock' = FALSE /\ recvW' = FALSE /\ net' = {}
       ELSE UNCHANGED socket
    /\ UNCHANGED <<node, free, timer, receiving, result>>

\* The loop is over: the socket is closed if no deadline was seen, and else
\* the timer is set unless it is.  If it was await_lookup() that called, it
\* returns to its client, who waits from now on.
TimeoutReturns ==
    /\ running /\ loops # <<>> /\ Last(loops).at = Size
    /\ loops' = Front(loops) /\ running' = FALSE
    /\ IF Last(loops).next = Never
       THEN sock' = FALSE /\ recvW' = FALSE /\ net' = {} /\ UNCHANGED timer
       ELSE UNCHANGED socket /\ timer' = IF timer = Never THEN Last(loops).next ELSE timer
    /\ UNCHANGED <<node, free, receiving, result>>

\* A unit of time passes.
TimePasses ==
    /\ Idle
    /\ node' = [i \in Slots |-> [node[i] EXCEPT !.left = IF @ = 0 THEN 0 ELSE @ - 1]]
    /\ timer' = IF timer \in {0, Never} THEN timer ELSE timer - 1
    /\ UNCHANGED <<free, socket, stack, result>>

Client ==
    \/ \E l \in Lookups, t \in Trids, tries \in 1..MaxTries : AwaitLookup(l, t, tries)
    \/ \E l \in Lookups : AwaitKnown(l)
    \/ \E i \in Slots : Cancel(i)

Loop == TimeoutReturns \/ \E k \in 1..Len(loops) :
            Pass(loops[k]) \/ Retry(loops[k]) \/ Expire(loops[k])

Returns == CallbackReturns \/ ReceiveReturns

Next ==
    \/ Client \/ Loop \/ Returns \/ TimerFires \/ TimePasses
    \/ \E p \in net, i \in Slots : Receive(p, i)

Spec == Init /\ [][Next]_vars

\* The loop runs, callbacks return whatever they do, time passes, and the
\* runloop reports a timeout that is due.  No packet need ever arrive.
FairSpec ==
    /\ Spec
    /\ WF_vars(Loop) /\ SF_vars(Returns)
    /\ SF_vars(TimePasses) /\ SF_vars(TimerFires)

-----------------------------------------------------------------------------
TypeOK ==
    /\ node \in [Slots -> [who : Lookups \cup {None}, trid : Trids \cup {None},
                           left : 0..Period, retries : 0..(MaxTries - 1)]]
    /\ free \in Seq(Slots)
    /\ sock \in BOOLEAN /\ recvW \in BOOLEAN
    /\ timer \in 0..Never
    /\ net \subseteq [trid : Trids, name : Lookups]
    /\ loops \in Seq([at : 0..Size, next : 0..Never, special : Slots \cup {None}])
    /\ running \in BOOLEAN /\ receiving \in BOOLEAN
    /\ result \in [Lookups -> Lookups \cup {"none", "asked", "failed", "cancelled"}]

\* Whoever waits for an answer can hear it: the socket is there, and the
\* runloop watches it or complete_recv() is about to ask it to, on that socket.
\* The loop "don't foreach, it'll break if waiting grows (due to completing
\* anything)" (dns.cpp:315) lets a completed lookup start another.
Heard ==
    /\ receiving => sock
    /\ \A i \in Slots : HasWaiter(i) => sock /\ (recvW \/ receiving)

\* The timer fires no later than the first deadline, although lookups come,
\* go and are tried again while it runs.
TimerEarly == loops = <<>> => \A i \in Slots : HasWaiter(i) => timer <= node[i].left

\* Two lookups that wait have different ids, so a packet for one never fails
\* the other.
DistinctTrids ==
    \A i, j \in Slots : HasWaiter(i) /\ HasWaiter(j) /\ node[i].trid = node[j].trid => i = j

\* A slot is on the free list, once, or holds the one lookup that waits in it.
SlotsWhole ==
    /\ IsInjective(free)
    /\ ToSet(free) = {i \in Slots : node[i].who = None}
    /\ \A l \in Lookups : Cardinality({i \in Slots : node[i].who = l}) =
                              (IF result[l] = "asked" THEN 1 ELSE 0)

\* Every lookup ends, also if no packet ever arrives.
LookupEnds == \A l \in Lookups : result[l] = "asked" ~> result[l] # "asked"

\* When nobody waits any more the socket is closed, unless somebody asks again:
\* neither an answer nor a cancellation closes it, only the loop that the timer
\* set for a lookup that is gone still runs (dns.cpp:338-342).
SocketCloses ==
    (sock /\ \A l \in Lookups : result[l] # "asked")
        ~> (~sock \/ \E l \in Lookups : result[l] = "asked")
=============================================================================

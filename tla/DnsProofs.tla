------------------------------ MODULE DnsProofs ------------------------------
(***************************************************************************)
(* Proofs about Dns for any number of lookups, tries and ids.              *)
(*                                                                         *)
(* The first part takes the callbacks of expired lookups not to ask again  *)
(* (Restart = FALSE): then at most one call of timeout() is on the stack,  *)
(* and what it has passed does not change below it, which is what keeps    *)
(* the socket and the timer right.  The second part holds for any stack.   *)
(***************************************************************************)
EXTENDS Dns, FiniteSetTheorems, SequenceTheorems, TLAPS

Node == [who : Lookups \cup {None}, trid : Trids \cup {None},
         left : 0..Period, retries : 0..(MaxTries - 1)]

Frame == [at : 0..Size, next : 0..Never, special : Slots \cup {None}]

\* Types, and the shape of the stack.
StackInv ==
    /\ node \in [Slots -> Node]
    /\ \A i \in Slots : node[i].who # None => node[i].trid \in Trids
    /\ free \in Seq(Slots)
    /\ sock \in BOOLEAN /\ recvW \in BOOLEAN
    /\ timer \in 0..Never
    /\ net \subseteq [trid : Trids, name : Lookups]
    /\ running \in BOOLEAN /\ receiving \in BOOLEAN
    /\ result \in [Lookups -> Lookups \cup {"none", "asked", "failed", "cancelled"}]
    /\ loops = <<>> \/ \E f \in Frame : loops = <<f>>
    /\ loops = <<>> => ~running

Used(i) == node[i].who # None

\* The socket lives as long as a lookup does, and somebody listens to it.
SocketInv ==
    /\ \A i \in Slots : Used(i) => sock
    /\ receiving => sock
    /\ sock => recvW \/ receiving

\* The call on the stack remembers the first deadline of what it has passed,
\* and the lookup that called it is in its slot with all its time left.
LoopInv ==
    loops # <<>> =>
        /\ \A i \in Slots : i < loops[1].at /\ Used(i) => loops[1].next <= node[i].left
        /\ loops[1].special # None =>
              Used(loops[1].special) /\ node[loops[1].special].left = Period
        /\ receiving => loops[1].special # None

\* The timer is early enough, or timeout() is about to set it.
TimerInv ==
    \A i \in Slots : Used(i) => timer <= node[i].left \/ (timer = Never /\ loops # <<>>)

HeardInv == StackInv /\ SocketInv /\ LoopInv /\ TimerInv

-----------------------------------------------------------------------------
\* There are as many slots as lookups, finitely many.
LEMMA SizeNat == Size \in Nat /\ Period \in Nat \ {0} /\ MaxTries \in Nat \ {0}
BY DnsOK, FS_CardinalityType DEF Size

\* What the sequence operators do to a stack of one call.
LEMMA OneFrame ==
    ASSUME NEW f, NEW g, loops = <<f>>
    PROVE  /\ Front(loops) = <<>>
           /\ Last(loops) = f
           /\ Append(Front(loops), g) = <<g>>
           /\ Len(loops) = 1 /\ loops[1] = f
           /\ loops # <<>>
<1>1. Len(loops) = 1 /\ loops[1] = f /\ loops # <<>>
  OBVIOUS
<1>2. loops \in Seq({f})
  OBVIOUS
<1>3. Front(loops) = <<>>
  BY <1>1, <1>2 DEF Front
<1>4. Append(<<>>, g) = <<g>>
  OBVIOUS
<1> QED BY <1>1, <1>3, <1>4 DEF Last

\* The initial states are fine.
LEMMA HeardInit == Init => HeardInv
<1> SUFFICES ASSUME Init PROVE HeardInv
  OBVIOUS
<1> USE DEF Init
<1>1. Empty \in Node
  BY SizeNat DEF Empty, Node
<1>2. free \in Seq(Slots)
  BY SizeNat DEF Slots
<1>3. node \in [Slots -> Node]
  BY <1>1
<1>4. timer \in 0..Never
  BY SizeNat DEF Never
<1>5. result \in [Lookups -> Lookups \cup {"none", "asked", "failed", "cancelled"}]
  OBVIOUS
<1>6. StackInv
  BY <1>2, <1>3, <1>4, <1>5 DEF StackInv, Empty
<1>7. SocketInv /\ LoopInv /\ TimerInv
  BY DEF SocketInv, LoopInv, TimerInv, Used, Empty
<1> QED BY <1>6, <1>7 DEF HeardInv

\* Giving a slot back keeps the types, and makes nothing used.
LEMMA DeallocFacts ==
    ASSUME StackInv, NEW i \in Slots, Dealloc(i)
    PROVE  /\ node' \in [Slots -> Node] /\ free' \in Seq(Slots)
           /\ \A j \in Slots : j # i => node'[j] = node[j]
           /\ \A j \in Slots : Used(j)' => j # i /\ Used(j)
           /\ \A j \in Slots : node'[j].who # None => node'[j].trid \in Trids
<1>1. Empty \in Node
  BY SizeNat DEF Empty, Node
<1>2. node' \in [Slots -> Node] /\ \A j \in Slots : j # i => node'[j] = node[j]
  BY <1>1 DEF StackInv, Dealloc
<1>3. node'[i].who = None
  BY DEF StackInv, Dealloc, Empty
<1>4. free' \in Seq(Slots)
  BY ConcatProperties DEF StackInv, Dealloc
<1> QED BY <1>2, <1>3, <1>4 DEF Used, StackInv

\* A client asks, from the runloop or from the callback of an answer.
LEMMA AwaitLookupStep ==
    ASSUME Restart = FALSE, HeardInv,
           NEW l \in Lookups, NEW t \in Trids, NEW tries \in 1..MaxTries,
           AwaitLookup(l, t, tries)
    PROVE  HeardInv'
<1> USE SizeNat DEF HeardInv
<1> DEFINE i == Head(free)
           f == [at |-> 0, next |-> Never, special |-> i]
<1>1. loops = <<>> /\ loops' = <<f>> /\ loops' # <<>> /\ loops'[1] = f
  <2>1. loops = <<>>
    BY Zenon DEF AwaitLookup
  <2>2. loops' = Append(loops, f)
    BY DEF AwaitLookup
  <2>3. Append(<<>>, f) = <<f>>
    OBVIOUS
  <2> QED BY <2>1, <2>2, <2>3
<1>2. i \in Slots /\ Tail(free) \in Seq(Slots)
  BY DEF StackInv, AwaitLookup
<1> HIDE DEF i
<1>3. f \in Frame
  BY <1>2 DEF Frame, Never
<1> DEFINE new == [who |-> l, trid |-> t, left |-> Period, retries |-> tries - 1]
<1>4. new \in Node
  BY DEF Node
<1>5. node' = [node EXCEPT ![i] = new]
  BY DEF AwaitLookup, i
<1> HIDE DEF f, new
<1>6. StackInv'
  <2>1. /\ node' \in [Slots -> Node]
        /\ \A j \in Slots : node'[j].who # None => node'[j].trid \in Trids
    BY <1>4, <1>5 DEF StackInv, new
  <2>2. free' \in Seq(Slots)
    BY <1>2 DEF AwaitLookup
  <2>3. loops' = <<>> \/ \E g \in Frame : loops' = <<g>>
    BY <1>1, <1>3
  <2>4. net' \subseteq [trid : Trids, name : Lookups]
    BY DEF AwaitLookup, StackInv
  <2>5. result' \in [Lookups -> Lookups \cup {"none", "asked", "failed", "cancelled"}]
    BY DEF AwaitLookup, StackInv
  <2> QED BY <1>1, <2>1, <2>2, <2>3, <2>4, <2>5 DEF AwaitLookup, StackInv
<1>7. SocketInv'
  BY DEF SocketInv, StackInv, AwaitLookup
<1>8. node'[i] = new /\ new.left = Period /\ new.who # None
  BY <1>2, <1>5, DnsOK DEF StackInv, new
<1>9. f.at = 0 /\ f.special = i
  BY DEF f
<1>10. LoopInv'
  <2>1. \A j \in Slots : ~(j < 0)
    BY DEF Slots
  <2>2. i # None
    BY <1>2, DnsOK DEF Slots
  <2> QED BY <1>1, <1>8, <1>9, <2>1, <2>2 DEF LoopInv, Used
<1>11. TimerInv'
  <2> SUFFICES ASSUME NEW j \in Slots, Used(j)'
               PROVE  timer' <= node'[j].left \/ (timer' = Never /\ loops' # <<>>)
    BY DEF TimerInv
  <2>1. timer' = timer /\ timer \in 0..Never
    BY DEF AwaitLookup, StackInv
  <2>2. CASE j = i
    BY <1>1, <1>8, <2>1, <2>2 DEF Never
  <2>3. CASE j # i
    <3>1. node'[j] = node[j] /\ Used(j)
      BY <1>5, <2>3 DEF StackInv, Used
    <3> QED BY <1>1, <2>1, <3>1 DEF TimerInv
  <2> QED BY <2>2, <2>3
<1> QED BY <1>6, <1>7, <1>10, <1>11

\* A name that need not be asked for changes nothing but a result.
LEMMA AwaitKnownStep ==
    ASSUME HeardInv, NEW l \in Lookups, AwaitKnown(l)
    PROVE  HeardInv'
<1>1. StackInv'
  BY DEF HeardInv, StackInv, AwaitKnown, socket, stack
<1>2. SocketInv' /\ LoopInv' /\ TimerInv'
  BY DEF HeardInv, SocketInv, LoopInv, TimerInv, Used, AwaitKnown, socket, stack
<1> QED BY <1>1, <1>2 DEF HeardInv

\* A slot that has a waiter is given back: nothing new is used, and the lookup
\* that is about to wait keeps its slot.
LEMMA FreedSlot ==
    ASSUME HeardInv, NEW i \in Slots, HasWaiter(i), Dealloc(i),
           UNCHANGED <<sock, timer, loops>>,
           receiving' => sock /\ (receiving \/ loops = <<>>),
           sock' => recvW' \/ receiving'
    PROVE  SocketInv' /\ LoopInv' /\ TimerInv'
<1> USE DEF HeardInv
<1>1. /\ \A j \in Slots : j # i => node'[j] = node[j]
      /\ \A j \in Slots : Used(j)' => j # i /\ Used(j)
  BY DeallocFacts
<1>2. SocketInv'
  BY <1>1 DEF SocketInv
<1>3. TimerInv'
  BY <1>1 DEF TimerInv
<1>4. LoopInv'
  <2> SUFFICES ASSUME loops # <<>> PROVE LoopInv'
    BY DEF LoopInv
  <2>1. PICK f \in Frame : loops = <<f>>
    BY DEF StackInv
  <2>2. loops[1] = f /\ Len(loops) = 1
    BY <2>1
  <2>3. f.special # i
    BY <2>2 DEF HasWaiter
  <2>4. f.special # None => f.special \in Slots
    BY DEF Frame
  <2>5. f.special # None => Used(f.special)' /\ node'[f.special].left = Period
    BY <1>1, <2>2, <2>3, <2>4 DEF LoopInv, Used
  <2>6. \A j \in Slots : j < f.at /\ Used(j)' => f.next <= node'[j].left
    BY <1>1, <2>2 DEF LoopInv
  <2> QED BY <2>2, <2>5, <2>6 DEF LoopInv
<1> QED BY <1>2, <1>3, <1>4

\* A client cancels.
LEMMA CancelStep ==
    ASSUME HeardInv, NEW i \in Slots, Cancel(i)
    PROVE  HeardInv'
<1>1. /\ node' \in [Slots -> Node] /\ free' \in Seq(Slots)
      /\ \A j \in Slots : node'[j].who # None => node'[j].trid \in Trids
  BY DeallocFacts DEF HeardInv, Cancel
<1>2. StackInv'
  BY <1>1 DEF HeardInv, StackInv, Cancel, socket, stack
<1>3. SocketInv' /\ LoopInv' /\ TimerInv'
  BY FreedSlot DEF HeardInv, SocketInv, Cancel, StackInv, LoopInv, socket, stack
<1> QED BY <1>2, <1>3 DEF HeardInv

\* A packet is taken from the socket.
LEMMA ReceiveStep ==
    ASSUME HeardInv, NEW p \in net, NEW i \in Slots, Receive(p, i)
    PROVE  HeardInv'
<1>1. /\ node' \in [Slots -> Node] /\ free' \in Seq(Slots)
      /\ \A j \in Slots : node'[j].who # None => node'[j].trid \in Trids
  BY DeallocFacts DEF HeardInv, Receive
<1>2. node[i].who \in Lookups
  BY DEF HeardInv, StackInv, Receive, HasWaiter, Node
<1>3. result' \in [Lookups -> Lookups \cup {"none", "asked", "failed", "cancelled"}]
  BY <1>2 DEF HeardInv, StackInv, Receive, Answers
<1>4. StackInv'
  BY <1>1, <1>3 DEF HeardInv, StackInv, Receive, Idle
<1>5. SocketInv' /\ LoopInv' /\ TimerInv'
  BY FreedSlot DEF Receive, Idle
<1> QED BY <1>4, <1>5 DEF HeardInv

\* complete_recv() listens again.
LEMMA ReceiveReturnsStep ==
    ASSUME HeardInv, ReceiveReturns
    PROVE  HeardInv'
<1>1. StackInv'
  BY DEF HeardInv, StackInv, ReceiveReturns
<1>2. SocketInv' /\ LoopInv' /\ TimerInv'
  BY DEF HeardInv, SocketInv, LoopInv, TimerInv, Used, ReceiveReturns
<1> QED BY <1>1, <1>2 DEF HeardInv

\* timeout() is called by the timer.
LEMMA TimerFiresStep ==
    ASSUME HeardInv, TimerFires
    PROVE  HeardInv'
<1> USE SizeNat DEF HeardInv
<1> DEFINE f == [at |-> 0, next |-> Never, special |-> None]
<1>1. f \in Frame
  BY DEF Frame, Never
<1>2. loops' = <<f>> /\ loops'[1] = f /\ loops' # <<>>
  BY DEF TimerFires
<1>3. f.at = 0 /\ f.special = None
  OBVIOUS
<1> HIDE DEF f
<1>4. StackInv'
  <2>1. timer' \in 0..Never
    BY DEF TimerFires, Never
  <2>2. \E g \in Frame : loops' = <<g>>
    BY <1>1, <1>2
  <2> QED BY <1>2, <2>1, <2>2 DEF StackInv, TimerFires, socket
<1>5. SocketInv'
  BY DEF SocketInv, Used, TimerFires, socket
<1>6. LoopInv'
  <2>1. \A j \in Slots : ~(j < 0)
    BY DEF Slots
  <2>2. ~receiving'
    BY DEF TimerFires, Idle
  <2> QED BY <1>2, <1>3, <2>1, <2>2 DEF LoopInv
<1>7. TimerInv'
  BY <1>2 DEF TimerInv, TimerFires
<1> QED BY <1>4, <1>5, <1>6, <1>7

\* The loop goes on after a callback.
LEMMA CallbackReturnsStep ==
    ASSUME HeardInv, CallbackReturns
    PROVE  HeardInv'
<1>1. StackInv'
  BY DEF HeardInv, StackInv, CallbackReturns, socket
<1>2. SocketInv' /\ LoopInv' /\ TimerInv'
  BY DEF HeardInv, SocketInv, LoopInv, TimerInv, Used, CallbackReturns, socket
<1> QED BY <1>1, <1>2 DEF HeardInv

\* A unit of time passes.
LEMMA TimePassesStep ==
    ASSUME HeardInv, TimePasses
    PROVE  HeardInv'
<1> USE SizeNat DEF HeardInv
<1>1. loops = <<>> /\ loops' = <<>> /\ ~receiving /\ ~receiving' /\ ~running'
  BY DEF TimePasses, Idle, stack
<1>2. ASSUME NEW j \in Slots
      PROVE  /\ node'[j] \in Node
             /\ Used(j)' = Used(j) /\ node'[j].trid = node[j].trid
             /\ node'[j].left = IF node[j].left = 0 THEN 0 ELSE node[j].left - 1
  <2>1. node[j] \in Node
    BY DEF StackInv
  <2> DEFINE m == IF node[j].left = 0 THEN 0 ELSE node[j].left - 1
  <2>2. m \in 0..Period
    BY <2>1 DEF Node
  <2>3. node'[j] = [node[j] EXCEPT !.left = m]
    BY DEF TimePasses
  <2> HIDE DEF m
  <2>4. /\ node'[j] \in Node /\ node'[j].who = node[j].who /\ node'[j].left = m
        /\ node'[j].trid = node[j].trid
    BY <2>1, <2>2, <2>3 DEF Node
  <2> QED BY <2>4 DEF Used, m
<1>3. node' \in [Slots -> Node]
  <2>1. node' = [j \in Slots |-> node'[j]]
    BY DEF TimePasses
  <2> QED BY <1>2, <2>1
<1>4. timer' \in 0..Never
  BY DEF TimePasses, StackInv, Never
<1>5. StackInv'
  BY <1>1, <1>2, <1>3, <1>4 DEF StackInv, TimePasses, socket, stack, Used
<1>6. SocketInv' /\ LoopInv'
  BY <1>1, <1>2 DEF SocketInv, LoopInv, TimePasses, socket
<1>7. TimerInv'
  <2> SUFFICES ASSUME NEW j \in Slots, Used(j)' PROVE timer' <= node'[j].left
    BY DEF TimerInv
  <2>1. timer <= node[j].left
    BY <1>1, <1>2 DEF TimerInv
  <2>2. node[j].left \in 0..Period /\ timer \in 0..Never
    BY DEF StackInv, Node
  <2>3. node'[j].left = IF node[j].left = 0 THEN 0 ELSE node[j].left - 1
    BY <1>2
  <2>4. timer # Never
    BY <2>1, <2>2 DEF Never
  <2>5. timer' = IF timer = 0 THEN 0 ELSE timer - 1
    BY <2>2, <2>4 DEF TimePasses
  <2> QED BY <2>1, <2>2, <2>3, <2>5
<1> QED BY <1>5, <1>6, <1>7

-----------------------------------------------------------------------------
(* The loop of timeout().                                                  *)

\* The loop goes on to the next slot, with the deadline `next'.
LEMMA AdvanceFacts ==
    ASSUME HeardInv, NEW k \in 1..Len(loops), At(loops[k]),
           NEW next \in 0..Never, Advance(loops[k], next)
    PROVE  /\ loops # <<>> /\ loops[k] = loops[1]
           /\ loops[1] \in Frame /\ loops[1].at \in Slots
           /\ \E g \in Frame : loops' = <<g>>
           /\ loops' # <<>>
           /\ loops'[1].at = loops[1].at + 1
           /\ loops'[1].next = next
           /\ loops'[1].special = loops[1].special
<1>1. PICK f \in Frame : loops = <<f>>
  BY DEF HeardInv, StackInv
<1>2. Len(loops) = 1 /\ loops[1] = f /\ loops # <<>> /\ k = 1
  BY <1>1
<1>3. f.at \in Slots
  BY <1>2 DEF At
<1> DEFINE g == [f EXCEPT !.at = @ + 1, !.next = next]
<1>4. /\ g \in Frame
      /\ g.at = f.at + 1 /\ g.next = next /\ g.special = f.special
  <2>1. f.at + 1 \in 0..Size
    BY <1>3, SizeNat DEF Slots
  <2> DEFINE h == [f EXCEPT !.at = f.at + 1]
  <2>2. h \in Frame /\ h.at = f.at + 1 /\ h.special = f.special
    BY <2>1 DEF Frame
  <2>3. g = [h EXCEPT !.next = next]
    OBVIOUS
  <2> HIDE DEF g, h
  <2> QED BY <2>2, <2>3 DEF Frame
<1>5. loops' = Append(Front(loops), g)
  BY <1>2 DEF Advance
<1> HIDE DEF g
<1>6. loops' = <<g>>
  BY <1>1, <1>5, OneFrame
<1>7. loops' # <<>> /\ loops'[1] = g
  BY <1>6
<1> QED BY <1>1, <1>2, <1>3, <1>4, <1>6, <1>7

\* A slot with nothing to do is passed.
LEMMA PassStep ==
    ASSUME HeardInv, NEW k \in 1..Len(loops), Pass(loops[k])
    PROVE  HeardInv'
<1> USE SizeNat DEF HeardInv
<1> DEFINE f == loops[1]
           next == IF Seen(loops[k]) THEN Earlier(loops[k].next, node[loops[k].at].left)
                   ELSE loops[k].next
<1>1. At(loops[k]) /\ Advance(loops[k], next)
  BY DEF Pass
<1>2. loops[k].next \in 0..Never /\ loops[k].at \in Slots /\ loops[k].special \in Slots \cup {None}
  <2>1. PICK g \in Frame : loops = <<g>>
    BY DEF StackInv
  <2>2. loops[k] = g
    BY <2>1
  <2> QED BY <1>1, <2>2 DEF At, Frame
<1>3. node[loops[k].at].left \in 0..Period
  BY <1>2 DEF StackInv, Node
<1>4. next \in 0..Never
  BY <1>2, <1>3 DEF Earlier, Never
<1>5. /\ loops # <<>> /\ loops[k] = f /\ f.at \in Slots
      /\ \E g \in Frame : loops' = <<g>>
      /\ loops' # <<>>
      /\ loops'[1].at = f.at + 1 /\ loops'[1].next = next /\ loops'[1].special = f.special
  <2> HIDE DEF next
  <2> QED BY <1>1, <1>4, AdvanceFacts
<1>6. UNCHANGED <<node, free, sock, recvW, net, timer, running, receiving, result>>
  BY DEF Pass, socket
<1>7. StackInv'
  BY <1>5, <1>6 DEF StackInv
<1>8. SocketInv' /\ TimerInv'
  BY <1>5, <1>6 DEF SocketInv, TimerInv, Used
<1>9. LoopInv'
  <2>1. ASSUME NEW j \in Slots, j < f.at + 1, Used(j)
        PROVE  next <= node[j].left
    <3>1. node[j].left \in 0..Period /\ j \in Int /\ f.at \in Int
      BY <1>5 DEF StackInv, Node, Slots
    <3>2. CASE j = f.at
      <4>1. Seen(loops[k])
        <5>1. PICK g \in Frame : loops = <<g>>
          BY DEF StackInv
        <5>2. Len(loops) = 1 /\ loops[1] = g
          BY <5>1
        <5>3. f.special = j \/ HasWaiter(j)
          BY <2>1, <5>2 DEF HasWaiter, Used
        <5> QED BY <1>5, <3>2, <5>3 DEF Seen
      <4> QED BY <1>2, <1>5, <3>1, <3>2, <4>1 DEF Earlier
    <3>3. CASE j < f.at
      <4>1. f.next <= node[j].left
        BY <1>5, <2>1, <3>3 DEF LoopInv
      <4>2. next <= f.next
        BY <1>2, <1>3, <1>5 DEF Earlier
      <4> QED BY <1>2, <1>4, <1>5, <3>1, <4>1, <4>2 DEF Never
    <3> QED BY <2>1, <3>1, <3>2, <3>3
  <2> HIDE DEF next
  <2> QED BY <1>5, <1>6, <2>1 DEF LoopInv, Used
<1> QED BY <1>7, <1>8, <1>9

\* The one call on the stack, and the slot it looks at.
LEMMA LoopAt ==
    ASSUME HeardInv, NEW k \in 1..Len(loops), At(loops[k])
    PROVE  /\ loops # <<>> /\ loops[k] = loops[1] /\ Len(loops) = 1
           /\ loops[1] \in Frame /\ loops[1].at \in Slots
           /\ node[loops[1].at] \in Node
<1>1. PICK f \in Frame : loops = <<f>>
  BY DEF HeardInv, StackInv
<1>2. Len(loops) = 1 /\ loops[1] = f /\ loops # <<>> /\ k = 1
  BY <1>1
<1> QED BY <1>1, <1>2 DEF At, HeardInv, StackInv

\* A lookup is tried again.
LEMMA RetryStep ==
    ASSUME HeardInv, NEW k \in 1..Len(loops), Retry(loops[k])
    PROVE  HeardInv'
<1> USE SizeNat DEF HeardInv
<1> DEFINE f == loops[1]
           i == f.at
           next == Earlier(f.next, Period)
<1>1. At(loops[k])
  BY DEF Retry
<1>2. /\ loops # <<>> /\ loops[k] = f /\ Len(loops) = 1 /\ f \in Frame
      /\ i \in Slots /\ node[i] \in Node
  BY <1>1, LoopAt
<1>3. next \in 0..Never /\ next <= f.next /\ next <= Period
  BY <1>2 DEF Earlier, Never, Frame
<1>4. Advance(loops[k], next)
  BY <1>2 DEF Retry
<1>5. /\ \E g \in Frame : loops' = <<g>>
      /\ loops' # <<>>
      /\ loops'[1].at = i + 1 /\ loops'[1].next = next /\ loops'[1].special = f.special
  <2> HIDE DEF next
  <2> QED BY <1>1, <1>3, <1>4, AdvanceFacts
<1>6. UNCHANGED <<free, sock, recvW, timer, running, receiving, result>> /\ sock
  BY DEF Retry
<1>7. node[i].left = 0 /\ node[i].retries > 0 /\ Seen(f)
  BY <1>2 DEF Retry
<1>8. f.special # i /\ Used(i)
  <2>1. f.special # i
    <3>1. i # None
      BY <1>2, DnsOK DEF Slots
    <3>2. f.special # None => node[f.special].left = Period
      BY <1>2 DEF LoopInv
    <3> QED BY <1>7, <3>1, <3>2
  <2> QED BY <1>7, <2>1 DEF Seen, HasWaiter, Used
<1> DEFINE h == [node[i] EXCEPT !.retries = node[i].retries - 1]
           new == [h EXCEPT !.left = Period]
<1>9. new \in Node /\ new.left = Period /\ new.who = node[i].who /\ new.trid = node[i].trid
  <2>1. node[i].retries - 1 \in 0..(MaxTries - 1)
    BY <1>2, <1>7 DEF Node
  <2>2. h \in Node /\ h.who = node[i].who /\ h.trid = node[i].trid
    BY <1>2, <2>1 DEF Node
  <2>3. new = [h EXCEPT !.left = Period]
    OBVIOUS
  <2>4. Period \in 0..Period
    OBVIOUS
  <2> HIDE DEF h, new
  <2> QED BY <2>2, <2>3, <2>4 DEF Node
<1>10. /\ node' \in [Slots -> Node]
       /\ node'[i] = new
       /\ \A j \in Slots : j # i => node'[j] = node[j]
  <2>1. node' = [[node EXCEPT ![i].retries = @ - 1] EXCEPT ![i].left = Period]
    BY <1>2 DEF Retry
  <2>2. node' = [node EXCEPT ![i] = new]
    BY <1>2, <2>1 DEF StackInv
  <2> HIDE DEF new
  <2> QED BY <1>2, <1>9, <2>2 DEF StackInv
<1> HIDE DEF h, new, next
<1>11. net' \subseteq [trid : Trids, name : Lookups]
  <2>1. node[i].trid \in Trids /\ node[i].who \in Lookups
    BY <1>2, <1>8 DEF Node, Used, StackInv
  <2>2. net' = net \cup {[trid |-> node[i].trid, name |-> node[i].who]}
    BY <1>2 DEF Retry, Packet
  <2> QED BY <2>1, <2>2 DEF StackInv
<1>12. StackInv'
  <2>1. \A j \in Slots : node'[j].who # None => node'[j].trid \in Trids
    BY <1>9, <1>10 DEF StackInv
  <2> QED BY <1>5, <1>6, <1>10, <1>11, <2>1 DEF StackInv
<1>13. \A j \in Slots : Used(j)' = Used(j)
  BY <1>9, <1>10 DEF Used
<1>14. SocketInv'
  BY <1>6, <1>13 DEF SocketInv
<1>15. TimerInv'
  <2> SUFFICES ASSUME NEW j \in Slots, Used(j)'
               PROVE  timer' <= node'[j].left \/ (timer' = Never /\ loops' # <<>>)
    BY DEF TimerInv
  <2>1. CASE j = i
    BY <1>5, <1>6, <1>9, <1>10, <2>1 DEF StackInv, Never
  <2>2. CASE j # i
    BY <1>2, <1>5, <1>6, <1>10, <1>13, <2>2 DEF TimerInv
  <2> QED BY <2>1, <2>2
<1>16. LoopInv'
  <2>1. ASSUME NEW j \in Slots, j < i + 1, Used(j)'
        PROVE  next <= node'[j].left
    <3>1. CASE j = i
      BY <1>3, <1>9, <1>10, <3>1
    <3>2. CASE j # i
      <4>1. j \in Int /\ i \in Int
        BY <1>2 DEF Slots
      <4>2. j < i
        BY <2>1, <3>2, <4>1
      <4>3. f.next <= node[j].left /\ node'[j] = node[j]
        BY <1>2, <1>10, <1>13, <2>1, <3>2, <4>2 DEF LoopInv
      <4>4. node[j].left \in 0..Period /\ f.next \in 0..Never
        BY <1>2 DEF StackInv, Node, Frame
      <4> QED BY <1>3, <4>3, <4>4 DEF Never
    <3> QED BY <3>1, <3>2
  <2>2. f.special # None => node'[f.special].who # None /\ node'[f.special].left = Period
    <3>1. f.special # None => f.special \in Slots
      BY <1>2 DEF Frame
    <3>2. f.special # None => Used(f.special) /\ node[f.special].left = Period
      BY <1>2 DEF LoopInv
    <3>3. f.special # None => node'[f.special] = node[f.special]
      BY <1>8, <1>10, <3>1
    <3> QED BY <3>2, <3>3 DEF Used
  <2> QED BY <1>2, <1>5, <1>6, <2>1, <2>2 DEF LoopInv, Used
<1> QED BY <1>12, <1>14, <1>15, <1>16

\* A lookup has expired for good.
LEMMA ExpireStep ==
    ASSUME HeardInv, NEW k \in 1..Len(loops), Expire(loops[k])
    PROVE  HeardInv'
<1> USE SizeNat DEF HeardInv
<1> DEFINE f == loops[1]
           i == f.at
<1>1. At(loops[k])
  BY DEF Expire
<1>2. /\ loops # <<>> /\ loops[k] = f /\ Len(loops) = 1 /\ f \in Frame
      /\ i \in Slots /\ node[i] \in Node
  BY <1>1, LoopAt
<1>3. Advance(loops[k], f.next) /\ f.next \in 0..Never
  BY <1>2 DEF Expire, Frame
<1>4. /\ \E g \in Frame : loops' = <<g>>
      /\ loops' # <<>>
      /\ loops'[1].at = i + 1 /\ loops'[1].next = f.next /\ loops'[1].special = f.special
  BY <1>1, <1>3, AdvanceFacts
<1>5. UNCHANGED <<sock, recvW, net, timer, receiving>> /\ running' = FALSE
  BY DEF Expire, socket
<1>6. Dealloc(i) /\ Seen(f) /\ node[i].left = 0
  BY <1>2 DEF Expire
<1>7. /\ node' \in [Slots -> Node] /\ free' \in Seq(Slots)
      /\ \A j \in Slots : j # i => node'[j] = node[j]
      /\ \A j \in Slots : node'[j].who # None => j # i /\ node[j].who # None
      /\ \A j \in Slots : node'[j].who # None => node'[j].trid \in Trids
  BY <1>2, <1>6, DeallocFacts DEF Used
<1>8. f.special # i
  <2>1. i # None
    BY <1>2, DnsOK DEF Slots
  <2>2. f.special # None => node[f.special].left = Period
    BY <1>2 DEF LoopInv
  <2> QED BY <1>6, <2>1, <2>2
<1>9. node[i].who \in Lookups
  BY <1>2, <1>6, <1>8 DEF Seen, HasWaiter, Node
<1>10. result' \in [Lookups -> Lookups \cup {"none", "asked", "failed", "cancelled"}]
  BY <1>2, <1>9 DEF Expire, StackInv
<1>11. StackInv'
  BY <1>4, <1>5, <1>7, <1>10 DEF StackInv
<1>12. SocketInv' /\ TimerInv'
  BY <1>2, <1>4, <1>5, <1>7 DEF SocketInv, TimerInv, Used
<1>13. LoopInv'
  <2>1. ASSUME NEW j \in Slots, j < i + 1, node'[j].who # None
        PROVE  f.next <= node'[j].left
    <3>1. j # i /\ node[j].who # None /\ node'[j] = node[j]
      BY <1>7, <2>1
    <3>2. j < i
      BY <1>2, <2>1, <3>1 DEF Slots
    <3> QED BY <1>2, <3>1, <3>2 DEF LoopInv, Used
  <2>2. f.special # None => node'[f.special].who # None /\ node'[f.special].left = Period
    <3>1. f.special # None => f.special \in Slots
      BY <1>2 DEF Frame
    <3>2. f.special # None => node[f.special].who # None /\ node[f.special].left = Period
      BY <1>2 DEF LoopInv, Used
    <3>3. f.special # None => node'[f.special] = node[f.special]
      BY <1>7, <1>8, <3>1
    <3> QED BY <3>2, <3>3
  <2> QED BY <1>2, <1>4, <1>5, <2>1, <2>2 DEF LoopInv, Used
<1> QED BY <1>11, <1>12, <1>13

\* timeout() returns.
LEMMA TimeoutReturnsStep ==
    ASSUME HeardInv, TimeoutReturns
    PROVE  HeardInv'
<1> USE SizeNat DEF HeardInv
<1>1. PICK f \in Frame : loops = <<f>>
  BY DEF StackInv, TimeoutReturns
<1>2. Last(loops) = f /\ Front(loops) = <<>> /\ loops[1] = f /\ loops # <<>>
  BY <1>1, OneFrame
<1>3. loops' = <<>> /\ ~running' /\ f.at = Size
  BY <1>2 DEF TimeoutReturns
<1>4. UNCHANGED <<node, free, receiving, result>>
  BY DEF TimeoutReturns
<1>5. ASSUME NEW i \in Slots, Used(i)
      PROVE  f.next <= node[i].left /\ node[i].left \in 0..Period
  <2>1. i < f.at
    BY <1>3 DEF Slots
  <2>2. f.next <= node[i].left
    BY <1>2, <1>5, <2>1 DEF LoopInv
  <2>3. node[i] \in Node
    BY DEF StackInv
  <2> QED BY <2>2, <2>3 DEF Node
<1>6. f.next \in 0..Never
  BY DEF Frame
<1>7. CASE f.next = Never
  <2>1. /\ ~sock' /\ ~recvW' /\ net' = {} /\ timer' = timer
        /\ sock' = FALSE /\ recvW' = FALSE
    BY <1>2, <1>7 DEF TimeoutReturns
  <2>2. \A i \in Slots : ~Used(i)
    BY <1>5, <1>7 DEF Never
  <2>3. ~receiving
    <3>1. f.special # None => f.special \in Slots
      BY DEF Frame
    <3> QED BY <1>2, <2>2, <3>1 DEF LoopInv
  <2>4. StackInv'
    BY <1>3, <1>4, <2>1 DEF StackInv, TimeoutReturns
  <2>5. SocketInv' /\ LoopInv' /\ TimerInv'
    BY <1>3, <1>4, <2>1, <2>2, <2>3 DEF SocketInv, LoopInv, TimerInv, Used
  <2> QED BY <2>4, <2>5
<1>8. CASE f.next # Never
  <2>1. UNCHANGED <<sock, recvW, net>> /\ timer' = IF timer = Never THEN f.next ELSE timer
    BY <1>2, <1>8 DEF TimeoutReturns, socket
  <2>2. timer' \in 0..Never
    BY <1>6, <2>1 DEF StackInv
  <2>3. StackInv'
    BY <1>3, <1>4, <2>1, <2>2 DEF StackInv, TimeoutReturns
  <2>4. SocketInv' /\ LoopInv'
    BY <1>3, <1>4, <2>1 DEF SocketInv, LoopInv, Used
  <2>5. TimerInv'
    BY <1>2, <1>4, <1>5, <2>1 DEF TimerInv, Used
  <2> QED BY <2>3, <2>4, <2>5
<1> QED BY <1>7, <1>8

\* Every step keeps the invariant.
LEMMA HeardStep == Restart = FALSE /\ HeardInv /\ [Next]_vars => HeardInv'
<1> SUFFICES ASSUME Restart = FALSE, HeardInv, [Next]_vars PROVE HeardInv'
  OBVIOUS
<1>1. CASE Client
  BY <1>1, AwaitLookupStep, AwaitKnownStep, CancelStep DEF Client
<1>2. CASE Loop
  BY <1>2, PassStep, RetryStep, ExpireStep, TimeoutReturnsStep DEF Loop
<1>3. CASE Returns
  BY <1>3, CallbackReturnsStep, ReceiveReturnsStep DEF Returns
<1>4. CASE TimerFires
  BY <1>4, TimerFiresStep
<1>5. CASE TimePasses
  BY <1>5, TimePassesStep
<1>6. ASSUME NEW p \in net, NEW i \in Slots, Receive(p, i) PROVE HeardInv'
  BY <1>6, ReceiveStep
<1>7. CASE UNCHANGED vars
  BY <1>7 DEF vars, HeardInv, StackInv, SocketInv, LoopInv, TimerInv, Used
<1> QED BY <1>1, <1>2, <1>3, <1>4, <1>5, <1>6, <1>7 DEF Next

-----------------------------------------------------------------------------
\* Whoever waits is heard: timeout() never closes the socket of a lookup, and
\* complete_recv() never listens on a socket that is gone, if callbacks of
\* expired lookups do not ask again.
THEOREM AlwaysHeard == Restart = FALSE => (Spec => []Heard)
<1> SUFFICES ASSUME Restart = FALSE PROVE Spec => []Heard
  OBVIOUS
<1>1. HeardInv => Heard
  BY DEF HeardInv, SocketInv, Heard, HasWaiter, Used
<1> QED BY <1>1, HeardInit, HeardStep, PTL DEF Spec

\* The timer is never later than the first deadline, which is what lets every
\* lookup end.
THEOREM TimerInTime == Restart = FALSE => (Spec => []TimerEarly)
<1> SUFFICES ASSUME Restart = FALSE PROVE Spec => []TimerEarly
  OBVIOUS
<1>1. HeardInv => TimerEarly
  BY DEF HeardInv, TimerInv, TimerEarly, HasWaiter, Used
<1> QED BY <1>1, HeardInit, HeardStep, PTL DEF Spec

-----------------------------------------------------------------------------
\* Lookups that are in a slot have different ids, also while one of them is
\* about to wait.
TridInv == \A i, j \in Slots : Used(i) /\ Used(j) /\ node[i].trid = node[j].trid => i = j

\* Giving a slot back, or changing the times in one, keeps the ids apart.
LEMMA TridsKept ==
    ASSUME TridInv,
           \A j \in Slots : Used(j)' => Used(j) /\ node'[j].trid = node[j].trid
    PROVE  TridInv'
BY DEF TridInv

\* Every step keeps the ids different.
LEMMA TridStep == Restart = FALSE /\ HeardInv /\ TridInv /\ [Next]_vars => TridInv'
<1> SUFFICES ASSUME Restart = FALSE, HeardInv, TridInv, [Next]_vars PROVE TridInv'
  OBVIOUS
<1> USE DEF HeardInv
<1>1. ASSUME NEW l \in Lookups, NEW t \in Trids, NEW tries \in 1..MaxTries,
             AwaitLookup(l, t, tries)
      PROVE  TridInv'
  <2> DEFINE h == Head(free)
  <2>1. loops = <<>> /\ h \in Slots
    BY <1>1 DEF AwaitLookup, StackInv
  <2>2. \A i \in Slots : Used(i) => node[i].trid # t
    <3>1. \A i \in Slots : HasWaiter(i) => node[i].trid # t
      BY <1>1 DEF AwaitLookup, UnusedTrids
    <3>2. Len(loops) = 0
      BY <2>1
    <3> QED BY <3>1, <3>2 DEF HasWaiter, Used
  <2>3. node' = [node EXCEPT ![h] = [who |-> l, trid |-> t, left |-> Period,
                                     retries |-> tries - 1]]
    BY <1>1 DEF AwaitLookup
  <2> HIDE DEF h
  <2>4. node'[h].trid = t /\ \A j \in Slots : j # h => node'[j] = node[j]
    BY <2>1, <2>3 DEF StackInv
  <2> QED BY <2>1, <2>2, <2>4 DEF TridInv, Used
<1>2. ASSUME NEW i \in Slots, Dealloc(i) PROVE TridInv'
  <2>1. \A j \in Slots : Used(j)' => Used(j) /\ node'[j].trid = node[j].trid
    BY <1>2, DeallocFacts
  <2> QED BY <2>1, TridsKept
<1>3. ASSUME node' = node PROVE TridInv'
  BY <1>3 DEF TridInv, Used
<1>4. ASSUME NEW k \in 1..Len(loops), Retry(loops[k]) PROVE TridInv'
  <2>1. At(loops[k]) /\ loops[k].at \in Slots
    BY <1>4 DEF Retry, At
  <2>2. \A j \in Slots : node'[j].who = node[j].who /\ node'[j].trid = node[j].trid
    BY <1>4, <2>1 DEF Retry, StackInv, Node
  <2> QED BY <2>2, TridsKept DEF Used
<1>5. ASSUME TimePasses PROVE TridInv'
  <2>1. \A j \in Slots : node'[j].who = node[j].who /\ node'[j].trid = node[j].trid
    BY <1>5 DEF TimePasses, StackInv, Node
  <2> QED BY <2>1, TridsKept DEF Used
<1>6. ASSUME NEW k \in 1..Len(loops), Expire(loops[k]) PROVE TridInv'
  BY <1>2, <1>6 DEF Expire, At
<1>7. CASE Client
  BY <1>1, <1>2, <1>3, <1>7 DEF Client, AwaitKnown, Cancel
<1>8. CASE Loop
  BY <1>3, <1>4, <1>6, <1>8 DEF Loop, Pass, TimeoutReturns
<1>9. CASE Returns \/ TimerFires \/ UNCHANGED vars
  BY <1>3, <1>9 DEF Returns, CallbackReturns, ReceiveReturns, TimerFires, vars
<1>10. ASSUME NEW p \in net, NEW i \in Slots, Receive(p, i) PROVE TridInv'
  BY <1>2, <1>10 DEF Receive
<1> QED BY <1>5, <1>7, <1>8, <1>9, <1>10 DEF Next

\* pick_trid() keeps the ids of waiting lookups apart, so complete_recv() never
\* fails one lookup with the answer to another that waits.
THEOREM TridsDiffer == Restart = FALSE => (Spec => []DistinctTrids)
<1> SUFFICES ASSUME Restart = FALSE PROVE Spec => []DistinctTrids
  OBVIOUS
<1>1. Init => TridInv
  BY DEF Init, TridInv, Used, Empty
<1>2. TridInv => DistinctTrids
  BY DEF TridInv, DistinctTrids, HasWaiter, Used
<1> QED BY <1>1, <1>2, HeardInit, HeardStep, TridStep, PTL DEF Spec

-----------------------------------------------------------------------------
(* What holds whatever callbacks do: any number of calls of timeout() may  *)
(* be on the stack, each below a callback of the one before.               *)

Results == Lookups \cup {"none", "asked", "failed", "cancelled"}

Types ==
    /\ node \in [Slots -> Node]
    /\ free \in Seq(Slots)
    /\ loops \in Seq(Frame)
    /\ sock \in BOOLEAN /\ recvW \in BOOLEAN
    /\ timer \in 0..Never
    /\ net \subseteq [trid : Trids, name : Lookups]
    /\ running \in BOOLEAN /\ receiving \in BOOLEAN
    /\ result \in [Lookups -> Results]
    /\ \A i \in Slots : Used(i) => node[i].trid \in Trids

\* A lookup that is about to wait keeps its slot and all of its time, so
\* nothing takes it for expired.
AboutToWait(i) == \E k \in 1..Len(loops) : loops[k].special = i

SpecialInv == \A i \in Slots : AboutToWait(i) => Used(i) /\ node[i].left = Period

\* A slot is used or once on the free list.
FreeInv ==
    /\ \A j, k \in 1..Len(free) : free[j] = free[k] => j = k
    /\ \A i \in Slots : (\E k \in 1..Len(free) : free[k] = i) <=> ~Used(i)

\* The lookups that are asked for are those in the slots, each in one.
AskedInv ==
    /\ \A i \in Slots : Used(i) => result[node[i].who] = "asked"
    /\ \A i, j \in Slots : Used(i) /\ Used(j) /\ node[i].who = node[j].who => i = j
    /\ \A l \in Lookups : result[l] = "asked" => \E i \in Slots : node[i].who = l

BookInv == Types /\ SpecialInv /\ FreeInv /\ AskedInv

\* The initial states are fine.
LEMMA BookInit == Init => BookInv
<1> SUFFICES ASSUME Init PROVE BookInv
  OBVIOUS
<1>1. StackInv
  BY HeardInit DEF HeardInv
<1>2. loops = <<>> /\ <<>> \in Seq(Frame) /\ Len(loops) = 0
  BY DEF Init
<1>3. Types
  BY <1>1, <1>2 DEF Types, StackInv, Results, Used
<1>4. SpecialInv
  BY <1>2 DEF SpecialInv, AboutToWait
<1>5. \A i \in Slots : ~Used(i)
  BY DEF Init, Used, Empty
<1>6. FreeInv
  <2>1. free = [k \in 1..Size |-> k - 1] /\ Len(free) = Size
    BY SizeNat DEF Init
  <2>2. \A j, k \in 1..Len(free) : free[j] = free[k] => j = k
    BY <2>1, SizeNat
  <2>3. ASSUME NEW i \in Slots PROVE \E k \in 1..Len(free) : free[k] = i
    <3>1. i + 1 \in 1..Size /\ (i + 1) - 1 = i
      BY SizeNat DEF Slots
    <3> QED BY <2>1, <3>1
  <2> QED BY <1>5, <2>2, <2>3 DEF FreeInv
<1>7. AskedInv
  <2>1. \A l \in Lookups : result[l] = "none"
    BY DEF Init
  <2> QED BY <1>5, <2>1 DEF AskedInv
<1> QED BY <1>3, <1>4, <1>6, <1>7 DEF BookInv

\* A slot with a waiter is used, and no call is about to return to it.
LEMMA WaiterFacts ==
    ASSUME NEW i \in Slots, HasWaiter(i)
    PROVE  Used(i) /\ ~AboutToWait(i)
BY DEF HasWaiter, Used, AboutToWait

\* A lookup ends: its slot is given back, and the result is not "asked".
LEMMA EndLookup ==
    ASSUME BookInv, NEW i \in Slots, Used(i), ~AboutToWait(i), Dealloc(i),
           NEW r \in Results, r # "asked",
           result' = [result EXCEPT ![node[i].who] = r]
    PROVE  /\ node' \in [Slots -> Node] /\ free' \in Seq(Slots)
           /\ result' \in [Lookups -> Results]
           /\ \A j \in Slots : Used(j)' => node'[j].trid \in Trids
           /\ FreeInv' /\ AskedInv'
           /\ \A j \in Slots : AboutToWait(j) => Used(j)' /\ node'[j].left = Period
<1> USE DEF BookInv
<1>1. Empty \in Node /\ Empty.who = None
  BY SizeNat DEF Empty, Node
<1>2. /\ node' \in [Slots -> Node]
      /\ \A j \in Slots : node'[j] = IF j = i THEN Empty ELSE node[j]
  BY <1>1 DEF Types, Dealloc
<1>3. \A j \in Slots : Used(j)' <=> j # i /\ Used(j)
  BY <1>1, <1>2 DEF Used
<1>4. \A j \in Slots : Used(j)' => node'[j] = node[j]
  BY <1>2, <1>3
<1>5. node[i].who \in Lookups
  BY DEF Types, Node, Used
<1>6. \A l \in Lookups : result'[l] = IF l = node[i].who THEN r ELSE result[l]
  BY DEF Types
<1>7. result' \in [Lookups -> Results]
  BY <1>5 DEF Types
<1>8. \A j \in Slots : AboutToWait(j) => Used(j)' /\ node'[j].left = Period
  BY <1>3, <1>4 DEF SpecialInv
<1>9. /\ free' \in Seq(Slots) /\ Len(free') = Len(free) + 1
      /\ free'[1] = i
      /\ \A k \in 1..Len(free') : k # 1 => k - 1 \in 1..Len(free) /\ free'[k] = free[k - 1]
      /\ \A k \in 1..Len(free) : k + 1 \in 1..Len(free') /\ free'[k + 1] = free[k]
  <2>1. PICK s : s = <<i>>
    OBVIOUS
  <2>2. s \in Seq(Slots) /\ Len(s) = 1 /\ s[1] = i
    BY <2>1
  <2>3. free' = s \o free /\ free \in Seq(Slots) /\ Len(free) \in Nat
    BY <2>1 DEF Dealloc, Types
  <2>4. /\ free' \in Seq(Slots)
        /\ Len(free') = Len(s) + Len(free)
        /\ \A k \in 1..Len(s) + Len(free) :
              free'[k] = IF k <= Len(s) THEN s[k] ELSE free[k - Len(s)]
    BY <2>2, <2>3, ConcatProperties
  <2> QED BY <2>2, <2>3, <2>4
<1>10. FreeInv'
  <2>1. \A k \in 1..Len(free) : free[k] # i
    BY DEF FreeInv
  <2>2. \A k \in 1..Len(free') : k # 1 => free'[k] # i
    BY <1>9, <2>1
  <2>3. ASSUME NEW j \in 1..Len(free'), NEW k \in 1..Len(free'), free'[j] = free'[k]
        PROVE  j = k
    <3>1. CASE j = 1 \/ k = 1
      BY <1>9, <2>2, <2>3, <3>1
    <3>2. CASE j # 1 /\ k # 1
      <4>1. j - 1 \in 1..Len(free) /\ k - 1 \in 1..Len(free) /\ free[j - 1] = free[k - 1]
        BY <1>9, <2>3, <3>2
      <4>2. j - 1 = k - 1
        BY <4>1 DEF FreeInv
      <4> QED BY <4>2
    <3> QED BY <3>1, <3>2
  <2>4. ASSUME NEW j \in Slots
        PROVE  (\E k \in 1..Len(free') : free'[k] = j) <=> ~Used(j)'
    <3>1. CASE j = i
      <4>1. 1 \in 1..Len(free')
        BY <1>9 DEF Types
      <4> QED BY <1>3, <1>9, <3>1, <4>1
    <3>2. CASE j # i
      <4>1. (\E k \in 1..Len(free') : free'[k] = j) <=> (\E k \in 1..Len(free) : free[k] = j)
        <5>1. ASSUME NEW k \in 1..Len(free'), free'[k] = j
              PROVE  \E m \in 1..Len(free) : free[m] = j
          <6>1. k - 1 \in 1..Len(free) /\ free'[k] = free[k - 1]
            BY <1>9, <3>2, <5>1
          <6> QED BY <5>1, <6>1
        <5>2. ASSUME NEW k \in 1..Len(free), free[k] = j
              PROVE  \E m \in 1..Len(free') : free'[m] = j
          <6>1. k + 1 \in 1..Len(free') /\ free'[k + 1] = free[k]
            BY <1>9, <5>2
          <6> QED BY <5>2, <6>1
        <5> QED BY <5>1, <5>2
      <4> QED BY <1>3, <3>2, <4>1 DEF FreeInv
    <3> QED BY <3>1, <3>2
  <2> QED BY <2>3, <2>4 DEF FreeInv
<1>11. AskedInv'
  <2>1. ASSUME NEW j \in Slots, Used(j)'
        PROVE  node'[j].who \in Lookups /\ node[j].who # node[i].who
    <3>1. j # i /\ Used(j) /\ node'[j] = node[j]
      BY <1>3, <1>4, <2>1
    <3> QED BY <3>1 DEF AskedInv, Types, Node, Used
  <2>2. \A j \in Slots : Used(j)' => result'[node'[j].who] = "asked"
    BY <1>3, <1>4, <1>6, <2>1 DEF AskedInv
  <2>3. \A j, k \in Slots : Used(j)' /\ Used(k)' /\ node'[j].who = node'[k].who => j = k
    BY <1>3, <1>4 DEF AskedInv
  <2>4. ASSUME NEW l \in Lookups, result'[l] = "asked" PROVE \E j \in Slots : node'[j].who = l
    <3>1. l # node[i].who /\ result[l] = "asked"
      BY <1>6, <2>4
    <3>2. PICK j \in Slots : node[j].who = l
      BY <3>1 DEF AskedInv
    <3> QED BY <1>2, <3>1, <3>2
  <2> QED BY <2>2, <2>3, <2>4 DEF AskedInv
<1>12. \A j \in Slots : Used(j)' => node'[j].trid \in Trids
  BY <1>3, <1>4 DEF Types
<1> QED BY <1>2, <1>7, <1>8, <1>9, <1>10, <1>11, <1>12

\* The loop goes on to the next slot: the calls below, and the lookup that
\* called the innermost one, stay as they are.
LEMMA AdvanceStack ==
    ASSUME Types, NEW k \in 1..Len(loops), At(loops[k]),
           NEW next \in 0..Never, Advance(loops[k], next)
    PROVE  /\ loops' \in Seq(Frame)
           /\ \A j \in Slots : AboutToWait(j)' <=> AboutToWait(j)
<1> DEFINE f == Last(loops)
           n == Len(loops)
<1>1. n \in Nat /\ n >= 1 /\ n \in 1..n /\ f = loops[n] /\ f \in Frame
  <2>1. n \in Nat /\ n >= 1 /\ n \in 1..n
    BY DEF Types
  <2> QED BY <2>1 DEF Types, Last
<1>2. loops[k] = f /\ f.at \in Slots
  BY DEF At
<1> DEFINE h == [f EXCEPT !.at = f.at + 1]
           g == [h EXCEPT !.next = next]
<1>3. g \in Frame /\ g.special = f.special
  <2>1. f.at + 1 \in 0..Size
    BY <1>2, SizeNat DEF Slots
  <2>2. h \in Frame /\ h.special = f.special
    BY <1>1, <2>1 DEF Frame
  <2> HIDE DEF f, h
  <2> QED BY <2>2 DEF Frame
<1>4. loops' = Append(Front(loops), g)
  BY <1>2 DEF Advance
<1> HIDE DEF f, g, h
<1>5. PICK s : s = SubSeq(loops, 1, n - 1)
  OBVIOUS
<1>6. /\ s \in Seq(Frame) /\ Len(s) = n - 1
      /\ \A j \in 1..(n - 1) : s[j] = loops[j]
  <2>1. \A j \in 1..(n - 1) : loops[j] \in Frame
    BY <1>1 DEF Types
  <2>2. /\ s \in Seq(Frame)
        /\ Len(s) = IF 1 <= n - 1 THEN (n - 1) - 1 + 1 ELSE 0
        /\ \A j \in 1..((n - 1) - 1 + 1) : s[j] = loops[1 + j - 1]
    BY <1>1, <1>5, <2>1, SubSeqProperties
  <2> HIDE DEF n
  <2>3. Len(s) = n - 1 /\ (n - 1) - 1 + 1 = n - 1
    BY <1>1, <2>2
  <2>4. \A j \in 1..(n - 1) : 1 + j - 1 = j
    BY <1>1
  <2> QED BY <2>2, <2>3, <2>4
<1>7. loops' = Append(s, g)
  BY <1>4, <1>5 DEF Front
<1>8. /\ loops' \in Seq(Frame) /\ Len(loops') = n
      /\ \A j \in 1..(n - 1) : loops'[j] = loops[j]
      /\ loops'[n] = g
  <2>1. /\ loops' \in Seq(Frame) /\ Len(loops') = Len(s) + 1
        /\ \A j \in 1..Len(s) : loops'[j] = s[j]
        /\ loops'[Len(s) + 1] = g
    BY <1>3, <1>6, <1>7, AppendProperties
  <2> HIDE DEF n
  <2>2. Len(s) + 1 = n
    BY <1>1, <1>6
  <2> QED BY <1>6, <2>1, <2>2
<1>9. \A j \in 1..n : loops'[j].special = loops[j].special
  <2> HIDE DEF n
  <2> SUFFICES ASSUME NEW j \in 1..n PROVE loops'[j].special = loops[j].special
    OBVIOUS
  <2>1. j = n \/ j \in 1..(n - 1)
    BY <1>1
  <2> QED BY <1>1, <1>3, <1>8, <2>1
<1> QED BY <1>8, <1>9 DEF AboutToWait

\* timeout() returns to its caller, whose stack is what was below it.
LEMMA ReturnStack ==
    ASSUME Types, loops # <<>>, loops' = Front(loops)
    PROVE  /\ loops' \in Seq(Frame)
           /\ \A j \in Slots : AboutToWait(j)' => AboutToWait(j)
           /\ Last(loops) \in Frame
<1> DEFINE n == Len(loops)
<1>1. n \in Nat /\ n >= 1 /\ n \in 1..n
  BY DEF Types
<1>2. Last(loops) \in Frame
  BY <1>1 DEF Types, Last
<1>3. loops' = SubSeq(loops, 1, n - 1)
  BY DEF Front
<1>4. \A j \in 1..(n - 1) : loops[j] \in Frame /\ j \in 1..n /\ 1 + j - 1 = j
  BY <1>1 DEF Types
<1>5. /\ loops' \in Seq(Frame)
      /\ Len(loops') = IF 1 <= n - 1 THEN (n - 1) - 1 + 1 ELSE 0
      /\ \A j \in 1..((n - 1) - 1 + 1) : loops'[j] = loops[1 + j - 1]
  BY <1>1, <1>3, <1>4, SubSeqProperties
<1> HIDE DEF n
<1>6. Len(loops') = n - 1 /\ (n - 1) - 1 + 1 = n - 1
  BY <1>1, <1>5
<1>7. \A j \in 1..Len(loops') : j \in 1..n /\ loops'[j] = loops[j]
  BY <1>4, <1>5, <1>6
<1> QED BY <1>2, <1>5, <1>7 DEF AboutToWait, n

\* What the invariant says is not disturbed by a step that keeps the slots,
\* the free list and the results, and adds no call with a lookup of its own.
LEMMA BookKept ==
    ASSUME BookInv, Types', UNCHANGED <<node, free, result>>,
           \A j \in Slots : AboutToWait(j)' => AboutToWait(j)
    PROVE  BookInv'
BY DEF BookInv, SpecialInv, FreeInv, AskedInv, Used

\* The times in the slots may change, but of those about to wait.
LEMMA TimesChange ==
    ASSUME BookInv, Types', UNCHANGED <<free, result>>,
           \A j \in Slots : node'[j].who = node[j].who,
           \A j \in Slots : AboutToWait(j)' => AboutToWait(j) /\ node'[j].left = node[j].left
    PROVE  BookInv'
<1>1. \A j \in Slots : Used(j)' <=> Used(j)
  BY DEF Used
<1>2. SpecialInv' /\ FreeInv'
  BY <1>1 DEF BookInv, SpecialInv, FreeInv
<1>3. AskedInv'
  BY <1>1 DEF BookInv, AskedInv
<1> QED BY <1>2, <1>3 DEF BookInv

\* A client asks, from the runloop or from a callback, at any depth.
LEMMA AwaitLookupBook ==
    ASSUME BookInv, NEW l \in Lookups, NEW t \in Trids, NEW tries \in 1..MaxTries,
           AwaitLookup(l, t, tries)
    PROVE  BookInv'
<1> USE SizeNat DEF BookInv
<1> DEFINE i == Head(free)
           f == [at |-> 0, next |-> Never, special |-> i]
           new == [who |-> l, trid |-> t, left |-> Period, retries |-> tries - 1]
<1>1. /\ i \in Slots /\ i = free[1] /\ 1 \in 1..Len(free)
      /\ free' \in Seq(Slots) /\ Len(free') = Len(free) - 1 /\ Len(free) \in Nat
      /\ \A k \in 1..Len(free') : free'[k] = free[k + 1]
  <2>1. free \in Seq(Slots) /\ free # <<>> /\ free' = Tail(free)
    BY DEF AwaitLookup, Types
  <2>2. Len(free) \in Nat /\ 1 \in 1..Len(free) /\ i = free[1]
    BY <2>1
  <2> QED BY <2>1, <2>2, HeadTailProperties
<1> HIDE DEF i
<1>2. f \in Frame /\ f.special = i
  BY <1>1 DEF Frame, Never
<1>3. new \in Node /\ new.who = l /\ new.left = Period /\ new.trid = t
  BY DEF Node
<1>4. loops' = Append(loops, f) /\ node' = [node EXCEPT ![i] = new]
  BY DEF AwaitLookup, i
<1>5. l # None
  BY DnsOK
<1> HIDE DEF f, new
<1>6. /\ node' \in [Slots -> Node]
      /\ \A j \in Slots : node'[j] = IF j = i THEN new ELSE node[j]
  BY <1>1, <1>3, <1>4 DEF Types
<1>7. ~Used(i)
  BY <1>1 DEF FreeInv
<1>8. \A j \in Slots : Used(j)' <=> j = i \/ Used(j)
  BY <1>3, <1>5, <1>6 DEF Used
<1>9. /\ loops' \in Seq(Frame)
      /\ \A j \in Slots : AboutToWait(j)' => AboutToWait(j) \/ j = i
  <2>1. /\ loops' \in Seq(Frame) /\ Len(loops') = Len(loops) + 1 /\ Len(loops) \in Nat
        /\ \A k \in 1..Len(loops) : loops'[k] = loops[k]
        /\ loops'[Len(loops) + 1] = f
    BY <1>2, <1>4, AppendProperties DEF Types
  <2>2. \A k \in 1..Len(loops') : k \in 1..Len(loops) \/ k = Len(loops) + 1
    BY <2>1
  <2> QED BY <1>2, <2>1, <2>2 DEF AboutToWait
<1>10. /\ result' \in [Lookups -> Results]
       /\ result[l] # "asked"
       /\ \A m \in Lookups : result'[m] = IF m = l THEN "asked" ELSE result[m]
  BY DEF AwaitLookup, Types, Results
<1>11. Types'
  <2>1. \A j \in Slots : Used(j)' => node'[j].trid \in Trids
    BY <1>3, <1>6, <1>8 DEF Types
  <2>2. net' \subseteq [trid : Trids, name : Lookups]
    BY DEF AwaitLookup, Types
  <2>3. sock' \in BOOLEAN /\ running' \in BOOLEAN
    BY DEF AwaitLookup
  <2>4. recvW' \in BOOLEAN
    BY DEF AwaitLookup
  <2>5. timer' = timer /\ receiving' = receiving
    BY DEF AwaitLookup
  <2> QED BY <1>1, <1>6, <1>9, <1>10, <2>1, <2>2, <2>3, <2>4, <2>5 DEF Types
<1>12. SpecialInv'
  BY <1>3, <1>6, <1>8, <1>9 DEF SpecialInv
<1>13. FreeInv'
  <2>1. \A k \in 1..Len(free') : k + 1 \in 1..Len(free) /\ k + 1 # 1 /\ k \in Int
    BY <1>1
  <2>2. \A j, k \in 1..Len(free') : free'[j] = free'[k] => j = k
    <3> SUFFICES ASSUME NEW j \in 1..Len(free'), NEW k \in 1..Len(free'), free'[j] = free'[k]
                 PROVE  j = k
      OBVIOUS
    <3>1. j + 1 = k + 1
      BY <1>1, <2>1 DEF FreeInv
    <3> QED BY <2>1, <3>1
  <2>3. ASSUME NEW j \in Slots
        PROVE  (\E k \in 1..Len(free') : free'[k] = j)
                  <=> j # i /\ \E k \in 1..Len(free) : free[k] = j
    <3>1. ASSUME NEW k \in 1..Len(free'), free'[k] = j
          PROVE  j # i /\ \E m \in 1..Len(free) : free[m] = j
      BY <1>1, <2>1, <3>1 DEF FreeInv
    <3>2. ASSUME NEW m \in 1..Len(free), free[m] = j, j # i
          PROVE  \E k \in 1..Len(free') : free'[k] = j
      <4>1. m # 1
        BY <1>1, <3>2
      <4>2. m - 1 \in 1..Len(free') /\ (m - 1) + 1 = m
        BY <1>1, <4>1
      <4> QED BY <1>1, <3>2, <4>2
    <3> QED BY <3>1, <3>2
  <2>4. \A j \in Slots : (\E k \in 1..Len(free') : free'[k] = j) <=> ~Used(j)'
    BY <1>8, <2>3 DEF FreeInv
  <2> QED BY <2>2, <2>4 DEF FreeInv
<1>14. AskedInv'
  <2>1. ASSUME NEW j \in Slots, Used(j)
        PROVE  node[j].who # l /\ node[j].who \in Lookups
    <3>1. result[node[j].who] = "asked"
      BY <2>1 DEF AskedInv
    <3> QED BY <1>10, <2>1, <3>1 DEF Types, Node, Used
  <2>2. \A j \in Slots : Used(j) => j # i
    BY <1>7
  <2>3. ASSUME NEW j \in Slots, Used(j)' PROVE result'[node'[j].who] = "asked"
    BY <1>3, <1>6, <1>8, <1>10, <2>1, <2>3 DEF AskedInv
  <2>4. ASSUME NEW j \in Slots, NEW k \in Slots, Used(j)', Used(k)',
               node'[j].who = node'[k].who
        PROVE  j = k
    <3>1. CASE j = i
      BY <1>3, <1>6, <1>8, <2>1, <2>4, <3>1
    <3>2. CASE k = i
      BY <1>3, <1>6, <1>8, <2>1, <2>4, <3>2
    <3>3. CASE j # i /\ k # i
      BY <1>6, <1>8, <2>4, <3>3 DEF AskedInv
    <3> QED BY <3>1, <3>2, <3>3
  <2>5. ASSUME NEW m \in Lookups, result'[m] = "asked" PROVE \E j \in Slots : node'[j].who = m
    <3>1. CASE m = l
      BY <1>1, <1>3, <1>6, <3>1
    <3>2. CASE m # l
      <4>1. PICK j \in Slots : node[j].who = m
        BY <1>10, <2>5, <3>2 DEF AskedInv
      <4>2. Used(j)
        BY <4>1, DnsOK DEF Used
      <4> QED BY <1>6, <2>2, <4>1, <4>2
    <3> QED BY <3>1, <3>2
  <2> QED BY <2>3, <2>4, <2>5 DEF AskedInv
<1> QED BY <1>11, <1>12, <1>13, <1>14

\* A name that need not be asked for.
LEMMA AwaitKnownBook ==
    ASSUME BookInv, NEW l \in Lookups, AwaitKnown(l)
    PROVE  BookInv'
<1> USE DEF BookInv
<1>1. PICK r \in {l, "failed"} : result' = [result EXCEPT ![l] = r]
  BY DEF AwaitKnown
<1>2. result[l] # "asked" /\ r # "asked" /\ r \in Results
  BY DnsOK DEF AwaitKnown, Results
<1>3. /\ result' \in [Lookups -> Results]
      /\ \A m \in Lookups : result'[m] = IF m = l THEN r ELSE result[m]
  BY <1>1, <1>2 DEF Types
<1>4. UNCHANGED <<node, free, sock, recvW, net, timer, loops, running, receiving>>
  BY DEF AwaitKnown, socket, stack
<1>5. \A i \in Slots : Used(i)' <=> Used(i)
  BY <1>4 DEF Used
<1>6. Types'
  BY <1>3, <1>4, <1>5 DEF Types
<1>7. SpecialInv' /\ FreeInv'
  BY <1>4, <1>5 DEF SpecialInv, FreeInv, AboutToWait
<1>8. AskedInv'
  <2>1. \A i \in Slots : Used(i) => result[node[i].who] = "asked" /\ node[i].who \in Lookups
    BY DEF AskedInv, Types, Node, Used
  <2>2. \A i \in Slots : Used(i) => result'[node[i].who] = "asked"
    BY <1>2, <1>3, <2>1
  <2>3. \A m \in Lookups : result'[m] = "asked" => result[m] = "asked"
    BY <1>2, <1>3
  <2> QED BY <1>4, <1>5, <2>2, <2>3 DEF AskedInv
<1> QED BY <1>6, <1>7, <1>8

\* A lookup that has a waiter ends.
LEMMA WaiterEnds ==
    ASSUME BookInv, NEW i \in Slots, HasWaiter(i), Dealloc(i),
           NEW r \in {node[i].who, "failed", "cancelled"},
           result' = [result EXCEPT ![node[i].who] = r],
           UNCHANGED <<sock, timer, net, loops, running>>,
           recvW' \in BOOLEAN, receiving' \in BOOLEAN
    PROVE  BookInv'
<1> USE DEF BookInv
<1>1. Used(i) /\ ~AboutToWait(i)
  BY WaiterFacts
<1>2. node[i].who \in Lookups
  BY <1>1 DEF Types, Node, Used
<1>3. r \in Results /\ r # "asked"
  BY <1>2, DnsOK DEF Results
<1>4. /\ node' \in [Slots -> Node] /\ free' \in Seq(Slots)
      /\ result' \in [Lookups -> Results]
      /\ \A j \in Slots : Used(j)' => node'[j].trid \in Trids
      /\ FreeInv' /\ AskedInv'
      /\ \A j \in Slots : AboutToWait(j) => Used(j)' /\ node'[j].left = Period
  BY <1>1, <1>3, EndLookup
<1>5. Types'
  BY <1>4 DEF Types
<1>6. SpecialInv'
  BY <1>4 DEF SpecialInv, AboutToWait
<1> QED BY <1>4, <1>5, <1>6

\* A client cancels.
LEMMA CancelBook ==
    ASSUME BookInv, NEW i \in Slots, Cancel(i)
    PROVE  BookInv'
<1>1. HasWaiter(i) /\ Dealloc(i) /\ result' = [result EXCEPT ![node[i].who] = "cancelled"]
  BY DEF Cancel
<1>2. UNCHANGED <<sock, recvW, timer, net, loops, running, receiving>>
  BY DEF Cancel, socket, stack
<1>3. recvW' \in BOOLEAN /\ receiving' \in BOOLEAN
  BY <1>2 DEF BookInv, Types
<1> QED BY <1>1, <1>2, <1>3, WaiterEnds

\* A packet is taken from the socket.
LEMMA ReceiveBook ==
    ASSUME BookInv, NEW p \in net, NEW i \in Slots, Receive(p, i)
    PROVE  BookInv'
<1>1. HasWaiter(i) /\ Dealloc(i)
  BY DEF Receive
<1>2. PICK r \in Answers(p, node[i].who) : result' = [result EXCEPT ![node[i].who] = r]
  BY DEF Receive
<1>3. r \in {node[i].who, "failed", "cancelled"}
  BY <1>2 DEF Answers
<1>4. UNCHANGED <<sock, timer, net, loops, running>> /\ recvW' \in BOOLEAN /\ receiving' \in BOOLEAN
  BY DEF Receive
<1> QED BY <1>1, <1>2, <1>3, <1>4, WaiterEnds

\* The call that is at work, and the slot it looks at.
LEMMA BookAt ==
    ASSUME Types, NEW k \in 1..Len(loops), At(loops[k])
    PROVE  /\ loops[k] \in Frame /\ loops[k].at \in Slots /\ loops[k].next \in 0..Never
           /\ node[loops[k].at] \in Node /\ node[loops[k].at].left \in 0..Period
<1>1. loops[k] \in Frame /\ loops[k].at \in Slots
  BY DEF At, Types
<1> QED BY <1>1 DEF Types, Frame, Node

\* Who has no time left is not about to wait, so the loop sees a waiter.
LEMMA ExpiredWaits ==
    ASSUME Types, SpecialInv, NEW k \in 1..Len(loops), At(loops[k]), Seen(loops[k]),
           node[loops[k].at].left = 0
    PROVE  Used(loops[k].at) /\ ~AboutToWait(loops[k].at)
<1>1. loops[k].at \in Slots
  BY BookAt
<1>2. ~AboutToWait(loops[k].at)
  BY <1>1, SizeNat DEF SpecialInv
<1> QED BY <1>2 DEF Seen, HasWaiter, Used, AboutToWait

\* A slot with nothing to do is passed.
LEMMA PassBook ==
    ASSUME BookInv, NEW k \in 1..Len(loops), Pass(loops[k])
    PROVE  BookInv'
<1> DEFINE f == loops[k]
           next == IF Seen(f) THEN Earlier(f.next, node[f.at].left) ELSE f.next
<1>1. Types /\ At(f) /\ Advance(f, next)
  BY DEF Pass, BookInv
<1>2. f.next \in 0..Never /\ node[f.at].left \in 0..Period
  BY <1>1, BookAt
<1> HIDE DEF f
<1>3. next \in 0..Never
  BY <1>2, SizeNat DEF Earlier, Never
<1> HIDE DEF next
<1>4. /\ loops' \in Seq(Frame)
      /\ \A j \in Slots : AboutToWait(j)' <=> AboutToWait(j)
  BY <1>1, <1>3, AdvanceStack DEF f
<1>5. UNCHANGED <<node, free, sock, recvW, net, timer, running, receiving, result>>
  BY DEF Pass, socket
<1>6. Types'
  BY <1>1, <1>4, <1>5 DEF Types, Used
<1> QED BY <1>4, <1>5, <1>6, BookKept

\* A lookup is tried again.
LEMMA RetryBook ==
    ASSUME BookInv, NEW k \in 1..Len(loops), Retry(loops[k])
    PROVE  BookInv'
<1> DEFINE f == loops[k]
           i == f.at
           next == Earlier(f.next, Period)
<1>1. Types /\ SpecialInv /\ At(f) /\ Advance(f, next)
  BY DEF Retry, BookInv
<1>2. f.next \in 0..Never /\ i \in Slots /\ node[i] \in Node
  BY <1>1, BookAt
<1>3. Seen(f) /\ node[i].left = 0 /\ node[i].retries > 0
  BY DEF Retry
<1>4. Used(i) /\ ~AboutToWait(i)
  BY <1>1, <1>3, ExpiredWaits
<1>5. UNCHANGED <<free, sock, recvW, timer, running, receiving, result>>
  BY DEF Retry
<1>6. net' = net \cup {Packet(i)}
  BY DEF Retry
<1>7. node' = [[node EXCEPT ![i].retries = @ - 1] EXCEPT ![i].left = Period]
  BY DEF Retry
<1> HIDE DEF f, i
<1>8. next \in 0..Never
  BY <1>2, SizeNat DEF Earlier, Never
<1> HIDE DEF next
<1>9. /\ loops' \in Seq(Frame)
      /\ \A j \in Slots : AboutToWait(j)' <=> AboutToWait(j)
  BY <1>1, <1>8, AdvanceStack DEF f
<1> DEFINE h == [node[i] EXCEPT !.retries = node[i].retries - 1]
           new == [h EXCEPT !.left = Period]
<1>10. new \in Node /\ new.who = node[i].who /\ new.trid = node[i].trid
  <2>1. node[i].retries - 1 \in 0..(MaxTries - 1)
    BY <1>2, <1>3, SizeNat DEF Node
  <2>2. h \in Node /\ h.who = node[i].who /\ h.trid = node[i].trid
    BY <1>2, <2>1 DEF Node
  <2>3. Period \in 0..Period
    BY SizeNat
  <2> HIDE DEF h
  <2> QED BY <2>2, <2>3 DEF Node
<1>11. node' = [node EXCEPT ![i] = new]
  BY <1>1, <1>2, <1>7 DEF Types
<1> HIDE DEF h, new
<1>12. /\ node' \in [Slots -> Node]
       /\ \A j \in Slots : node'[j] = IF j = i THEN new ELSE node[j]
  BY <1>1, <1>2, <1>10, <1>11 DEF Types
<1>13. \A j \in Slots : node'[j].who = node[j].who /\ node'[j].trid = node[j].trid
  BY <1>10, <1>12
<1>14. net' \subseteq [trid : Trids, name : Lookups]
  <2>1. node[i].trid \in Trids /\ node[i].who \in Lookups
    BY <1>1, <1>2, <1>4 DEF Node, Used, Types
  <2> QED BY <1>1, <1>6, <2>1 DEF Types, Packet
<1>15. Types'
  <2>1. \A j \in Slots : Used(j)' => node'[j].trid \in Trids
    BY <1>1, <1>13 DEF Types, Used
  <2> QED BY <1>1, <1>5, <1>9, <1>12, <1>14, <2>1 DEF Types
<1>16. \A j \in Slots : AboutToWait(j)' => AboutToWait(j) /\ node'[j].left = node[j].left
  BY <1>4, <1>9, <1>12
<1> QED BY <1>5, <1>13, <1>15, <1>16, TimesChange

\* A lookup has expired for good.
LEMMA ExpireBook ==
    ASSUME BookInv, NEW k \in 1..Len(loops), Expire(loops[k])
    PROVE  BookInv'
<1> DEFINE f == loops[k]
           i == f.at
<1>1. Types /\ SpecialInv /\ At(f) /\ Advance(f, f.next)
  BY DEF Expire, BookInv
<1>2. f.next \in 0..Never /\ i \in Slots
  BY <1>1, BookAt
<1>3. Seen(f) /\ node[i].left = 0 /\ Dealloc(i)
  BY DEF Expire
<1>4. Used(i) /\ ~AboutToWait(i)
  BY <1>1, <1>3, ExpiredWaits
<1>5. UNCHANGED <<sock, recvW, net, timer, receiving>> /\ running' = FALSE
  BY DEF Expire, socket
<1>6. result' = [result EXCEPT ![node[i].who] = "failed"]
  BY DEF Expire
<1>7. "failed" \in Results /\ "failed" # "asked"
  BY DEF Results
<1>8. /\ loops' \in Seq(Frame)
      /\ \A j \in Slots : AboutToWait(j)' <=> AboutToWait(j)
  BY <1>1, <1>2, AdvanceStack
<1> HIDE DEF f, i
<1>9. /\ node' \in [Slots -> Node] /\ free' \in Seq(Slots)
      /\ result' \in [Lookups -> Results]
      /\ \A j \in Slots : Used(j)' => node'[j].trid \in Trids
      /\ FreeInv' /\ AskedInv'
      /\ \A j \in Slots : AboutToWait(j) => Used(j)' /\ node'[j].left = Period
  BY <1>2, <1>3, <1>4, <1>6, <1>7, EndLookup
<1>10. Types'
  BY <1>1, <1>5, <1>8, <1>9 DEF Types
<1>11. SpecialInv'
  BY <1>8, <1>9 DEF SpecialInv
<1> QED BY <1>9, <1>10, <1>11 DEF BookInv

\* timeout() returns.
LEMMA TimeoutReturnsBook ==
    ASSUME BookInv, TimeoutReturns
    PROVE  BookInv'
<1>1. Types /\ loops # <<>> /\ loops' = Front(loops)
  BY DEF TimeoutReturns, BookInv
<1>2. /\ loops' \in Seq(Frame)
      /\ \A j \in Slots : AboutToWait(j)' => AboutToWait(j)
      /\ Last(loops) \in Frame
  BY <1>1, ReturnStack
<1>3. UNCHANGED <<node, free, receiving, result>> /\ running' = FALSE
  BY DEF TimeoutReturns
<1>4. /\ sock' \in BOOLEAN /\ recvW' \in BOOLEAN
      /\ net' \subseteq [trid : Trids, name : Lookups]
  BY <1>1 DEF TimeoutReturns, Types, socket
<1>5. timer' \in 0..Never
  <2>1. timer' \in {timer, Last(loops).next}
    BY DEF TimeoutReturns
  <2> QED BY <1>1, <1>2, <2>1 DEF Types, Frame
<1>6. Types'
  BY <1>1, <1>2, <1>3, <1>4, <1>5 DEF Types, Used
<1> QED BY <1>2, <1>3, <1>6, BookKept

\* time_w calls timeout().
LEMMA TimerFiresBook ==
    ASSUME BookInv, TimerFires
    PROVE  BookInv'
<1> DEFINE f == [at |-> 0, next |-> Never, special |-> None]
<1>1. f \in Frame /\ f.special = None
  BY SizeNat DEF Frame, Never
<1>2. loops' = <<f>>
  BY DEF TimerFires
<1> HIDE DEF f
<1>3. loops' \in Seq(Frame) /\ Len(loops') = 1 /\ loops'[1] = f
  BY <1>1, <1>2
<1>4. \A j \in Slots : ~AboutToWait(j)'
  <2>1. \A j \in Slots : j # None
    BY DnsOK DEF Slots
  <2> QED BY <1>1, <1>3, <2>1 DEF AboutToWait
<1>5. UNCHANGED <<node, free, sock, recvW, net, receiving, result>> /\ running' \in BOOLEAN
  BY DEF TimerFires, socket
<1>6. timer' \in 0..Never
  BY SizeNat DEF TimerFires, Never
<1>7. Types'
  BY <1>3, <1>5, <1>6 DEF BookInv, Types, Used
<1> QED BY <1>4, <1>5, <1>7, BookKept

\* A callback returns, to complete_recv() or to a loop.
LEMMA ReturnsBook ==
    ASSUME BookInv, Returns
    PROVE  BookInv'
<1>1. UNCHANGED <<node, free, sock, net, timer, loops, result>>
  BY DEF Returns, CallbackReturns, ReceiveReturns, socket
<1>2. recvW' \in BOOLEAN /\ running' \in BOOLEAN /\ receiving' \in BOOLEAN
  BY DEF Returns, CallbackReturns, ReceiveReturns, socket, BookInv, Types
<1>3. Types'
  BY <1>1, <1>2 DEF BookInv, Types, Used
<1>4. \A j \in Slots : AboutToWait(j)' => AboutToWait(j)
  BY <1>1 DEF AboutToWait
<1> QED BY <1>1, <1>3, <1>4, BookKept

\* A unit of time passes, while nobody is about to wait.
LEMMA TimePassesBook ==
    ASSUME BookInv, TimePasses
    PROVE  BookInv'
<1>1. loops = <<>> /\ loops' = <<>> /\ running' = running /\ receiving' = receiving
  BY DEF TimePasses, Idle, stack
<1>2. UNCHANGED <<free, sock, recvW, net, result>>
  BY DEF TimePasses, socket
<1>3. ASSUME NEW j \in Slots
      PROVE  node'[j] \in Node /\ node'[j].who = node[j].who /\ node'[j].trid = node[j].trid
  <2>1. node[j] \in Node
    BY DEF BookInv, Types
  <2> DEFINE m == IF node[j].left = 0 THEN 0 ELSE node[j].left - 1
  <2>2. m \in 0..Period
    BY <2>1, SizeNat DEF Node
  <2>3. node'[j] = [node[j] EXCEPT !.left = m]
    BY DEF TimePasses
  <2> HIDE DEF m
  <2> QED BY <2>1, <2>2, <2>3 DEF Node
<1>4. node' \in [Slots -> Node]
  <2>1. node' = [j \in Slots |-> node'[j]]
    BY DEF TimePasses
  <2> QED BY <1>3, <2>1
<1>5. timer' \in 0..Never
  BY SizeNat DEF TimePasses, BookInv, Types, Never
<1>6. loops' \in Seq(Frame) /\ \A j \in Slots : ~AboutToWait(j)'
  <2>1. Len(loops') = 0
    BY <1>1
  <2> QED BY <1>1, <2>1 DEF AboutToWait
<1>7. Types'
  <2>1. \A j \in Slots : Used(j)' => node'[j].trid \in Trids
    BY <1>3 DEF BookInv, Types, Used
  <2> QED BY <1>1, <1>2, <1>4, <1>5, <1>6, <2>1 DEF BookInv, Types
<1> QED BY <1>2, <1>3, <1>6, <1>7, TimesChange

\* Every step keeps the invariant, also when callbacks ask again.
LEMMA BookStep == BookInv /\ [Next]_vars => BookInv'
<1> SUFFICES ASSUME BookInv, [Next]_vars PROVE BookInv'
  OBVIOUS
<1>1. CASE Client
  BY <1>1, AwaitLookupBook, AwaitKnownBook, CancelBook DEF Client
<1>2. CASE Loop
  BY <1>2, PassBook, RetryBook, ExpireBook, TimeoutReturnsBook DEF Loop
<1>3. CASE Returns
  BY <1>3, ReturnsBook
<1>4. CASE TimerFires
  BY <1>4, TimerFiresBook
<1>5. CASE TimePasses
  BY <1>5, TimePassesBook
<1>6. ASSUME NEW p \in net, NEW i \in Slots, Receive(p, i) PROVE BookInv'
  BY <1>6, ReceiveBook
<1>7. CASE UNCHANGED vars
  <2>1. Types' /\ \A j \in Slots : AboutToWait(j)' => AboutToWait(j)
    BY <1>7 DEF vars, BookInv, Types, Used, AboutToWait
  <2> QED BY <1>7, <2>1, BookKept DEF vars
<1> QED BY <1>1, <1>2, <1>3, <1>4, <1>5, <1>6, <1>7 DEF Next

\* Every variable keeps its type, however deep callbacks that ask again nest
\* the calls of timeout(): await_lookup(), complete_recv() and timeout() never
\* leave a slot or the stack in a state the code has no name for.
THEOREM DnsTypes == Spec => []TypeOK
<1>1. BookInv => TypeOK
  BY DEF BookInv, Types, TypeOK, Node, Frame, Results
<1> QED BY <1>1, BookInit, BookStep, PTL DEF Spec

\* With no call of timeout() on the stack an open socket has a timer.
Timed == sock /\ loops = <<>> => timer # Never

\* Once a socket is open and timeout() has returned, time_w waits: whoever is
\* answered or cancelled, and whatever callbacks ask, timeout() will run again
\* and find out that nobody needs the socket.
THEOREM SocketTimed == Spec => []Timed
<1>1. Init => Timed
  BY DEF Init, Timed
<1>2. ASSUME BookInv, Timed, [Next]_vars PROVE Timed'
  <2>1. Period \in Nat \ {0} /\ Never = Period + 1
    BY SizeNat DEF Never
  <2>2. CASE TimeoutReturns
    <3>1. timer \in 0..Never /\ loops # <<>> /\ loops \in Seq(Frame)
      BY <1>2, <2>2 DEF TimeoutReturns, BookInv, Types
    <3>2. sock' => timer' = IF timer = Never THEN Last(loops).next ELSE timer
      BY <2>2 DEF TimeoutReturns
    <3>3. sock' => Last(loops).next # Never
      BY <2>2 DEF TimeoutReturns
    <3> QED BY <3>2, <3>3 DEF Timed
  <2>3. CASE TimePasses
    <3>1. timer \in 0..Never
      BY <1>2 DEF BookInv, Types
    <3>2. timer # Never => timer' # Never
      BY <2>1, <2>3, <3>1 DEF TimePasses
    <3> QED BY <1>2, <2>3, <3>2 DEF Timed, TimePasses, socket, stack
  <2>4. CASE Client
    <3>1. ASSUME NEW l \in Lookups, NEW t \in Trids, NEW tries \in 1..MaxTries,
                 AwaitLookup(l, t, tries)
          PROVE  loops' # <<>>
      <4>1. loops \in Seq(Frame)
        BY <1>2 DEF BookInv, Types
      <4>2. \E f : loops' = Append(loops, f)
        BY <3>1 DEF AwaitLookup
      <4> QED BY <4>1, <4>2
    <3>2. ASSUME NEW l \in Lookups, AwaitKnown(l) PROVE Timed'
      BY <1>2, <3>2 DEF AwaitKnown, Timed, socket, stack
    <3>3. ASSUME NEW i \in Slots, Cancel(i) PROVE Timed'
      BY <1>2, <3>3 DEF Cancel, Timed, socket, stack
    <3> QED BY <2>4, <3>1, <3>2, <3>3 DEF Client, Timed
  <2>5. CASE TimerFires
    <3>1. loops' # <<>>
      BY <2>5 DEF TimerFires
    <3> QED BY <3>1 DEF Timed
  <2>6. CASE Returns
    BY <1>2, <2>6 DEF Returns, CallbackReturns, ReceiveReturns, Timed, socket
  <2>7. ASSUME NEW p \in net, NEW i \in Slots, Receive(p, i) PROVE Timed'
    BY <1>2, <2>7 DEF Receive, Timed
  <2>8. ASSUME NEW k \in 1..Len(loops), Pass(loops[k]) \/ Retry(loops[k]) \/ Expire(loops[k])
        PROVE  Timed'
    <3>1. \E f : loops' = Append(Front(loops), f)
      BY <2>8 DEF Pass, Retry, Expire, Advance
    <3>2. loops \in Seq(Frame) /\ loops # <<>>
      BY <1>2, <2>8 DEF Pass, Retry, Expire, At, BookInv, Types
    <3>3. Front(loops) \in Seq(Frame)
      BY <3>2 DEF Front
    <3>4. loops' # <<>>
      BY <3>1, <3>3
    <3> QED BY <3>4 DEF Timed
  <2>9. CASE UNCHANGED vars
    BY <1>2, <2>9 DEF vars, Timed
  <2> QED BY <1>2, <2>2, <2>3, <2>4, <2>5, <2>6, <2>7, <2>8, <2>9 DEF Next, Loop
<1>3. BookInv /\ Timed /\ [Next]_vars => (BookInv /\ Timed)'
  BY <1>2, BookStep
<1>4. Init => BookInv /\ Timed
  BY <1>1, BookInit
<1> QED BY <1>3, <1>4, PTL DEF Spec

\* The slots of `waiting' are never lost, doubled or given to two lookups:
\* each is once on the free list or holds the one lookup that waits in it, and
\* every lookup that is asked for has exactly one.
THEOREM SlotsNeverLost == Spec => []SlotsWhole
<1>1. ASSUME BookInv PROVE SlotsWhole
  <2>1. free \in Seq(Slots) /\ DOMAIN free = 1..Len(free)
    BY <1>1 DEF BookInv, Types
  <2>2. IsInjective(free)
    BY <1>1, <2>1 DEF BookInv, FreeInv, IsInjective
  <2>3. ToSet(free) = {i \in Slots : node[i].who = None}
    <3>1. \A x : x \in ToSet(free) <=> \E k \in 1..Len(free) : free[k] = x
      BY <2>1 DEF ToSet
    <3>2. \A k \in 1..Len(free) : free[k] \in Slots
      BY <2>1
    <3>3. \A i \in Slots : (\E k \in 1..Len(free) : free[k] = i) <=> node[i].who = None
      BY <1>1 DEF BookInv, FreeInv, Used
    <3> QED BY <3>1, <3>2, <3>3
  <2>4. ASSUME NEW l \in Lookups
        PROVE  Cardinality({i \in Slots : node[i].who = l}) = IF result[l] = "asked" THEN 1 ELSE 0
    <3> DEFINE S == {i \in Slots : node[i].who = l}
    <3>1. \A i \in S : Used(i)
      BY DnsOK DEF Used
    <3>2. CASE result[l] = "asked"
      <4>1. PICK i \in Slots : node[i].who = l
        BY <1>1, <3>2 DEF BookInv, AskedInv
      <4>2. S = {i}
        BY <1>1, <3>1, <4>1 DEF BookInv, AskedInv
      <4>3. Cardinality(S) = 1
        BY <4>2, FS_Singleton, Zenon
      <4> QED BY <3>2, <4>3
    <3>3. CASE result[l] # "asked"
      <4>1. S = {}
        BY <1>1, <3>1, <3>3 DEF BookInv, AskedInv
      <4>2. Cardinality(S) = 0
        BY <4>1, FS_EmptySet, Zenon
      <4> QED BY <3>3, <4>2
    <3> QED BY <3>2, <3>3
  <2> QED BY <2>2, <2>3, <2>4 DEF SlotsWhole
<1> QED BY <1>1, BookInit, BookStep, PTL DEF Spec

=============================================================================

---------------------------- MODULE RunloopPoll ----------------------------
(***************************************************************************)
(* The runloop over ppoll(), src/arlib/runloop-poll.cpp, with the          *)
(* producers and waiters of src/arlib/runloop2.h it hands out: two tables  *)
(* of slots with a free list threaded through the unused ones, one for     *)
(* file descriptors and one (an allocatable_array) for timeouts.           *)
(*                                                                         *)
(* step() polls, dispatches the descriptors by index, then the timeouts.   *)
(* A completed waiter calls back into client code, which may register and  *)
(* cancel whatever it likes before it returns to the loop.  The build      *)
(* without GTK is modelled.                                                *)
(***************************************************************************)
EXTENDS Integers, FiniteSets, FiniteSetsExt

CONSTANTS
    Ops,            \* the waiters of the clients
    Nil,            \* the null pointer
    InitSlots,      \* the size of a table when it is first allocated
    MaxDelay,       \* the longest timeout, in units of time
    GrowInTimeouts  \* whether callbacks of timeouts may register so many
                    \* timeouts that the table is reallocated

ASSUME SlotsOK == InitSlots \in Nat \ {0} /\ MaxDelay \in Nat \ {0}

\* The null pointer is neither a waiter nor the address of a producer.
Pointers == [table : {"fds", "tms"}, gen : Nat, idx : Nat]

ASSUME NilOK == Nil \notin Ops /\ Nil \notin Pointers

VARIABLES
    fds, revents,   \* fds_t: the table, and revents of each pollfd
    tms, left,      \* timeout_t: the table, and the time left of each used node
    prod,           \* per waiter, the producer it points to
    phase,          \* "idle" outside step(), else the loop it is in
    n,              \* the index that loop has reached
    end, endGen,    \* the bound and the array the range-for has captured
    inCallback,     \* client code runs below the loop
    ready           \* waiters whose event the last poll found, still waiting

vars == <<fds, revents, tms, left, prod, phase, n, end, endGen, inCallback, ready>>

-----------------------------------------------------------------------------
(* Tables of slots.  next[i] is the link of an unused slot and InUse in a  *)
(* used one; gen counts the arrays the table has lived in.                 *)

InUse == -1

Size(t) == Cardinality(DOMAIN t.next)
Slots(t) == 0..(Size(t) - 1)

EmptyTable(size) ==
    [gen |-> 0, free |-> 0,
     next |-> [i \in 0..(size - 1) |-> i + 1],
     wait |-> [i \in 0..(size - 1) |-> Nil]]

\* reallocate(), when the free list is exhausted.
Reallocated(t) ==
    LET size == IF Size(t) = 0 THEN InitSlots ELSE 2 * Size(t)
    IN  [gen |-> t.gen + 1, free |-> t.free,
         next |-> [i \in 0..(size - 1) |-> IF i < Size(t) THEN t.next[i] ELSE i + 1],
         wait |-> [i \in 0..(size - 1) |-> IF i < Size(t) THEN t.wait[i] ELSE Nil]]

Reserved(t) == IF t.free = Size(t) THEN Reallocated(t) ELSE t

\* The first unused slot is taken and its producer connected to w.
Connected(t, w) ==
    [t EXCEPT !.free = t.next[t.free], !.next[t.free] = InUse, !.wait[t.free] = w]

\* Fault: the head of the free list is replaced before it is linked.
FreedToItself(t, i) == [t EXCEPT !.free = i, !.next[i] = i, !.wait[i] = Nil]

\* A slot is disconnected and becomes the first unused one.
Freed(t, i) == [t EXCEPT !.free = i, !.next[i] = t.free, !.wait[i] = Nil]

Pointer(name, t, i) == [table |-> name, gen |-> t.gen, idx |-> i]

\* Fault: the producers are not told that they moved.
MovedSilently(name, t) == prod

\* producer::moved() of every slot: waiters point into the array t lives in.
Moved(name, t) ==
    [w \in Ops |-> IF \E i \in Slots(t) : t.wait[i] = w
                   THEN Pointer(name, t, CHOOSE i \in Slots(t) : t.wait[i] = w)
                   ELSE prod[w]]

-----------------------------------------------------------------------------
Init ==
    /\ fds = EmptyTable(InitSlots) /\ revents = [i \in 0..(InitSlots - 1) |-> FALSE]
    /\ tms = EmptyTable(0) /\ left = [i \in {} |-> 0]
    /\ prod = [w \in Ops |-> Nil]
    /\ phase = "idle" /\ n = 0 /\ end = 0 /\ endGen = 0
    /\ inCallback = FALSE
    /\ ready = {}

loop == <<phase, n, end, endGen, inCallback>>

ClientRuns == phase = "idle" \/ inCallback

\* await_fd(): reserve_space() and a pollfd whose revents is zero.
AwaitFd(w) ==
    /\ ClientRuns /\ prod[w] = Nil
    /\ LET t == Reserved(fds)
           i == t.free
       IN  /\ fds' = Connected(t, w)
           /\ revents' = [j \in Slots(t) |-> j # i /\ j \in Slots(fds) /\ revents[j]]
           /\ prod' = [Moved("fds", t) EXCEPT ![w] = Pointer("fds", t, i)]
    /\ UNCHANGED <<tms, left, loop, ready>>

\* await_timeout(): a node of the allocatable_array.  d = 0 is a time that has
\* passed when the loop looks at it, however short the callback was.
AwaitTimeout(w, d) ==
    /\ ClientRuns /\ prod[w] = Nil
    /\ phase = "tms" /\ tms.free = Size(tms) => GrowInTimeouts
    /\ LET t == Reserved(tms)
           i == t.free
       IN  /\ tms' = Connected(t, w)
           /\ left' = [j \in Slots(t) |-> IF j = i THEN d
                                          ELSE IF j \in Slots(tms) THEN left[j] ELSE 0]
           /\ prod' = [Moved("tms", t) EXCEPT ![w] = Pointer("tms", t, i)]
    /\ UNCHANGED <<fds, revents, loop, ready>>

\* Fault: the event the poll found stays in the slot.
CancelKeepsEvent(w) ==
    /\ ClientRuns /\ prod[w] # Nil
    /\ LET i == prod[w].idx
       IN  IF prod[w].table = "fds"
           THEN fds' = Freed(fds, i) /\ UNCHANGED <<revents, tms, left>>
           ELSE tms' = Freed(tms, i) /\ left' = [left EXCEPT ![i] = 0] /\ UNCHANGED <<fds, revents>>
    /\ prod' = [prod EXCEPT ![w] = Nil]
    /\ ready' = ready \ {w}
    /\ UNCHANGED loop

\* waiter::cancel(): the slot is freed, and an event the poll already found
\* for it is forgotten.
Cancel(w) ==
    /\ ClientRuns /\ prod[w] # Nil
    /\ LET i == prod[w].idx
       IN  IF prod[w].table = "fds"
           THEN /\ fds' = Freed(fds, i)
                /\ revents' = [revents EXCEPT ![i] = FALSE]
                /\ UNCHANGED tms
                /\ UNCHANGED left
           ELSE /\ tms' = Freed(tms, i)
                /\ left' = [left EXCEPT ![i] = 0]
                /\ UNCHANGED <<fds, revents>>
    /\ prod' = [prod EXCEPT ![w] = Nil]
    /\ ready' = ready \ {w}
    /\ UNCHANGED loop

-----------------------------------------------------------------------------
Elapsed(i, e) == IF left[i] <= e THEN 0 ELSE left[i] - e

\* step() up to the return of ppoll(): R are the descriptors that are ready
\* and e the time it took.  It returns with nothing at once if wait is false
\* or a signal arrives, and else not before the first deadline.
Poll(R, e) ==
    /\ phase = "idle"
    /\ R = {} => e = 0 \/ \E i \in Slots(tms) : tms.wait[i] # Nil /\ left[i] <= e
    /\ revents' = [i \in Slots(fds) |-> i \in R]
    /\ left' = [i \in Slots(tms) |-> Elapsed(i, e)]
    /\ ready' = {fds.wait[i] : i \in R} \cup
                {tms.wait[i] : i \in {j \in Slots(tms) : tms.wait[j] # Nil /\ left[j] <= e}}
    /\ phase' = "fds" /\ n' = 0
    /\ UNCHANGED <<fds, tms, prod, end, endGen, inCallback>>

\* activate(): the slot is unused before the waiter hears of its event.
Complete(w, i) ==
    /\ prod' = [prod EXCEPT ![w] = Nil]
    /\ ready' = ready \ {w}
    /\ inCallback' = TRUE
    /\ n' = i + 1
    /\ UNCHANGED <<phase, end, endGen, revents>>

\* Fault: the loop steps over the slot after the one it dispatched.
EventSlotsSkipping == {i \in Slots(fds) : i >= n /\ (n = 0 \/ i # n) /\ revents[i]}

EventSlots == {i \in Slots(fds) : i >= n /\ revents[i]}

DispatchFd ==
    /\ phase = "fds" /\ ~inCallback /\ EventSlots # {}
    /\ LET i == Min(EventSlots)
       IN  fds' = Freed(fds, i) /\ Complete(fds.wait[i], i)
    /\ UNCHANGED <<tms, left>>

CallbackReturns ==
    /\ inCallback
    /\ inCallback' = FALSE
    /\ UNCHANGED <<fds, revents, tms, left, prod, phase, n, end, endGen, ready>>

\* The range-for over the timeouts keeps begin() and end() of the array.  What
\* it does when the array has moved below it is undefined, so no action says.
StartTimeouts ==
    /\ phase = "fds" /\ ~inCallback /\ EventSlots = {}
    /\ phase' = "tms" /\ n' = 0 /\ end' = Size(tms) /\ endGen' = tms.gen
    /\ UNCHANGED <<fds, revents, tms, left, prod, inCallback, ready>>

\* Fault: the loop ends one node early.
DueSlotsButLast == {i \in n..(end - 2) : tms.wait[i] # Nil /\ left[i] = 0}

DueSlots == {i \in n..(end - 1) : tms.wait[i] # Nil /\ left[i] = 0}

DispatchTimeout ==
    /\ phase = "tms" /\ ~inCallback /\ tms.gen = endGen /\ DueSlots # {}
    /\ LET i == Min(DueSlots)
       IN  /\ tms' = Freed(tms, i) /\ Complete(tms.wait[i], i)
           /\ left' = [left EXCEPT ![i] = 0]
    /\ UNCHANGED fds

StepReturns ==
    /\ phase = "tms" /\ ~inCallback
    /\ n = end \/ (tms.gen = endGen /\ DueSlots = {})
    /\ phase' = "idle" /\ n' = 0 /\ end' = 0 /\ endGen' = 0
    /\ UNCHANGED <<fds, revents, tms, left, prod, inCallback, ready>>

UsedFds == {i \in Slots(fds) : fds.wait[i] # Nil}

Client == \E w \in Ops : AwaitFd(w) \/ Cancel(w) \/ \E d \in 0..MaxDelay : AwaitTimeout(w, d)

Dispatch == DispatchFd \/ CallbackReturns \/ StartTimeouts \/ DispatchTimeout \/ StepReturns

PollTakes(E) == \E R \in SUBSET UsedFds, e \in E : Poll(R, e)

Next == Client \/ PollTakes(0..MaxDelay) \/ Dispatch

Spec == Init /\ [][Next]_vars

\* The program calls step() again and again, callbacks return, and time
\* passes: ppoll() takes some time infinitely often.
FairSpec == Spec /\ WF_vars(Dispatch) /\ SF_vars(PollTakes(1..MaxDelay))

-----------------------------------------------------------------------------
TableOK(t) ==
    /\ t.gen \in Nat
    /\ t.free \in 0..Size(t)
    /\ t.next \in [Slots(t) -> {InUse} \cup 0..Size(t)]
    /\ t.wait \in [Slots(t) -> Ops \cup {Nil}]

TypeOK ==
    /\ TableOK(fds) /\ revents \in [Slots(fds) -> BOOLEAN]
    /\ TableOK(tms) /\ left \in [Slots(tms) -> 0..MaxDelay]
    /\ prod \in [Ops -> Pointers \cup {Nil}]
    /\ phase \in {"idle", "fds", "tms"}
    /\ n \in Nat /\ end \in Nat /\ endGen \in Nat
    /\ inCallback \in BOOLEAN
    /\ ready \subseteq Ops

\* A waiter points to a slot of the array its table lives in now, and that
\* slot's producer points back to it; every connected producer has a waiter.
\* Anything else is a use of freed memory at the next cancel or completion.
Agrees(name, t) ==
    /\ \A i \in Slots(t) : t.wait[i] # Nil => prod[t.wait[i]] = Pointer(name, t, i)
    /\ \A w \in Ops : prod[w] # Nil /\ prod[w].table = name =>
          prod[w].idx \in Slots(t) /\ t.wait[prod[w].idx] = w

LinksAgree == Agrees("fds", fds) /\ Agrees("tms", tms)

\* What is reached from the head of the free list in k links.
Walk(t) ==
    LET walk[k \in 0..Size(t)] ==
            IF k = 0 THEN t.free
            ELSE IF walk[k - 1] \in Slots(t) THEN t.next[walk[k - 1]] ELSE Size(t)
    IN  walk

\* The free list of a table visits every unused slot, no used one, and ends.
FreeListsWhole ==
    LET Whole(t) ==
            LET walk == Walk(t)
            IN  {walk[k] : k \in 0..Size(t)} =
                    {i \in Slots(t) : t.wait[i] = Nil} \cup {Size(t)}
    IN  Whole(fds) /\ Whole(tms)

\* An event that is still to be dispatched belongs to the very registration
\* the kernel reported it for, whatever the callbacks of earlier events
\* cancelled or registered in that slot.
EventsPaired ==
    phase = "fds" => \A i \in EventSlots : fds.wait[i] \in ready

\* When step() returns, every waiter whose event the poll found has heard of
\* it or was cancelled.
NoEventLost == phase = "idle" => ready = {}

\* The loop never walks an array that was reallocated below it: "the loop must
\* be index-based, activating a coroutine can add more waiters which can
\* reallocate" (runloop-poll.cpp:246).
NeverDangling == phase = "tms" /\ ~inCallback /\ n < end => tms.gen = endGen

\* A timeout is reported in the end, unless it is cancelled.
TimeoutServed ==
    \A w \in Ops : prod[w] # Nil /\ prod[w].table = "tms" ~> prod[w] = Nil
=============================================================================

------------------------------- MODULE CoMutex -------------------------------
(***************************************************************************)
(* class co_mutex, src/arlib/runloop2.h: a mutex for coroutines of one     *)
(* thread.  A co_await builds a waiter at the end of an intrusive list;    *)
(* unlock() registers an in_ms(0) timeout with the runloop whose callback  *)
(* resumes the first waiter.  A coroutine may be destroyed while it waits  *)
(* or while it holds the lock, and the mutex may be destroyed while it is  *)
(* held.                                                                   *)
(*                                                                         *)
(* A coroutine runs until it suspends, so every action is one synchronous  *)
(* run of the code.  The build without ARLIB_OPT is modelled, in which     *)
(* async::then() on a busy waiter cancels the older registration.          *)
(***************************************************************************)
EXTENDS Naturals, FiniteSets, SequencesExt

CONSTANTS
    Coros,      \* coroutines that use the mutex
    NoLock,     \* the null pointer
    Barging     \* whether a co_await may begin between unlock() and the
                \* timeout it registered

ASSUME ConstantsOK == NoLock \notin Coros /\ Barging \in BOOLEAN

VARIABLES
    exists,     \* the co_mutex has been constructed and not yet destroyed
    queue,      \* the list at `first`: coroutines whose waiter object is linked
    theLock,    \* the_lock, named by the coroutine that owns the lock object
    holders,    \* coroutines whose lock object has a parent
    timer       \* next_unlocker is connected to a timeout of the runloop

vars == <<exists, queue, theLock, holders, timer>>

Init ==
    /\ exists = TRUE
    /\ queue = <<>>
    /\ theLock = NoLock
    /\ holders = {}
    /\ timer = FALSE

Waiting(c) == \E i \in 1..Len(queue) : queue[i] = c

Outside(c) == c \notin holders /\ ~Waiting(c)

\* Whether somebody waits for a hand-off that has been promised.
HandoffPending == theLock = NoLock /\ queue # <<>>

-----------------------------------------------------------------------------
\* Fault: ~waiter() leaves the timeout alone.
UnlinkKeepsTimer(i) == queue' = RemoveAt(queue, i) /\ UNCHANGED timer

\* ~waiter(): the timeout is cancelled when the list it leaves is empty.
Unlink(i) ==
    /\ queue' = RemoveAt(queue, i)
    /\ timer' = (timer /\ queue' # <<>>)

\* Fault: await_ready() asks whether anybody waits, not whether anybody holds.
AcquireFreeByList(c) ==
    /\ exists /\ Outside(c) /\ queue = <<>>
    /\ theLock' = c
    /\ holders' = holders \cup {c}
    /\ UNCHANGED <<exists, queue, timer>>

\* await_ready() found no lock: the waiter is linked, await_resume() takes the
\* lock, and the destructor of the waiter unlinks it again, all in one run.
AcquireFree(c) ==
    /\ exists /\ Outside(c)
    /\ theLock = NoLock
    /\ HandoffPending => Barging
    /\ theLock' = c
    /\ holders' = holders \cup {c}
    /\ timer' = (timer /\ queue # <<>>)
    /\ UNCHANGED <<exists, queue>>

\* Fault: a waiter links itself at `first`.
AcquireWaitFirst(c) ==
    /\ exists /\ Outside(c) /\ theLock # NoLock
    /\ queue' = <<c>> \o queue
    /\ UNCHANGED <<exists, theLock, holders, timer>>

\* await_ready() found the lock taken: the coroutine suspends in the list.
AcquireWait(c) ==
    /\ exists /\ Outside(c)
    /\ theLock # NoLock
    /\ queue' = Append(queue, c)
    /\ UNCHANGED <<exists, theLock, holders, timer>>

\* Fault: unlock() does not register the timeout.
ReleaseSilent(c) ==
    /\ c \in holders
    /\ holders' = holders \ {c} /\ theLock' = NoLock
    /\ UNCHANGED <<exists, queue, timer>>

\* lock::release() and unlock(), by the coroutine or by its cancellation.
Release(c) ==
    /\ c \in holders
    /\ holders' = holders \ {c}
    /\ theLock' = NoLock
    /\ timer' = (timer \/ queue # <<>>)
    /\ UNCHANGED <<exists, queue>>

\* The timeout fires: unlocker_run() resumes the first waiter, whose
\* await_resume() takes the lock and whose destructor unlinks it.
UnlockerRun ==
    /\ timer
    /\ theLock' = queue[1]
    /\ holders' = holders \cup {queue[1]}
    /\ queue' = RemoveAt(queue, 1)
    /\ timer' = FALSE
    /\ UNCHANGED exists

\* A suspended coroutine is cancelled, which destroys its waiter.
CancelWait(i) ==
    /\ Unlink(i)
    /\ UNCHANGED <<exists, theLock, holders>>

\* Fault: ~co_mutex() leaves the lock object its parent.
DestroyKeepsParent ==
    /\ exists /\ queue = <<>>
    /\ exists' = FALSE /\ theLock' = NoLock /\ timer' = FALSE
    /\ UNCHANGED <<queue, holders>>

\* ~co_mutex(): the lock object it knows forgets it.  Destroying it while
\* anyone waits is a use error the destructor aborts on.
Destroy ==
    /\ exists /\ queue = <<>>
    /\ exists' = FALSE
    /\ holders' = holders \ {theLock}
    /\ theLock' = NoLock
    /\ timer' = FALSE
    /\ UNCHANGED queue

\* co_mutex(): another mutex is built where the old one was.
Construct ==
    /\ ~exists
    /\ exists' = TRUE
    /\ UNCHANGED <<queue, theLock, holders, timer>>

Next ==
    \/ \E c \in Coros : AcquireFree(c) \/ AcquireWait(c) \/ Release(c)
    \/ UnlockerRun
    \/ \E i \in 1..Len(queue) : CancelWait(i)
    \/ Destroy
    \/ Construct

Spec == Init /\ [][Next]_vars

\* The runloop dispatches a due timeout, and whoever is inside the region
\* leaves it in the end; nothing obliges anyone to arrive or to be cancelled.
FairSpec ==
    /\ Spec
    /\ WF_vars(UnlockerRun)
    /\ \A c \in Coros : WF_vars(Release(c))

-----------------------------------------------------------------------------
TypeOK ==
    /\ exists \in BOOLEAN
    /\ queue \in Seq(Coros)
    /\ theLock \in Coros \cup {NoLock}
    /\ holders \subseteq Coros
    /\ timer \in BOOLEAN

\* "only one coroutine at the time may enter this region" (runloop2.h:174).
MutualExclusion == \A c, d \in holders : c = d

\* Nobody is forgotten between unlock() and the timeout: whoever waits while
\* the region is empty has a timeout on its way, whoever was cancelled since,
\* and the timeout never finds an empty list (unlocker_run() would follow a
\* null pointer).
NoLostHandoff ==
    /\ queue # <<>> /\ holders = {} => timer
    /\ timer => queue # <<>>

\* Every lock object that will call unlock() belongs to the one coroutine
\* the_lock names, and to nobody once the mutex is gone: ~lock() never
\* touches a destroyed mutex.
LockKnown == /\ holders = {theLock} \ {NoLock}
             /\ ~exists => queue = <<>> /\ theLock = NoLock

\* The mutex keeps the promise of FifoMutex: first come, first in, one at a
\* time, although a cancelled coroutine or a destroyed mutex may come between.
Line == IF theLock = NoLock THEN queue ELSE <<theLock>> \o queue

Fifo == INSTANCE FifoMutex WITH line <- Line, inside <- (theLock # NoLock)

KeepsOrder == Fifo!Spec

\* Every coroutine that waits is let in or cancelled in the end.
WaiterServed == \A c \in Coros : Waiting(c) ~> ~Waiting(c)
=============================================================================

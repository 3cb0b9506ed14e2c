---------------------------- MODULE RunOnceFutex ----------------------------
(***************************************************************************)
(* runonce::run() of Linux, src/arlib/thread/linux-thr.cpp, over the       *)
(* futex word of class runonce (src/arlib/thread/thread.h).  One action    *)
(* per atomic access or system call; the kernel may also wake a sleeper    *)
(* for no reason (a signal).                                               *)
(*                                                                         *)
(* LLSC and WeakOrder say what hardware the code is built for.  lock_cmpxchg *)
(* asks for a weak compare-exchange (src/arlib/thread/atomic.h:42): where  *)
(* it is a load-linked/store-conditional pair it may fail for no reason    *)
(* and still return the expected value.  lock_loose orders nothing where   *)
(* the hardware does not.                                                  *)
(***************************************************************************)
EXTENDS RunOnceThreads, Naturals, FiniteSets

CONSTANTS LLSC,         \* a compare-exchange may fail for no reason
          WeakOrder     \* a relaxed access does not synchronise

ASSUME BuildOK == LLSC \in BOOLEAN /\ WeakOrder \in BOOLEAN

VARIABLES
    futex,      \* the state word: "uninit", "busy", "busy_waiters", "done"
    runners,    \* the threads that have called fn
    sees,       \* the threads that fn's return happens before
    returned    \* the threads of which some call has returned

vars == <<futex, pc, runners, sees, returned>>

Words == {"uninit", "busy", "busy_waiters", "done"}
Places == {"idle", "read", "claim", "fn", "publish", "wake", "mark", "sleep",
           "asleep", "recheck"}

Init ==
    /\ futex = "uninit"
    /\ pc = [t \in Threads |-> "idle"]
    /\ runners = {} /\ sees = {} /\ returned = {}

Return(t) == Goto(t, "idle") /\ returned' = returned \cup {t}

\* What an acquiring load of the word synchronises with: the releasing
\* exchange that stored "done".
Acquire(t) == sees' = IF futex = "done" THEN sees \cup {t} ELSE sees

-----------------------------------------------------------------------------
\* Somebody calls run().
Call(t) ==
    /\ pc[t] = "idle"
    /\ Goto(t, "read")
    /\ UNCHANGED <<futex, runners, sees, returned>>

\* lock_read<lock_acq>: done, nobody was here, or somebody is at it.
Read(t) ==
    /\ pc[t] = "read"
    /\ Acquire(t)
    /\ \/ futex = "done" /\ Return(t)
       \/ futex = "uninit" /\ Goto(t, "claim") /\ UNCHANGED returned
       \/ futex \notin {"done", "uninit"} /\ Goto(t, "mark") /\ UNCHANGED returned
    /\ UNCHANGED <<futex, runners>>

\* Fault: the word is stored, not compared and exchanged.
ClaimByStore(t) ==
    /\ pc[t] = "claim"
    /\ futex' = "busy"
    /\ Goto(t, "fn")
    /\ runners' = runners \cup {t}
    /\ UNCHANGED <<sees, returned>>

\* lock_cmpxchg from uninit to busy returns uninit: this thread calls fn.
ClaimWon(t) ==
    /\ pc[t] = "claim" /\ futex = "uninit"
    /\ \/ futex' = "busy"
       \/ LLSC /\ UNCHANGED futex
    /\ Goto(t, "fn")
    /\ runners' = runners \cup {t}
    /\ UNCHANGED <<sees, returned>>

\* Fault: whoever loses the race takes the work for done.
ClaimLostReturns(t) ==
    /\ pc[t] = "claim" /\ futex # "uninit"
    /\ Acquire(t) /\ Return(t)
    /\ UNCHANGED <<futex, runners>>

\* It returns anything else; a relaxed failure need not order anything.
ClaimLost(t) ==
    /\ pc[t] = "claim" /\ futex # "uninit"
    /\ IF WeakOrder THEN UNCHANGED sees ELSE Acquire(t)
    /\ IF futex = "done" THEN Return(t) ELSE Goto(t, "mark") /\ UNCHANGED returned
    /\ UNCHANGED <<futex, runners>>

\* fn() returns.
RunFn(t) ==
    /\ pc[t] = "fn"
    /\ sees' = sees \cup {t}
    /\ Goto(t, "publish")
    /\ UNCHANGED <<futex, runners, returned>>

\* Fault: the old word is not looked at.
PublishSilent(t) ==
    /\ pc[t] = "publish"
    /\ futex' = "done"
    /\ Return(t)
    /\ UNCHANGED <<runners, sees>>

\* lock_xchg<lock_rel> to done; only a word that says so has sleepers.
Publish(t) ==
    /\ pc[t] = "publish"
    /\ futex' = "done"
    /\ IF futex # "busy" THEN Goto(t, "wake") /\ UNCHANGED returned ELSE Return(t)
    /\ UNCHANGED <<runners, sees>>

\* Fault: futex_wake, which wakes one.
WakeOne(t) ==
    /\ pc[t] = "wake"
    /\ \E u \in Threads :
          /\ pc[u] = "asleep" \/ \A v \in Threads : pc[v] # "asleep"
          /\ pc' = [v \in Threads |-> IF v = t THEN "idle"
                                      ELSE IF v = u /\ pc[u] = "asleep" THEN "recheck" ELSE pc[v]]
    /\ returned' = returned \cup {t}
    /\ UNCHANGED <<futex, runners, sees>>

\* futex_wake_all.
Wake(t) ==
    /\ pc[t] = "wake"
    /\ pc' = [u \in Threads |-> CASE u = t -> "idle"
                                  [] pc[u] = "asleep" -> "recheck"
                                  [] OTHER -> pc[u]]
    /\ returned' = returned \cup {t}
    /\ UNCHANGED <<futex, runners, sees>>

\* lock_cmpxchg from busy to busy_waiters, whether or not it succeeds.
Mark(t) ==
    /\ pc[t] = "mark"
    /\ \/ futex' = IF futex = "busy" THEN "busy_waiters" ELSE futex
       \/ LLSC /\ UNCHANGED futex
    /\ Goto(t, "sleep")
    /\ UNCHANGED <<runners, sees, returned>>

\* futex_sleep_if_eq compares the word and sleeps in one step.
Sleep(t) ==
    /\ pc[t] = "sleep"
    /\ Goto(t, IF futex = "busy_waiters" THEN "asleep" ELSE "recheck")
    /\ UNCHANGED <<futex, runners, sees, returned>>

\* The system call returns early.
Spurious(t) ==
    /\ pc[t] = "asleep"
    /\ Goto(t, "recheck")
    /\ UNCHANGED <<futex, runners, sees, returned>>

\* Fault: an early wake-up is taken for the real one.
RecheckOnce(t) ==
    /\ pc[t] = "recheck"
    /\ Acquire(t) /\ Return(t)
    /\ UNCHANGED <<futex, runners>>

\* lock_read<lock_acq>: the loop goes on while the word says busy_waiters.
Recheck(t) ==
    /\ pc[t] = "recheck"
    /\ Acquire(t)
    /\ IF futex = "busy_waiters" THEN Goto(t, "sleep") /\ UNCHANGED returned ELSE Return(t)
    /\ UNCHANGED <<futex, runners>>

Step(t) ==
    \/ Read(t) \/ ClaimWon(t) \/ ClaimLost(t) \/ RunFn(t) \/ Publish(t)
    \/ Wake(t) \/ Mark(t) \/ Sleep(t) \/ Recheck(t)

Next == \E t \in Threads : Call(t) \/ Step(t) \/ Spurious(t)

Spec == Init /\ [][Next]_vars

\* Every thread inside run() is scheduled, and fn returns.
FairSpec == Spec /\ \A t \in Threads : WF_vars(Step(t))

-----------------------------------------------------------------------------
TypeOK ==
    /\ futex \in Words
    /\ pc \in [Threads -> Places]
    /\ runners \subseteq Threads
    /\ sees \subseteq Threads
    /\ returned \subseteq Threads

\* fn is called by one thread at most: the test's other threads pass a
\* function that is never reached (once-thr.cpp:120 and :130).
RunsOnce == \A t, u \in runners : t = u

\* A call that returned returned after fn did, and everything fn wrote is
\* visible to its thread.
ReturnSeesInit == returned \subseteq sees

\* Nobody sleeps on a word nobody will wake him for: whoever sleeps has marked
\* the word, or the thread that replaced the mark has yet to wake everybody.
SleeperMarked ==
    \A t \in Threads : pc[t] = "asleep" =>
        futex = "busy_waiters" \/ \E u \in Threads : pc[u] = "wake"

\* The code keeps the promise of Once.
fnPhase == CASE runners = {} -> "new"
             [] runners # {} /\ sees = {} -> "running"
             [] sees # {} -> "done"

Promise == INSTANCE Once WITH
    phase <- fnPhase,
    callers <- {t \in Threads : pc[t] # "idle"}

KeepsPromise == Promise!Spec

\* Every call of run() returns.
CallReturns == \A t \in Threads : pc[t] # "idle" ~> pc[t] = "idle"
=============================================================================

----------------------------- MODULE RunOnceList -----------------------------
(***************************************************************************)
(* runonce::run() where there is no futex, src/arlib/thread/once-thr.cpp.  *)
(* Threads that come while the function runs put a node that lies on their *)
(* own stack at the head of a list, whose pointer is the state word, and   *)
(* sleep on a semaphore inside the node.  The node is gone when the thread *)
(* wakes.  One action per access to what threads share; the hardware is    *)
(* one whose compare-exchange does not fail for no reason, and memory is   *)
(* sequentially consistent.                                                *)
(*                                                                         *)
(* A pointer to a node is the thread whose node it is.  Names that the     *)
(* futex build has too start with List: RunOnceProofs extends both.        *)
(***************************************************************************)
EXTENDS RunOnceThreads, Naturals

ASSUME NodesAreNotWords == Threads \cap {"uninit", "busy", "done"} = {}

VARIABLES
    m_st,       \* a word, or the first node of the list
    st,         \* per thread, the local variable of that name
    stp,        \* per thread, the node it wakes
    after,      \* per thread, the local `next': the node to wake after that
    next,       \* the member of each node
    sem,        \* the semaphore of each node
    called,     \* how often fn was called
    ran         \* how often it returned

listVars == <<m_st, pc, st, stp, after, next, sem, called, ran>>
nodeVars == <<stp, after, next, sem>>
fnVars == <<called, ran>>

ListWords == {"uninit", "busy", "done"}
ListPlaces == {"idle", "read", "claim", "fn", "publish", "next", "release", "insert", "wait"}

ListInit ==
    /\ m_st = "uninit"
    /\ pc = [t \in Threads |-> "idle"]
    /\ st = [t \in Threads |-> "uninit"]
    /\ stp = [t \in Threads |-> "busy"] /\ after = [t \in Threads |-> "busy"]
    /\ next = [t \in Threads |-> "busy"]
    /\ sem = [t \in Threads |-> 0]
    /\ called = 0 /\ ran = 0

-----------------------------------------------------------------------------
\* Somebody calls run().
ListCall(t) ==
    /\ pc[t] = "idle" /\ Goto(t, "read")
    /\ UNCHANGED <<m_st, st, nodeVars, fnVars>>

\* lock_read<lock_acq>.
ListRead(t) ==
    /\ pc[t] = "read"
    /\ st' = [st EXCEPT ![t] = m_st]
    /\ Goto(t, CASE m_st = "done" -> "idle"
                 [] m_st = "uninit" -> "claim"
                 [] OTHER -> "insert")
    /\ UNCHANGED <<m_st, nodeVars, fnVars>>

\* Fault: the word is stored, not compared and exchanged.
ListClaimByStore(t) ==
    /\ pc[t] = "claim"
    /\ m_st' = "busy" /\ called' = called + 1 /\ Goto(t, "fn")
    /\ UNCHANGED <<st, nodeVars, ran>>

\* lock_cmpxchg from uninit to busy: this thread calls fn.
ListClaimWon(t) ==
    /\ pc[t] = "claim" /\ m_st = "uninit"
    /\ m_st' = "busy" /\ called' = called + 1 /\ Goto(t, "fn")
    /\ UNCHANGED <<st, nodeVars, ran>>

\* Another thread was faster.
ListClaimLost(t) ==
    /\ pc[t] = "claim" /\ m_st # "uninit"
    /\ st' = [st EXCEPT ![t] = m_st]
    /\ Goto(t, IF m_st = "done" THEN "idle" ELSE "insert")
    /\ UNCHANGED <<m_st, nodeVars, fnVars>>

\* fn() returns.
ListRunFn(t) ==
    /\ pc[t] = "fn"
    /\ ran' = ran + 1 /\ Goto(t, "publish")
    /\ UNCHANGED <<m_st, st, nodeVars, called>>

\* lock_xchg to done: the old word is the head of the list.
ListPublish(t) ==
    /\ pc[t] = "publish"
    /\ m_st' = "done"
    /\ st' = [st EXCEPT ![t] = m_st]
    /\ stp' = [stp EXCEPT ![t] = m_st]
    /\ Goto(t, IF m_st = "busy" THEN "idle" ELSE "next")
    /\ UNCHANGED <<after, next, sem, fnVars>>

\* The next node is read while this one must still exist...
ReadNext(t) ==
    /\ pc[t] = "next"
    /\ after' = [after EXCEPT ![t] = next[stp[t]]]
    /\ Goto(t, "release")
    /\ UNCHANGED <<m_st, st, stp, next, sem, fnVars>>

\* Fault: one sleeper is woken, to wake the others himself.
ReleaseOne(t) ==
    /\ pc[t] = "release"
    /\ sem' = [sem EXCEPT ![stp[t]] = @ + 1]
    /\ Goto(t, "idle")
    /\ UNCHANGED <<m_st, st, stp, after, next, fnVars>>

\* Fault: the next node is read from the one that was released.
ReleaseFirst(t) ==
    /\ pc[t] = "release"
    /\ sem' = [sem EXCEPT ![stp[t]] = @ + 1]
    /\ Goto(t, IF after[t] = "busy" THEN "idle" ELSE "next")
    /\ UNCHANGED <<m_st, st, stp, after, next, fnVars>>

\* ...and then its thread is woken.
Release(t) ==
    /\ pc[t] = "release"
    /\ sem' = [sem EXCEPT ![stp[t]] = @ + 1]
    /\ stp' = [stp EXCEPT ![t] = after[t]]
    /\ Goto(t, IF after[t] = "busy" THEN "idle" ELSE "next")
    /\ UNCHANGED <<m_st, st, after, next, fnVars>>

\* Fault: `next' is written once, before the loop.
InsertStaleNext(t) ==
    /\ pc[t] = "insert"
    /\ next' = [next EXCEPT ![t] = "busy"]
    /\ IF m_st = st[t]
       THEN m_st' = t /\ Goto(t, "wait") /\ UNCHANGED st
       ELSE /\ st' = [st EXCEPT ![t] = m_st]
            /\ Goto(t, IF m_st = "done" THEN "idle" ELSE "insert")
            /\ UNCHANGED m_st
    /\ UNCHANGED <<stp, after, sem, fnVars>>

\* The node points at what was the head, and is the head if it still is; until
\* then nobody else can see it.
Insert(t) ==
    /\ pc[t] = "insert"
    /\ next' = [next EXCEPT ![t] = st[t]]
    /\ IF m_st = st[t]
       THEN m_st' = t /\ Goto(t, "wait") /\ UNCHANGED st
       ELSE /\ st' = [st EXCEPT ![t] = m_st]
            /\ Goto(t, IF m_st = "done" THEN "idle" ELSE "insert")
            /\ UNCHANGED m_st
    /\ UNCHANGED <<stp, after, sem, fnVars>>

\* sem.wait() returns, and the node is gone.
Wait(t) ==
    /\ pc[t] = "wait" /\ sem[t] > 0
    /\ sem' = [sem EXCEPT ![t] = @ - 1]
    /\ Goto(t, "idle")
    /\ UNCHANGED <<m_st, st, stp, after, next, fnVars>>

ListStep(t) ==
    \/ ListRead(t) \/ ListClaimWon(t) \/ ListClaimLost(t) \/ ListRunFn(t) \/ ListPublish(t)
    \/ ReadNext(t) \/ Release(t) \/ Insert(t) \/ Wait(t)

ListNext == \E t \in Threads : ListCall(t) \/ ListStep(t)

ListSpec == ListInit /\ [][ListNext]_listVars

\* Every thread inside run() is scheduled, and fn returns.
ListFairSpec == ListSpec /\ \A t \in Threads : WF_listVars(ListStep(t))

-----------------------------------------------------------------------------
\* A node is on the list from the exchange that puts it there until its thread
\* is released.
Listed(t) == pc[t] = "wait" /\ sem[t] = 0

Waking(t) == pc[t] \in {"next", "release"}

\* The thread that wakes the others never touches a node that is gone: it looks
\* at one whose thread still sleeps, at either of its two accesses to it.
NodesAlive == \A t \in Threads : Waking(t) => stp[t] \in Threads /\ Listed(stp[t])

\* No sleeper is lost and none is on the list twice: each is what exactly one
\* of these points at: the word, another sleeper's node, or the thread that
\* wakes them.
OnListOnce ==
    \A t \in Threads : Listed(t) =>
        /\ \/ m_st = t
           \/ \E u \in Threads : Listed(u) /\ next[u] = t
           \/ \E u \in Threads : Waking(u) /\ stp[u] = t
        /\ \A u, v \in Threads : Listed(u) /\ Listed(v) /\ next[u] = t /\ next[v] = t => u = v
        /\ \A u \in Threads : m_st = t \/ (Waking(u) /\ stp[u] = t) =>
               ~\E v \in Threads : Listed(v) /\ next[v] = t

\* The code keeps the promise of Once: fn is called once, and no call returns
\* before it returned.
listPhase == CASE called = 0 -> "new"
             [] called = 1 /\ ran = 0 -> "running"
             [] called = 1 /\ ran = 1 -> "done"
             [] OTHER -> "twice"

ListPromise == INSTANCE Once WITH
    phase <- listPhase,
    callers <- {t \in Threads : pc[t] # "idle"}

ListKeepsPromise == ListPromise!Spec

\* Every call of run() returns.
ListCallReturns == \A t \in Threads : pc[t] # "idle" ~> pc[t] = "idle"
=============================================================================

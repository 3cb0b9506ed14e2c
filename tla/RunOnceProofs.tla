---------------------------- MODULE RunOnceProofs ----------------------------
(***************************************************************************)
(* Proofs about runonce::run(), in its two builds, for any set of threads: *)
(* RunOnceFutex on hardware whose compare-exchange fails only when it must *)
(* and whose relaxed accesses synchronise (x86), and RunOnceList.  Both    *)
(* keep the promise of Once.                                               *)
(***************************************************************************)
EXTENDS RunOnceFutex, RunOnceList, TLAPS

-----------------------------------------------------------------------------
(* The futex build.                                                        *)

StrongBuild == LLSC = FALSE /\ WeakOrder = FALSE

\* What the word says of the function and of the threads.
WordInv ==
    /\ futex = "uninit" <=> runners = {}
    /\ runners = {} => sees = {}
    /\ futex = "done" => sees # {}
    /\ \A t \in Threads :
          /\ pc[t] \in {"fn", "publish"} =>
                t \in runners /\ futex \in {"busy", "busy_waiters"}
          /\ pc[t] = "fn" => sees = {}
          /\ pc[t] \in {"publish", "wake"} => t \in sees
          /\ pc[t] = "mark" => futex # "uninit"
          /\ pc[t] \in {"sleep", "asleep", "recheck"} =>
                futex \in {"busy_waiters", "done"}

\* The inductive invariant.
IInv == TypeOK /\ RunsOnce /\ WordInv /\ ReturnSeesInit /\ SleeperMarked

\* It holds before anybody calls run().
LEMMA InitInv == Init => IInv
BY DEF Init, IInv, TypeOK, Words, Places, RunsOnce, WordInv, ReturnSeesInit, SleeperMarked

\* Every access a thread makes in run() preserves it.
LEMMA StepInv == StrongBuild /\ IInv /\ [Next]_vars => IInv'
<1> SUFFICES ASSUME StrongBuild, IInv, [Next]_vars PROVE IInv'
  OBVIOUS
<1> USE DEF IInv, TypeOK, Words, Places, RunsOnce, WordInv, ReturnSeesInit,
            SleeperMarked, Goto, Return, Acquire, StrongBuild
<1>1. ASSUME NEW t \in Threads, Call(t) PROVE IInv'
  BY <1>1 DEF Call
<1>2. ASSUME NEW t \in Threads, Read(t) PROVE IInv'
  BY <1>2 DEF Read
<1>3. ASSUME NEW t \in Threads, ClaimWon(t) PROVE IInv'
  BY <1>3 DEF ClaimWon
<1>4. ASSUME NEW t \in Threads, ClaimLost(t) PROVE IInv'
  BY <1>4 DEF ClaimLost
<1>5. ASSUME NEW t \in Threads, RunFn(t) PROVE IInv'
  BY <1>5 DEF RunFn
<1>6. ASSUME NEW t \in Threads, Publish(t) PROVE IInv'
  BY <1>6 DEF Publish
<1>7. ASSUME NEW t \in Threads, Wake(t) PROVE IInv'
  BY <1>7 DEF Wake
<1>8. ASSUME NEW t \in Threads, Mark(t) PROVE IInv'
  BY <1>8 DEF Mark
<1>9. ASSUME NEW t \in Threads, Sleep(t) PROVE IInv'
  BY <1>9 DEF Sleep
<1>10. ASSUME NEW t \in Threads, Spurious(t) PROVE IInv'
  BY <1>10 DEF Spurious
<1>11. ASSUME NEW t \in Threads, Recheck(t) PROVE IInv'
  BY <1>11 DEF Recheck
<1>12. CASE UNCHANGED vars
  BY <1>12 DEF vars
<1> QED BY <1>1, <1>2, <1>3, <1>4, <1>5, <1>6, <1>7, <1>8, <1>9, <1>10, <1>11, <1>12
        DEF Next, Step

\* The conjuncts of the invariant hold in every reachable state.
LEMMA InvHolds == StrongBuild => (Spec => []IInv)
<1> SUFFICES ASSUME StrongBuild PROVE Spec => []IInv
  OBVIOUS
<1>1. IInv /\ [Next]_vars => IInv'
  BY StepInv
<1> QED BY <1>1, InitInv, PTL DEF Spec

\* run() calls its function at most once, whoever calls it.
THEOREM CalledOnce == StrongBuild => (Spec => []RunsOnce)
<1>1. IInv => RunsOnce
  BY DEF IInv
<1> QED BY <1>1, InvHolds, PTL

\* A call that returned sees everything the function did.
THEOREM NoEarlyReturn == StrongBuild => (Spec => []ReturnSeesInit)
<1>1. IInv => ReturnSeesInit
  BY DEF IInv
<1> QED BY <1>1, InvHolds, PTL

\* Whoever sleeps will be woken: the word asks for it, or the thread that
\* replaced the word is about to.
THEOREM NoLostWakeup == StrongBuild => (Spec => []SleeperMarked)
<1>1. IInv => SleeperMarked
  BY DEF IInv
<1> QED BY <1>1, InvHolds, PTL

-----------------------------------------------------------------------------
(* run() implements Once.                                                  *)

\* Initially nobody is inside and the function is new.
LEMMA PromiseInit == Init => Promise!Init
BY DEF Init, Promise!Init, fnPhase

\* Every access is a step of Once or leaves its state alone.
LEMMA PromiseStep ==
    StrongBuild /\ IInv /\ IInv' /\ [Next]_vars
        => [Promise!Next]_(Promise!onceVars)
<1> SUFFICES ASSUME StrongBuild, IInv, IInv', [Next]_vars
             PROVE  Promise!Next \/ UNCHANGED Promise!onceVars
  OBVIOUS
<1> DEFINE callers == {u \in Threads : pc[u] # "idle"}
           Stutter == callers' = callers /\ fnPhase' = fnPhase
<1>0. /\ pc \in [Threads -> Places]
      /\ futex = "uninit" <=> runners = {}
      /\ runners = {} => sees = {}
      /\ futex = "done" => sees # {} /\ runners # {}
      /\ runners' = {} => sees' = {}
      /\ \A t \in Threads :
            /\ pc[t] = "fn" => sees = {} /\ runners # {}
            /\ pc[t] = "publish" => sees # {} /\ runners # {}
            /\ pc[t] = "wake" => sees # {} /\ runners # {}
            /\ pc[t] = "recheck" => futex \in {"busy_waiters", "done"}
  BY DEF IInv, TypeOK, WordInv
<1> USE DEF fnPhase, Goto, Return, Acquire, Places
<1>1. ASSUME NEW t \in Threads, Call(t) PROVE Promise!Call(t)
  <2>1. fnPhase' = fnPhase
    BY <1>1 DEF Call
  <2>2. t \notin callers /\ callers' = callers \cup {t}
    BY <1>0, <1>1 DEF Call
  <2> QED BY <2>1, <2>2 DEF Promise!Call
<1>2. ASSUME NEW t \in Threads, UNCHANGED runners, sees # {}, sees' # {},
             pc[t] # "idle", pc' = [pc EXCEPT ![t] = "idle"]
      PROVE  Promise!Return(t)
  <2>1. fnPhase = "done" /\ fnPhase' = fnPhase
    BY <1>0, <1>2
  <2>2. t \in callers /\ callers' = callers \ {t}
    BY <1>0, <1>2
  <2> QED BY <2>1, <2>2 DEF Promise!Return
<1>3. ASSUME NEW t \in Threads, NEW place \in Places \ {"idle"}, UNCHANGED runners,
             sees' = sees, pc[t] # "idle", pc' = [pc EXCEPT ![t] = place]
      PROVE  Stutter
  BY <1>0, <1>3
<1>4. ASSUME NEW t \in Threads, Read(t) PROVE Promise!Return(t) \/ Stutter
  BY <1>0, <1>2, <1>3, <1>4 DEF Read
<1>5. ASSUME NEW t \in Threads, ClaimWon(t) PROVE Promise!Begin
  <2>1. fnPhase = "new" /\ fnPhase' = "running"
    BY <1>0, <1>5 DEF ClaimWon
  <2>2. callers # {} /\ callers' = callers
    BY <1>0, <1>5 DEF ClaimWon
  <2> QED BY <2>1, <2>2 DEF Promise!Begin
<1>6. ASSUME NEW t \in Threads, ClaimLost(t) PROVE Promise!Return(t) \/ Stutter
  BY <1>0, <1>2, <1>3, <1>6 DEF ClaimLost, StrongBuild
<1>7. ASSUME NEW t \in Threads, RunFn(t) PROVE Promise!End
  <2>1. fnPhase = "running" /\ fnPhase' = "done"
    BY <1>0, <1>7 DEF RunFn
  <2>2. callers' = callers
    BY <1>0, <1>7 DEF RunFn
  <2> QED BY <2>1, <2>2 DEF Promise!End
<1>8. ASSUME NEW t \in Threads, Publish(t) PROVE Promise!Return(t) \/ Stutter
  BY <1>0, <1>2, <1>3, <1>8 DEF Publish
<1>9. ASSUME NEW t \in Threads, Wake(t) PROVE Promise!Return(t)
  <2>1. fnPhase = "done" /\ fnPhase' = fnPhase
    BY <1>0, <1>9 DEF Wake
  <2>2. \A u \in Threads : pc'[u] # "idle" <=> pc[u] # "idle" /\ u # t
    BY <1>0, <1>9 DEF Wake
  <2>3. t \in callers /\ callers' = callers \ {t}
    BY <1>0, <1>9, <2>2 DEF Wake
  <2> QED BY <2>1, <2>3 DEF Promise!Return
<1>10. ASSUME NEW t \in Threads, Mark(t) PROVE Stutter
  BY <1>0, <1>3, <1>10 DEF Mark
<1>11. ASSUME NEW t \in Threads, Sleep(t) PROVE Stutter
  BY <1>0, <1>3, <1>11 DEF Sleep
<1>12. ASSUME NEW t \in Threads, Spurious(t) PROVE Stutter
  BY <1>0, <1>3, <1>12 DEF Spurious
<1>13. ASSUME NEW t \in Threads, Recheck(t) PROVE Promise!Return(t) \/ Stutter
  BY <1>0, <1>2, <1>3, <1>13 DEF Recheck
<1>14. CASE UNCHANGED vars
  BY <1>14 DEF vars, Promise!onceVars
<1>15. Stutter => UNCHANGED Promise!onceVars
  BY DEF Promise!onceVars
<1> QED BY <1>1, <1>4, <1>5, <1>6, <1>7, <1>8, <1>9, <1>10, <1>11, <1>12, <1>13, <1>14, <1>15
        DEF Next, Step, Promise!Next

\* runonce::run() keeps the promise of Once.
THEOREM Implements == StrongBuild => (Spec => KeepsPromise)
<1> SUFFICES ASSUME StrongBuild PROVE Spec => KeepsPromise
  OBVIOUS
<1>1. IInv /\ IInv' /\ [Next]_vars => [Promise!Next]_(Promise!onceVars)
  BY PromiseStep
<1> QED BY <1>1, InvHolds, PromiseInit, PTL DEF Spec, KeepsPromise, Promise!Spec

-----------------------------------------------------------------------------
(* The list of semaphores.                                                 *)

Pointers == ListWords \cup Threads

TypeInv ==
    /\ m_st \in Pointers
    /\ pc \in [Threads -> ListPlaces]
    /\ st \in [Threads -> Pointers]
    /\ stp \in [Threads -> Pointers] /\ after \in [Threads -> Pointers]
    /\ next \in [Threads -> Pointers]
    /\ sem \in [Threads -> Nat]

\* The thread that won the claim, until its call returns.
Active(t) == pc[t] \in {"fn", "publish", "next", "release"}

\* What the word says of the function and of the threads.
ListWordInv ==
    /\ called \in {0, 1} /\ ran \in {0, 1}
    /\ m_st = "uninit" <=> called = 0
    /\ called = 0 => ran = 0
    /\ m_st = "done" => ran = 1
    /\ \A t, u \in Threads : Active(t) /\ Active(u) => t = u
    /\ \A t \in Threads :
          /\ Active(t) => m_st # "uninit"
          /\ pc[t] = "fn" => ran = 0
          /\ pc[t] = "publish" => ran = 1 /\ m_st # "done"
          /\ Waking(t) => m_st = "done"
          /\ pc[t] = "insert" => m_st # "uninit" /\ st[t] \in {"busy"} \cup Threads
          /\ sem[t] # 0 => sem[t] = 1 /\ pc[t] = "wait" /\ ran = 1

\* The list ends, and every pointer on it leads to a sleeper.
ChainInv ==
    /\ m_st \in Threads => Listed(m_st)
    /\ m_st = "uninit" => \A t \in Threads : ~Listed(t)
    /\ \A t \in Threads : Listed(t) =>
          next[t] = "busy" \/ (next[t] \in Threads /\ Listed(next[t]))
    /\ \A t \in Threads : pc[t] = "release" => after[t] = next[stp[t]]

\* No two pointers lead to one sleeper.
SingleInv ==
    /\ \A t, u \in Threads : Listed(t) /\ Listed(u) /\ next[t] = next[u] => t = u
    /\ m_st # "done" => \A t \in Threads : Listed(t) => next[t] # m_st
    /\ \A t \in Threads : Waking(t) =>
          \A u \in Threads : Listed(u) => next[u] # stp[t]

\* Some pointer leads to each.
ReachedInv ==
    \A t \in Threads : Listed(t) =>
        \/ m_st = t
        \/ \E u \in Threads : Listed(u) /\ next[u] = t
        \/ \E u \in Threads : Waking(u) /\ stp[u] = t

\* The inductive invariant.
ListInv == TypeInv /\ ListWordInv /\ ChainInv /\ NodesAlive /\ SingleInv /\ ReachedInv

\* It holds before anybody calls run().
LEMMA ListInitInv == ListInit => ListInv
BY NodesAreNotWords DEF ListInit, ListInv, TypeInv, ListWordInv, ChainInv, NodesAlive, SingleInv, ReachedInv,
                        Pointers, ListWords, ListPlaces, Active, Waking, Listed

\* Every access a thread makes in run() preserves it.
LEMMA ListStepInv == ListInv /\ [ListNext]_listVars => ListInv'
<1> SUFFICES ASSUME ListInv, [ListNext]_listVars PROVE ListInv'
  OBVIOUS
<1> USE NodesAreNotWords DEF ListInv, Pointers, ListWords, ListPlaces, Active, Waking, Listed, Goto
<1>1. ASSUME NEW t \in Threads, ListCall(t) PROVE ListInv'
  <2>1. TypeInv'
    BY <1>1 DEF ListCall, nodeVars, TypeInv
  <2>2. ListWordInv'
    BY <1>1 DEF ListCall, nodeVars, fnVars, ListWordInv
  <2>3. ChainInv'
    BY <1>1 DEF ListCall, nodeVars, ChainInv
  <2>4. NodesAlive'
    BY <1>1 DEF ListCall, nodeVars, NodesAlive
  <2>5. SingleInv'
    BY <1>1 DEF ListCall, nodeVars, SingleInv
  <2>6. ReachedInv'
    BY <1>1 DEF ListCall, nodeVars, ReachedInv
  <2> QED BY <2>1, <2>2, <2>3, <2>4, <2>5, <2>6
<1>2. ASSUME NEW t \in Threads, ListRead(t) PROVE ListInv'
  <2>1. TypeInv'
    BY <1>2 DEF ListRead, nodeVars, TypeInv
  <2>2. ListWordInv'
    BY <1>2 DEF ListRead, nodeVars, fnVars, TypeInv, ListWordInv
  <2>3. ChainInv'
    BY <1>2 DEF ListRead, nodeVars, ChainInv
  <2>4. NodesAlive'
    BY <1>2 DEF ListRead, nodeVars, NodesAlive
  <2>5. SingleInv'
    BY <1>2 DEF ListRead, nodeVars, SingleInv
  <2>6. ReachedInv'
    BY <1>2 DEF ListRead, nodeVars, ReachedInv
  <2> QED BY <2>1, <2>2, <2>3, <2>4, <2>5, <2>6
<1>3. ASSUME NEW t \in Threads, ListClaimWon(t) PROVE ListInv'
  <2>1. TypeInv'
    BY <1>3 DEF ListClaimWon, nodeVars, TypeInv
  <2>2. ListWordInv'
    BY <1>3 DEF ListClaimWon, nodeVars, ListWordInv
  <2>3. ChainInv'
    BY <1>3 DEF ListClaimWon, ListWordInv, ChainInv
  <2>4. NodesAlive'
    BY <1>3 DEF ListClaimWon, ChainInv, NodesAlive
  <2>5. SingleInv'
    BY <1>3 DEF ListClaimWon, ListWordInv, ChainInv, SingleInv
  <2>6. ReachedInv'
    BY <1>3 DEF ListClaimWon, ListWordInv, ChainInv, ReachedInv
  <2> QED BY <2>1, <2>2, <2>3, <2>4, <2>5, <2>6
<1>4. ASSUME NEW t \in Threads, ListClaimLost(t) PROVE ListInv'
  <2>1. TypeInv'
    BY <1>4 DEF ListClaimLost, nodeVars, TypeInv
  <2>2. ListWordInv'
    BY <1>4 DEF ListClaimLost, nodeVars, fnVars, TypeInv, ListWordInv
  <2>3. ChainInv'
    BY <1>4 DEF ListClaimLost, nodeVars, ChainInv
  <2>4. NodesAlive'
    BY <1>4 DEF ListClaimLost, nodeVars, NodesAlive
  <2>5. SingleInv'
    BY <1>4 DEF ListClaimLost, nodeVars, SingleInv
  <2>6. ReachedInv'
    BY <1>4 DEF ListClaimLost, nodeVars, ReachedInv
  <2> QED BY <2>1, <2>2, <2>3, <2>4, <2>5, <2>6
<1>5. ASSUME NEW t \in Threads, ListRunFn(t) PROVE ListInv'
  <2>1. TypeInv'
    BY <1>5 DEF ListRunFn, nodeVars, TypeInv
  <2>2. ListWordInv'
    BY <1>5 DEF ListRunFn, nodeVars, TypeInv, ListWordInv
  <2>3. ChainInv'
    BY <1>5 DEF ListRunFn, nodeVars, ChainInv
  <2>4. NodesAlive'
    BY <1>5 DEF ListRunFn, ListWordInv, NodesAlive
  <2>5. SingleInv'
    BY <1>5 DEF ListRunFn, nodeVars, SingleInv
  <2>6. ReachedInv'
    BY <1>5 DEF ListRunFn, nodeVars, ReachedInv
  <2> QED BY <2>1, <2>2, <2>3, <2>4, <2>5, <2>6
<1>6. ASSUME NEW t \in Threads, ListPublish(t) PROVE ListInv'
  <2>1. TypeInv'
    BY <1>6 DEF ListPublish, TypeInv
  <2>2. ListWordInv'
    BY <1>6 DEF ListPublish, fnVars, TypeInv, ListWordInv
  <2>3. ChainInv'
    BY <1>6 DEF ListPublish, ChainInv
  <2>4. NodesAlive'
    BY <1>6 DEF ListPublish, TypeInv, ListWordInv, ChainInv, NodesAlive
  <2>5. SingleInv'
    BY <1>6 DEF ListPublish, TypeInv, ChainInv, SingleInv
  <2>6. ReachedInv'
    BY <1>6 DEF ListPublish, TypeInv, ReachedInv
  <2> QED BY <2>1, <2>2, <2>3, <2>4, <2>5, <2>6
<1>7. ASSUME NEW t \in Threads, ReadNext(t) PROVE ListInv'
  <2>1. TypeInv'
    BY <1>7 DEF ReadNext, TypeInv, NodesAlive
  <2>2. ListWordInv'
    BY <1>7 DEF ReadNext, fnVars, ListWordInv
  <2>3. ChainInv'
    BY <1>7 DEF ReadNext, TypeInv, ChainInv
  <2>4. NodesAlive'
    BY <1>7 DEF ReadNext, NodesAlive
  <2>5. SingleInv'
    BY <1>7 DEF ReadNext, SingleInv
  <2>6. ReachedInv'
    BY <1>7 DEF ReadNext, ReachedInv
  <2> QED BY <2>1, <2>2, <2>3, <2>4, <2>5, <2>6
<1>8. ASSUME NEW t \in Threads, Release(t) PROVE ListInv'
  <2>1. TypeInv'
    BY <1>8 DEF Release, TypeInv, NodesAlive
  <2>2. ListWordInv'
    BY <1>8 DEF Release, fnVars, ListWordInv, NodesAlive
  <2>3. ChainInv'
    BY <1>8 DEF Release, TypeInv, ListWordInv, ChainInv, SingleInv
  <2>4. NodesAlive'
    BY <1>8 DEF Release, TypeInv, ListWordInv, ChainInv, NodesAlive, SingleInv
  <2>5. SingleInv'
    BY <1>8 DEF Release, TypeInv, ChainInv, NodesAlive, SingleInv
  <2>6. ReachedInv'
    BY <1>8 DEF Release, TypeInv, ChainInv, ReachedInv
  <2> QED BY <2>1, <2>2, <2>3, <2>4, <2>5, <2>6
<1>9. ASSUME NEW t \in Threads, Insert(t) PROVE ListInv'
  <2>1. TypeInv'
    BY <1>9 DEF Insert, TypeInv
  <2>2. ListWordInv'
    <3>1. t # "uninit" /\ t # "done"
      OBVIOUS
    <3>2. CASE m_st = st[t]
      <4>1. m_st' = t /\ pc' = [pc EXCEPT ![t] = "wait"]
        BY <1>9, <3>2 DEF Insert
      <4>2. m_st # "uninit" /\ m_st # "done"
        BY <1>9, <3>2 DEF Insert, TypeInv, ListWordInv
      <4> QED BY <1>9, <3>1, <3>2, <4>1, <4>2 DEF Insert, fnVars, TypeInv, ListWordInv
    <3>3. CASE m_st # st[t]
      <4>1. m_st' = m_st /\ st' = [st EXCEPT ![t] = m_st]
            /\ pc' = [pc EXCEPT ![t] = IF m_st = "done" THEN "idle" ELSE "insert"]
        BY <1>9, <3>3 DEF Insert
      <4>2. m_st # "uninit"
        BY <1>9 DEF Insert, TypeInv, ListWordInv
      <4> QED BY <1>9, <4>1, <4>2 DEF Insert, fnVars, TypeInv, ListWordInv
    <3> QED BY <3>2, <3>3
  <2>3. ChainInv'
    BY <1>9 DEF Insert, TypeInv, ListWordInv, ChainInv, NodesAlive
  <2>4. NodesAlive'
    BY <1>9 DEF Insert, TypeInv, NodesAlive
  <2>5. SingleInv'
    BY <1>9 DEF Insert, TypeInv, ListWordInv, ChainInv, SingleInv
  <2>6. ReachedInv'
    BY <1>9 DEF Insert, TypeInv, ListWordInv, ReachedInv
  <2> QED BY <2>1, <2>2, <2>3, <2>4, <2>5, <2>6
<1>10. ASSUME NEW t \in Threads, Wait(t) PROVE ListInv'
  <2>1. TypeInv'
    BY <1>10 DEF Wait, TypeInv
  <2>2. ListWordInv'
    BY <1>10 DEF Wait, fnVars, TypeInv, ListWordInv
  <2>3. ChainInv'
    BY <1>10 DEF Wait, TypeInv, ChainInv
  <2>4. NodesAlive'
    BY <1>10 DEF Wait, NodesAlive
  <2>5. SingleInv'
    BY <1>10 DEF Wait, TypeInv, SingleInv
  <2>6. ReachedInv'
    BY <1>10 DEF Wait, TypeInv, ReachedInv
  <2> QED BY <2>1, <2>2, <2>3, <2>4, <2>5, <2>6
<1>11. CASE UNCHANGED listVars
  BY <1>11 DEF listVars, nodeVars, fnVars, TypeInv, ListWordInv, ChainInv, NodesAlive, SingleInv, ReachedInv
<1> QED BY <1>1, <1>2, <1>3, <1>4, <1>5, <1>6, <1>7, <1>8, <1>9, <1>10, <1>11 DEF ListNext, ListStep

\* It holds in every reachable state.
LEMMA ListInvHolds == ListSpec => []ListInv
BY ListInitInv, ListStepInv, PTL DEF ListSpec

\* The thread that wakes the sleepers never follows a pointer into the stack of
\* one that is gone.
THEOREM NodesLive == ListSpec => []NodesAlive
<1>1. ListInv => NodesAlive
  BY DEF ListInv
<1> QED BY <1>1, ListInvHolds, PTL

\* No sleeper is lost, and none is released twice.
THEOREM ListWhole == ListSpec => []OnListOnce
<1>1. ListInv => OnListOnce
  <2> SUFFICES ASSUME ListInv, NEW t \in Threads, Listed(t)
               PROVE  /\ \/ m_st = t
                         \/ \E u \in Threads : Listed(u) /\ next[u] = t
                         \/ \E u \in Threads : Waking(u) /\ stp[u] = t
                      /\ \A u, v \in Threads :
                            Listed(u) /\ Listed(v) /\ next[u] = t /\ next[v] = t => u = v
                      /\ \A u \in Threads : m_st = t \/ (Waking(u) /\ stp[u] = t) =>
                            ~\E v \in Threads : Listed(v) /\ next[v] = t
    BY DEF OnListOnce
  <2>1. t # "done"
    BY NodesAreNotWords
  <2> QED BY <2>1 DEF ListInv, SingleInv, ReachedInv
<1> QED BY <1>1, ListInvHolds, PTL

-----------------------------------------------------------------------------
(* run() implements Once.                                                  *)

\* Initially nobody is inside and the function is new.
LEMMA ListPromiseInit == ListInit => ListPromise!Init
BY DEF ListInit, ListPromise!Init, listPhase

\* What the invariant says of the function.
LEMMA PhaseKnown ==
    ListInv => /\ listPhase = IF called = 0 THEN "new" ELSE IF ran = 0 THEN "running" ELSE "done"
               /\ m_st = "done" => listPhase = "done"
               /\ \A t \in Threads :
                     /\ pc[t] = "fn" => listPhase = "running"
                     /\ pc[t] = "publish" \/ Waking(t) \/ sem[t] > 0 => listPhase = "done"
BY DEF ListInv, TypeInv, ListWordInv, listPhase, Active, Waking

\* Every access is a step of Once or leaves its state alone.
LEMMA ListPromiseStep ==
    ListInv /\ ListInv' /\ [ListNext]_listVars => [ListPromise!Next]_(ListPromise!onceVars)
<1> SUFFICES ASSUME ListInv, ListInv', [ListNext]_listVars
             PROVE  ListPromise!Next \/ UNCHANGED ListPromise!onceVars
  OBVIOUS
<1> DEFINE callers == {u \in Threads : pc[u] # "idle"}
           Stutter == callers' = callers /\ listPhase' = listPhase
<1>0. pc \in [Threads -> ListPlaces]
  BY DEF ListInv, TypeInv
<1>1. ASSUME NEW t \in Threads, UNCHANGED fnVars, listPhase = "done",
             pc[t] # "idle", pc' = [pc EXCEPT ![t] = "idle"]
      PROVE  ListPromise!Return(t)
  <2>1. listPhase' = listPhase
    BY <1>1 DEF listPhase, fnVars
  <2>2. t \in callers /\ callers' = callers \ {t}
    BY <1>0, <1>1
  <2> QED BY <1>1, <2>1, <2>2 DEF ListPromise!Return
<1>2. ASSUME NEW t \in Threads, NEW place, place # "idle", UNCHANGED fnVars,
             pc[t] # "idle", pc' = [pc EXCEPT ![t] = place]
      PROVE  Stutter
  <2>1. listPhase' = listPhase
    BY <1>2 DEF listPhase, fnVars
  <2>2. callers' = callers
    BY <1>0, <1>2
  <2> QED BY <2>1, <2>2
<1> USE DEF Goto
<1>3. ASSUME NEW t \in Threads, ListCall(t) PROVE ListPromise!Call(t)
  <2>1. listPhase' = listPhase
    BY <1>3 DEF ListCall, listPhase, fnVars
  <2>2. t \notin callers /\ callers' = callers \cup {t}
    BY <1>0, <1>3 DEF ListCall
  <2> QED BY <2>1, <2>2 DEF ListPromise!Call
<1>4. ASSUME NEW t \in Threads, ListRead(t) PROVE ListPromise!Return(t) \/ Stutter
  <2>1. CASE m_st = "done"
    BY <1>1, <1>4, <2>1, PhaseKnown DEF ListRead
  <2>2. CASE m_st # "done"
    BY <1>2, <1>4, <2>2 DEF ListRead
  <2> QED BY <2>1, <2>2
<1>5. ASSUME NEW t \in Threads, ListClaimWon(t) PROVE ListPromise!Begin
  <2>1. called = 0 /\ listPhase = "new"
    BY <1>5, PhaseKnown DEF ListClaimWon, ListInv, ListWordInv
  <2>2. listPhase' = "running"
    BY <1>5, <2>1 DEF ListClaimWon, listPhase, ListInv, ListWordInv
  <2>3. callers # {} /\ callers' = callers
    BY <1>0, <1>5 DEF ListClaimWon
  <2> QED BY <2>1, <2>2, <2>3 DEF ListPromise!Begin
<1>6. ASSUME NEW t \in Threads, ListClaimLost(t) PROVE ListPromise!Return(t) \/ Stutter
  <2>1. CASE m_st = "done"
    BY <1>1, <1>6, <2>1, PhaseKnown DEF ListClaimLost
  <2>2. CASE m_st # "done"
    BY <1>2, <1>6, <2>2 DEF ListClaimLost
  <2> QED BY <2>1, <2>2
<1>7. ASSUME NEW t \in Threads, ListRunFn(t) PROVE ListPromise!End
  <2>1. called = 1 /\ ran = 0 /\ listPhase = "running"
    BY <1>7, PhaseKnown DEF ListRunFn, ListInv, ListWordInv, Active
  <2>2. listPhase' = "done"
    BY <1>7, <2>1 DEF ListRunFn, listPhase
  <2>3. callers' = callers
    BY <1>0, <1>7 DEF ListRunFn
  <2> QED BY <2>1, <2>2, <2>3 DEF ListPromise!End
<1>8. ASSUME NEW t \in Threads, ListPublish(t) PROVE ListPromise!Return(t) \/ Stutter
  <2>1. CASE m_st = "busy"
    BY <1>1, <1>8, <2>1, PhaseKnown DEF ListPublish
  <2>2. CASE m_st # "busy"
    BY <1>2, <1>8, <2>2 DEF ListPublish
  <2> QED BY <2>1, <2>2
<1>9. ASSUME NEW t \in Threads, ReadNext(t) PROVE Stutter
  BY <1>2, <1>9 DEF ReadNext
<1>10. ASSUME NEW t \in Threads, Release(t) PROVE ListPromise!Return(t) \/ Stutter
  <2>1. CASE after[t] = "busy"
    BY <1>1, <1>10, <2>1, PhaseKnown DEF Release, Waking
  <2>2. CASE after[t] # "busy"
    BY <1>2, <1>10, <2>2 DEF Release
  <2> QED BY <2>1, <2>2
<1>11. ASSUME NEW t \in Threads, Insert(t) PROVE ListPromise!Return(t) \/ Stutter
  <2>1. CASE m_st # st[t] /\ m_st = "done"
    BY <1>1, <1>11, <2>1, PhaseKnown DEF Insert
  <2>2. CASE m_st = st[t]
    BY <1>2, <1>11, <2>2 DEF Insert
  <2>3. CASE m_st # st[t] /\ m_st # "done"
    BY <1>2, <1>11, <2>3 DEF Insert
  <2> QED BY <2>1, <2>2, <2>3
<1>12. ASSUME NEW t \in Threads, Wait(t) PROVE ListPromise!Return(t)
  BY <1>1, <1>12, PhaseKnown DEF Wait
<1>13. CASE UNCHANGED listVars
  BY <1>13 DEF listVars, fnVars, listPhase, ListPromise!onceVars
<1>14. Stutter => UNCHANGED ListPromise!onceVars
  BY DEF ListPromise!onceVars
<1> QED BY <1>3, <1>4, <1>5, <1>6, <1>7, <1>8, <1>9, <1>10, <1>11, <1>12, <1>13, <1>14
        DEF ListNext, ListStep, ListPromise!Next

\* fn is called once, and no call of run() returns before it has returned.
THEOREM ListImplements == ListSpec => ListKeepsPromise
<1>1. ListInv /\ ListInv' /\ [ListNext]_listVars => [ListPromise!Next]_(ListPromise!onceVars)
  BY ListPromiseStep
<1> QED BY <1>1, ListInvHolds, ListPromiseInit, PTL DEF ListSpec, ListKeepsPromise, ListPromise!Spec
=============================================================================

--------------------------- MODULE CoMutexProofs ---------------------------
(***************************************************************************)
(* Proofs about CoMutex for any set of coroutines: first what holds        *)
(* whatever the clients do, then what holds when no co_await begins while  *)
(* a hand-off is pending.                                                  *)
(***************************************************************************)
EXTENDS CoMutex, SequenceTheorems, TLAPS

-----------------------------------------------------------------------------
(* Removing one element of a sequence.                                     *)

\* RemoveAt drops one element and keeps the others in their order.
LEMMA RemoveAtFacts ==
    ASSUME NEW S, NEW s \in Seq(S), NEW i \in 1..Len(s)
    PROVE  /\ RemoveAt(s, i) \in Seq(S)
           /\ Len(RemoveAt(s, i)) = Len(s) - 1
           /\ \A j \in 1..(Len(s) - 1) :
                 RemoveAt(s, i)[j] = IF j < i THEN s[j] ELSE s[j + 1]
<1> DEFINE l == SubSeq(s, 1, i - 1)
           r == SubSeq(s, i + 1, Len(s))
<1>1. /\ l \in Seq(S)
      /\ Len(l) = i - 1
      /\ \A j \in 1..(i - 1) : l[j] = s[j]
  OBVIOUS
<1>2. /\ r \in Seq(S)
      /\ Len(r) = Len(s) - i
      /\ \A j \in 1..(Len(s) - i) : r[j] = s[j + i]
  OBVIOUS
<1>3. RemoveAt(s, i) = l \o r
  BY DEF RemoveAt
<1> HIDE DEF l, r
<1>4. /\ l \o r \in Seq(S)
      /\ Len(l \o r) = Len(l) + Len(r)
  BY <1>1, <1>2, ConcatProperties
<1>5. Len(l \o r) = Len(s) - 1
  <2>1. Len(s) \in Nat /\ i \in Int
    OBVIOUS
  <2> QED BY <2>1, <1>1, <1>2, <1>4
<1>6. \A j \in 1..(Len(s) - 1) : (l \o r)[j] = IF j < i THEN s[j] ELSE s[j + 1]
  BY <1>1, <1>2, ConcatProperties
<1> QED BY <1>3, <1>4, <1>5, <1>6, Zenon

\* Dropping the first element and putting it back in front changes nothing.
LEMMA RemoveFirst1 ==
    ASSUME NEW S, NEW s \in Seq(S), s # <<>>
    PROVE  /\ RemoveAt(s, 1) \in Seq(S)
           /\ <<s[1]>> \o RemoveAt(s, 1) = s
<1>1. Len(s) \in Nat /\ 1 \in 1..Len(s) /\ s[1] \in S
  OBVIOUS
<1> DEFINE r == RemoveAt(s, 1)
           one == <<s[1]>>
<1>2. /\ r \in Seq(S)
      /\ Len(r) = Len(s) - 1
      /\ \A j \in 1..(Len(s) - 1) : r[j] = s[j + 1]
  BY <1>1, RemoveAtFacts
<1>3. one \in Seq(S) /\ Len(one) = 1 /\ one[1] = s[1]
  BY <1>1
<1> HIDE DEF r, one
<1>4. /\ one \o r \in Seq(S)
      /\ Len(one \o r) = Len(one) + Len(r)
      /\ \A j \in 1..(Len(one) + Len(r)) :
            (one \o r)[j] = IF j <= Len(one) THEN one[j] ELSE r[j - Len(one)]
  <2>1. one \in Seq(S) /\ r \in Seq(S)
    BY <1>2, <1>3
  <2> QED BY <2>1, ConcatProperties, Zenon
<1>5. Len(one \o r) = Len(s)
  BY <1>1, <1>2, <1>3, <1>4
<1>6. \A j \in 1..Len(s) : (one \o r)[j] = s[j]
  BY <1>1, <1>2, <1>3, <1>4
<1>7. one \o r = s
  BY <1>4, <1>5, <1>6, SeqEqual
<1> QED BY <1>2, <1>7 DEF r, one

-----------------------------------------------------------------------------
(* Whatever the clients do.                                                *)

\* The inductive invariant that holds with or without barging.
HandoffInv ==
    /\ TypeOK
    /\ NoLostHandoff
    /\ theLock # NoLock => theLock \in holders

\* A fresh mutex satisfies it.
LEMMA HandoffInit == Init => HandoffInv
<1> SUFFICES ASSUME Init PROVE HandoffInv
  OBVIOUS
<1>1. exists \in BOOLEAN /\ timer \in BOOLEAN
  BY DEF Init
<1>2. queue \in Seq(Coros) /\ theLock \in Coros \cup {NoLock} /\ holders \subseteq Coros
  BY DEF Init
<1>3. NoLostHandoff
  BY DEF Init, NoLostHandoff
<1> QED BY <1>1, <1>2, <1>3 DEF HandoffInv, TypeOK, Init

\* Every operation of co_mutex preserves it.
LEMMA HandoffStep == HandoffInv /\ [Next]_vars => HandoffInv'
<1> SUFFICES ASSUME HandoffInv, [Next]_vars PROVE HandoffInv'
  OBVIOUS
<1> USE DEF HandoffInv, TypeOK, NoLostHandoff
<1>1. ASSUME NEW c \in Coros, AcquireFree(c) PROVE HandoffInv'
  BY <1>1 DEF AcquireFree
<1>2. ASSUME NEW c \in Coros, AcquireWait(c) PROVE HandoffInv'
  <2>1. queue' \in Seq(Coros) /\ queue' # <<>>
    BY <1>2 DEF AcquireWait
  <2> QED BY <1>2, <2>1 DEF AcquireWait
<1>3. ASSUME NEW c \in Coros, Release(c) PROVE HandoffInv'
  BY <1>3 DEF Release
<1>4. CASE UnlockerRun
  <2>1. queue # <<>> /\ queue[1] \in Coros
    BY <1>4 DEF UnlockerRun
  <2>2. RemoveAt(queue, 1) \in Seq(Coros)
    BY <2>1, RemoveFirst1
  <2> QED BY <1>4, <2>1, <2>2 DEF UnlockerRun
<1>5. ASSUME NEW i \in 1..Len(queue), CancelWait(i) PROVE HandoffInv'
  <2>1. RemoveAt(queue, i) \in Seq(Coros)
    BY RemoveAtFacts
  <2>2. queue # <<>>
    OBVIOUS
  <2> QED BY <1>5, <2>1, <2>2 DEF CancelWait, Unlink
<1>6. CASE Destroy
  BY <1>6 DEF Destroy
<1>7. CASE Construct
  BY <1>7 DEF Construct
<1>8. CASE UNCHANGED vars
  BY <1>8 DEF vars
<1> QED BY <1>1, <1>2, <1>3, <1>4, <1>5, <1>6, <1>7, <1>8 DEF Next

\* In every reachable state the variables of co_mutex have their types, with
\* or without barging.
THEOREM TypeCorrect == Spec => []TypeOK
<1>1. HandoffInv => TypeOK
  BY DEF HandoffInv
<1> QED BY <1>1, HandoffInit, HandoffStep, PTL DEF Spec

\* With or without barging, whoever waits while nobody is inside has a timeout
\* on its way, and that timeout always finds somebody to resume.
THEOREM HandoffNeverLost == Spec => []NoLostHandoff
<1>1. HandoffInv => NoLostHandoff
  BY DEF HandoffInv
<1> QED BY <1>1, HandoffInit, HandoffStep, PTL DEF Spec

-----------------------------------------------------------------------------
(* When no co_await begins while a hand-off is pending.                    *)

\* The invariant strengthened for clients that do not barge: a timeout is
\* pending only while the region is empty, so that the coroutine it resumes
\* finds the lock free.
PoliteInv ==
    /\ HandoffInv
    /\ LockKnown
    /\ theLock # NoLock => ~timer

\* A fresh mutex satisfies it.
LEMMA PoliteInit == Init => PoliteInv
BY HandoffInit DEF PoliteInv, Init, LockKnown

\* Without barging every operation of co_mutex preserves it.
LEMMA PoliteStep ==
    Barging = FALSE /\ PoliteInv /\ [Next]_vars => PoliteInv'
<1> SUFFICES ASSUME Barging = FALSE, PoliteInv, [Next]_vars PROVE PoliteInv'
  OBVIOUS
<1> DEFINE Locked == LockKnown /\ (theLock # NoLock => ~timer)
<1> SUFFICES Locked'
  BY HandoffStep DEF PoliteInv
<1>0. NoLock \notin Coros /\ Locked /\ HandoffInv
  BY ConstantsOK DEF PoliteInv
<1> USE <1>0 DEF LockKnown, HandoffInv, TypeOK, NoLostHandoff
<1>1. ASSUME NEW c \in Coros, AcquireFree(c) PROVE Locked'
  BY <1>1 DEF AcquireFree, HandoffPending
<1>2. ASSUME NEW c \in Coros, AcquireWait(c) PROVE Locked'
  BY <1>2 DEF AcquireWait
<1>3. ASSUME NEW c \in Coros, Release(c) PROVE Locked'
  BY <1>3 DEF Release
<1>4. CASE UnlockerRun
  <2>1. queue # <<>> /\ queue[1] \in Coros
    BY <1>4 DEF UnlockerRun
  <2> QED BY <1>4, <2>1 DEF UnlockerRun
<1>5. ASSUME NEW i \in 1..Len(queue), CancelWait(i) PROVE Locked'
  <2>1. queue # <<>>
    OBVIOUS
  <2> QED BY <1>5, <2>1 DEF CancelWait, Unlink
<1>6. CASE Destroy
  BY <1>6 DEF Destroy
<1>7. CASE Construct
  BY <1>7 DEF Construct
<1>8. CASE UNCHANGED vars
  BY <1>8 DEF vars
<1> QED BY <1>1, <1>2, <1>3, <1>4, <1>5, <1>6, <1>7, <1>8 DEF Next

\* Without barging, at most one coroutine is inside the region, however many
\* wait, are cancelled or outlive the mutex.
THEOREM OneInside == Barging = FALSE => (Spec => []MutualExclusion)
<1> SUFFICES ASSUME Barging = FALSE PROVE Spec => []MutualExclusion
  OBVIOUS
<1>1. PoliteInv => MutualExclusion
  BY DEF PoliteInv, LockKnown, MutualExclusion
<1>2. PoliteInv /\ [Next]_vars => PoliteInv'
  BY PoliteStep
<1> QED BY <1>1, <1>2, PoliteInit, PTL DEF Spec

\* Without barging, every lock object that will call unlock() is the one
\* the_lock names, and none is left when the mutex is destroyed.
THEOREM NoStaleLock == Barging = FALSE => (Spec => []LockKnown)
<1> SUFFICES ASSUME Barging = FALSE PROVE Spec => []LockKnown
  OBVIOUS
<1>1. PoliteInv => LockKnown
  BY DEF PoliteInv
<1>2. PoliteInv /\ [Next]_vars => PoliteInv'
  BY PoliteStep
<1> QED BY <1>1, <1>2, PoliteInit, PTL DEF Spec

-----------------------------------------------------------------------------
(* co_mutex implements FifoMutex.                                          *)

\* An element put in front of a sequence.
LEMMA ConsFacts ==
    ASSUME NEW S, NEW l \in S, NEW q \in Seq(S)
    PROVE  /\ <<l>> \o q \in Seq(S)
           /\ Len(<<l>> \o q) = Len(q) + 1
           /\ (<<l>> \o q)[1] = l
           /\ \A j \in 1..Len(q) : (<<l>> \o q)[j + 1] = q[j]
<1> DEFINE one == <<l>>
<1>1. one \in Seq(S) /\ Len(one) = 1 /\ one[1] = l /\ Len(q) \in Nat
  OBVIOUS
<1> HIDE DEF one
<1>2. /\ one \o q \in Seq(S)
      /\ Len(one \o q) = Len(one) + Len(q)
      /\ \A j \in 1..(Len(one) + Len(q)) :
            (one \o q)[j] = IF j <= Len(one) THEN one[j] ELSE q[j - Len(one)]
  BY <1>1, ConcatProperties, Zenon
<1>3. Len(one \o q) = Len(q) + 1 /\ (one \o q)[1] = l
  BY <1>1, <1>2
<1>4. ASSUME NEW j \in 1..Len(q) PROVE (one \o q)[j + 1] = q[j]
  BY <1>1, <1>2
<1> QED BY <1>2, <1>3, <1>4, Zenon DEF one

\* Taking it off again.
LEMMA ConsTail ==
    ASSUME NEW S, NEW l \in S, NEW q \in Seq(S)
    PROVE  <<l>> \o q # <<>> /\ Tail(<<l>> \o q) = q
<1> DEFINE p == <<l>> \o q
<1>1. /\ p \in Seq(S)
      /\ Len(p) = Len(q) + 1
      /\ \A j \in 1..Len(q) : p[j + 1] = q[j]
  BY ConsFacts
<1> HIDE DEF p
<1>2. p # <<>>
  BY <1>1
<1>3. /\ Tail(p) \in Seq(S)
      /\ Len(Tail(p)) = Len(p) - 1
      /\ \A j \in 1..Len(Tail(p)) : Tail(p)[j] = p[j + 1]
  BY <1>1, <1>2, HeadTailProperties, Zenon
<1>4. Len(Tail(p)) = Len(q) /\ \A j \in 1..Len(q) : Tail(p)[j] = q[j]
  BY <1>1, <1>3
<1>5. Tail(p) = q
  BY <1>3, <1>4, SeqEqual
<1> QED BY <1>2, <1>5 DEF p

\* Appending behind it.
LEMMA ConsAppend ==
    ASSUME NEW S, NEW l \in S, NEW q \in Seq(S), NEW c \in S
    PROVE  <<l>> \o Append(q, c) = Append(<<l>> \o q, c)
<1>1. <<l>> \in Seq(S) /\ <<c>> \in Seq(S) /\ <<l>> \o q \in Seq(S)
  BY ConsFacts
<1>2. Append(q, c) = q \o <<c>>
  BY AppendIsConcat
<1>3. Append(<<l>> \o q, c) = (<<l>> \o q) \o <<c>>
  BY <1>1, AppendIsConcat, Zenon
<1>4. (<<l>> \o q) \o <<c>> = <<l>> \o (q \o <<c>>)
  BY <1>1, ConcatAssociative
<1> QED BY <1>2, <1>3, <1>4, Zenon

\* Removing an element behind it.
LEMMA ConsRemoveAt ==
    ASSUME NEW S, NEW l \in S, NEW q \in Seq(S), NEW i \in 1..Len(q)
    PROVE  <<l>> \o RemoveAt(q, i) = RemoveAt(<<l>> \o q, i + 1)
<1> DEFINE p == <<l>> \o q
           r == RemoveAt(q, i)
           a == <<l>> \o r
           b == RemoveAt(p, i + 1)
<1>1. Len(q) \in Nat /\ i \in Nat
  OBVIOUS
<1>2. /\ r \in Seq(S)
      /\ Len(r) = Len(q) - 1
      /\ \A j \in 1..(Len(q) - 1) : r[j] = IF j < i THEN q[j] ELSE q[j + 1]
  BY RemoveAtFacts, Zenon
<1>3. /\ p \in Seq(S)
      /\ Len(p) = Len(q) + 1
      /\ p[1] = l
      /\ \A j \in 1..Len(q) : p[j + 1] = q[j]
  BY ConsFacts
<1> HIDE DEF p, r
<1>4. /\ a \in Seq(S)
      /\ Len(a) = Len(r) + 1
      /\ a[1] = l
      /\ \A j \in 1..Len(r) : a[j + 1] = r[j]
  BY <1>2, ConsFacts
<1>5. i + 1 \in 1..Len(p)
  BY <1>1, <1>3
<1>6. /\ b \in Seq(S)
      /\ Len(b) = Len(p) - 1
      /\ \A j \in 1..(Len(p) - 1) : b[j] = IF j < i + 1 THEN p[j] ELSE p[j + 1]
  BY <1>3, <1>5, RemoveAtFacts, Zenon
<1> HIDE DEF a, b
<1>7. Len(a) = Len(q) /\ Len(b) = Len(q)
  BY <1>1, <1>2, <1>3, <1>4, <1>6
<1>8. ASSUME NEW j \in 1..Len(q) PROVE a[j] = b[j]
  <2>1. CASE j = 1
    BY <2>1, <1>1, <1>3, <1>4, <1>6
  <2>2. CASE j # 1
    <3>1. j - 1 \in 1..Len(r) /\ j = (j - 1) + 1 /\ j - 1 \in 1..(Len(q) - 1)
      BY <2>2, <1>1, <1>2
    <3>2. a[j] = r[j - 1]
      BY <3>1, <1>4
    <3>3. r[j - 1] = IF j - 1 < i THEN q[j - 1] ELSE q[(j - 1) + 1]
      BY <3>1, <1>2
    <3>4. b[j] = IF j < i + 1 THEN p[j] ELSE p[j + 1]
      BY <1>1, <1>3, <1>6
    <3>5. p[j + 1] = q[j]
      BY <1>3
    <3>6. p[(j - 1) + 1] = q[j - 1]
      <4>1. j - 1 \in 1..Len(q)
        BY <3>1, <1>1
      <4> QED BY <4>1, <1>3
    <3> QED BY <3>1, <3>2, <3>3, <3>4, <3>5, <3>6, <1>1
  <2> QED BY <2>1, <2>2
<1>9. a = b
  BY <1>4, <1>6, <1>7, <1>8, SeqEqual
<1> QED BY <1>9 DEF a, b, p, r

\* The line of a fresh mutex is empty.
LEMMA FifoInit == Init => Fifo!Init
BY DEF Init, Fifo!Init, Line

\* Every step of co_mutex is a step of FifoMutex or leaves the line alone.
LEMMA FifoStep ==
    Barging = FALSE /\ PoliteInv /\ [Next]_vars
        => [Fifo!Next]_(Fifo!abstractVars)
<1> SUFFICES ASSUME Barging = FALSE, PoliteInv, [Next]_vars
             PROVE  Fifo!Next \/ UNCHANGED Fifo!abstractVars
  OBVIOUS
<1>0. /\ NoLock \notin Coros
      /\ queue \in Seq(Coros) /\ theLock \in Coros \cup {NoLock}
      /\ holders = {theLock} \ {NoLock}
      /\ timer => queue # <<>> /\ theLock = NoLock
      /\ ~exists => queue = <<>> /\ theLock = NoLock
  BY ConstantsOK DEF PoliteInv, HandoffInv, TypeOK, NoLostHandoff, LockKnown
<1>1. ASSUME NEW c \in Coros, AcquireFree(c) PROVE Fifo!Arrive(c)
  <2>1. theLock = NoLock /\ theLock' = c /\ queue = <<>> /\ queue' = <<>>
    BY <1>1 DEF AcquireFree, HandoffPending
  <2>2. Line = <<>> /\ Line' = <<c>>
    BY <2>1, <1>0 DEF Line
  <2> QED BY <1>0, <2>1, <2>2 DEF Fifo!Arrive
<1>2. ASSUME NEW c \in Coros, AcquireWait(c) PROVE Fifo!Arrive(c)
  <2>1. /\ theLock \in Coros /\ theLock # NoLock /\ theLock' = theLock
        /\ queue' = Append(queue, c) /\ queue' \in Seq(Coros)
        /\ c # theLock /\ ~ \E i \in 1..Len(queue) : queue[i] = c
    BY <1>0, <1>2 DEF AcquireWait, Outside, Waiting
  <2>2. Line = <<theLock>> \o queue /\ Line' = <<theLock>> \o Append(queue, c)
    BY <2>1 DEF Line
  <2>3. Line' = Append(Line, c)
    BY <2>1, <2>2, <1>0, ConsAppend
  <2>4. ~ \E i \in 1..Len(Line) : Line[i] = c
    <3>1. /\ Len(Line) = Len(queue) + 1 /\ Line[1] = theLock
          /\ \A j \in 1..Len(queue) : Line[j + 1] = queue[j]
      BY <1>0, <2>1, <2>2, ConsFacts
    <3>2. ASSUME NEW i \in 1..Len(Line) PROVE Line[i] # c
      <4>1. CASE i = 1
        BY <4>1, <3>1, <2>1
      <4>2. CASE i # 1
        <5>1. i - 1 \in 1..Len(queue) /\ i = (i - 1) + 1
          BY <4>2, <3>1, <1>0
        <5>2. Line[i] = queue[i - 1]
          BY <5>1, <3>1
        <5> QED BY <5>1, <5>2, <2>1
      <4> QED BY <4>1, <4>2
    <3> QED BY <3>2
  <2> QED BY <2>1, <2>3, <2>4 DEF Fifo!Arrive
<1>3. ASSUME NEW c \in Coros, Release(c) PROVE Fifo!Leave
  <2>1. theLock = c /\ theLock' = NoLock /\ queue' = queue
    BY <1>0, <1>3 DEF Release
  <2>2. Line = <<c>> \o queue /\ Line' = queue
    BY <1>0, <2>1 DEF Line
  <2>3. Line # <<>> /\ Line' = Tail(Line)
    BY <1>0, <2>2, ConsTail
  <2> QED BY <1>0, <2>1, <2>3 DEF Fifo!Leave
<1>4. ASSUME UnlockerRun PROVE Fifo!Enter
  <2>1. /\ queue # <<>> /\ queue[1] \in Coros /\ theLock = NoLock
        /\ theLock' = queue[1] /\ queue' = RemoveAt(queue, 1)
    BY <1>0, <1>4 DEF UnlockerRun
  <2>2. Line = queue /\ Line' = <<queue[1]>> \o RemoveAt(queue, 1)
    BY <1>0, <2>1 DEF Line
  <2>3. Line' = Line
    BY <1>0, <2>1, <2>2, RemoveFirst1
  <2> QED BY <1>0, <2>1, <2>2, <2>3 DEF Fifo!Enter
<1>5. ASSUME NEW i \in 1..Len(queue), CancelWait(i) PROVE Fifo!Next
  <2>1. queue' = RemoveAt(queue, i) /\ theLock' = theLock /\ Len(queue) \in Nat
    BY <1>0, <1>5 DEF CancelWait, Unlink
  <2>2. CASE theLock = NoLock
    <3>1. Line = queue /\ Line' = RemoveAt(queue, i)
      BY <2>1, <2>2 DEF Line
    <3>2. Fifo!GiveUp(i)
      BY <2>1, <2>2, <3>1 DEF Fifo!GiveUp, Fifo!RemoveAt, RemoveAt
    <3> QED BY <3>1, <3>2 DEF Fifo!Next
  <2>3. CASE theLock # NoLock
    <3>1. /\ theLock \in Coros
          /\ Line = <<theLock>> \o queue
          /\ Line' = <<theLock>> \o RemoveAt(queue, i)
      BY <1>0, <2>1, <2>3 DEF Line
    <3>2. Line' = RemoveAt(Line, i + 1) /\ Len(Line) = Len(queue) + 1
      <4>1. theLock \in Coros /\ queue \in Seq(Coros) /\ i \in 1..Len(queue)
        BY <1>0, <3>1
      <4>2. <<theLock>> \o RemoveAt(queue, i) = RemoveAt(<<theLock>> \o queue, i + 1)
        BY ONLY <4>1, ConsRemoveAt
      <4>3. Len(<<theLock>> \o queue) = Len(queue) + 1
        BY ONLY <4>1, ConsFacts
      <4> QED BY <3>1, <4>2, <4>3
    <3>3. Fifo!GiveUp(i + 1)
      BY <2>1, <3>2 DEF Fifo!GiveUp, Fifo!RemoveAt, RemoveAt
    <3>4. i + 1 \in 1..Len(Line)
      BY <2>1, <3>2
    <3> QED BY <3>3, <3>4 DEF Fifo!Next
  <2> QED BY <2>2, <2>3
<1>6. ASSUME Destroy PROVE Fifo!Leave \/ UNCHANGED Fifo!abstractVars
  <2>1. queue = <<>> /\ queue' = <<>> /\ theLock' = NoLock /\ Line' = <<>>
    BY <1>6 DEF Destroy, Line
  <2>2. CASE theLock = NoLock
    BY <2>1, <2>2 DEF Line, Fifo!abstractVars
  <2>3. CASE theLock # NoLock
    <3>1. Line = <<theLock>> \o queue /\ theLock \in Coros
      BY <1>0, <2>3 DEF Line
    <3>2. Line # <<>> /\ Tail(Line) = <<>>
      BY <1>0, <2>1, <3>1, ConsTail
    <3> QED BY <2>1, <2>3, <3>2 DEF Fifo!Leave
  <2> QED BY <2>2, <2>3
<1>7. ASSUME Construct PROVE UNCHANGED Fifo!abstractVars
  BY <1>7 DEF Construct, Fifo!abstractVars, Line
<1>8. CASE UNCHANGED vars
  BY <1>8 DEF vars, Fifo!abstractVars, Line
<1> QED BY <1>1, <1>2, <1>3, <1>4, <1>5, <1>6, <1>7, <1>8 DEF Next, Fifo!Next

\* Without barging co_mutex keeps the promise of FifoMutex: coroutines enter in
\* the order they arrived, one at a time, whoever is cancelled in between.
THEOREM Ordered == Barging = FALSE => (Spec => KeepsOrder)
<1> SUFFICES ASSUME Barging = FALSE PROVE Spec => KeepsOrder
  OBVIOUS
<1>1. PoliteInv /\ [Next]_vars => PoliteInv'
  BY PoliteStep
<1>2. PoliteInv /\ [Next]_vars => [Fifo!Next]_(Fifo!abstractVars)
  BY FifoStep
<1> QED BY <1>1, <1>2, PoliteInit, FifoInit, PTL DEF Spec, KeepsOrder, Fifo!Spec
=============================================================================

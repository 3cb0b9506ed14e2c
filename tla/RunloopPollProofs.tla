-------------------------- MODULE RunloopPollProofs --------------------------
(***************************************************************************)
(* Proofs about RunloopPoll, for any set of waiters, any first size of the *)
(* tables, any longest timeout, and whether or not callbacks of timeouts   *)
(* make the table of timeouts grow.                                        *)
(***************************************************************************)
EXTENDS RunloopPoll, FiniteSetTheorems, WellFoundedInduction, TLAPS

-----------------------------------------------------------------------------
(* Tables.                                                                 *)

\* A table and its two arrays, of one size.
IsTable(t) ==
    /\ Size(t) \in Nat
    /\ t \in [gen : Nat, free : 0..Size(t),
              next : [Slots(t) -> {InUse} \cup 0..Size(t)],
              wait : [Slots(t) -> Ops \cup {Nil}]]

\* path[0], path[1] .. are the unused slots of t in the order in which its free
\* list links them, and path[len] is its end.
IsFreePath(t, len, path) ==
    /\ path \in [0..len -> 0..Size(t)]
    /\ path[0] = t.free /\ path[len] = Size(t)
    /\ \A k \in 0..len : k < len =>
          path[k] < Size(t) /\ t.wait[path[k]] = Nil /\ t.next[path[k]] = path[k + 1]
    /\ \A j, k \in 0..len : path[j] = path[k] => j = k
    /\ \A i \in Slots(t) : t.wait[i] = Nil => \E k \in 0..len : k < len /\ path[k] = i

HasFreePath(t) == \E len \in 0..Size(t) : \E path \in [0..len -> 0..Size(t)] : IsFreePath(t, len, path)

\* A set of numbers that is not empty has a least one.
LEMMA LeastOfNat ==
    ASSUME NEW T \in SUBSET Nat, T # {}
    PROVE  \E m \in T : \A k \in T : m <= k
<1>1. \A j, k \in Nat : j < k => <<j, k>> \in OpToRel(<, Nat)
  BY Zenon DEF OpToRel
<1>2. PICK R : IsWellFoundedOn(R, Nat) /\ \A j, k \in Nat : j < k => <<j, k>> \in R
  BY <1>1, NatLessThanWellFounded, Zenon
<1>3. T \subseteq Nat /\ T # {} /\ IsWellFoundedOn(R, Nat)
  BY <1>2
<1>4. \E m \in T : \A k \in T : ~(<<k, m>> \in R)
  BY <1>3, WFMin, Zenon
<1>5. PICK m \in T : \A k \in T : ~(<<k, m>> \in R)
  BY <1>4
<1>6. \A k \in T : ~(k < m)
  BY <1>2, <1>5, Zenon
<1> QED BY <1>6

\* Min is the least of a set of numbers.
LEMMA MinOfNat ==
    ASSUME NEW T \in SUBSET Nat, T # {}
    PROVE  Min(T) \in T /\ \A k \in T : Min(T) <= k
BY LeastOfNat DEF Min

\* The size is the number of slots.
LEMMA SizeIs ==
    ASSUME NEW t, NEW s \in Nat, DOMAIN t.next = 0..(s - 1)
    PROVE  Size(t) = s /\ Slots(t) = 0..(s - 1)
<1>1. Cardinality(0..(s - 1)) = s
  BY FS_Interval
<1> QED BY <1>1 DEF Size, Slots

\* What a table is.
LEMMA TableFacts ==
    ASSUME NEW t, IsTable(t)
    PROVE  /\ Size(t) \in Nat /\ Slots(t) = 0..(Size(t) - 1)
           /\ t.gen \in Nat /\ t.free \in 0..Size(t)
           /\ t.next \in [Slots(t) -> {InUse} \cup 0..Size(t)]
           /\ t.wait \in [Slots(t) -> Ops \cup {Nil}]
           /\ t = [gen |-> t.gen, free |-> t.free, next |-> t.next, wait |-> t.wait]
BY DEF IsTable, Slots

\* A record of a table's parts is a table.
LEMMA TableFrom ==
    ASSUME NEW t, NEW s \in Nat, t.gen \in Nat, t.free \in 0..s,
           t.next \in [0..(s - 1) -> {InUse} \cup 0..s],
           t.wait \in [0..(s - 1) -> Ops \cup {Nil}],
           t = [gen |-> t.gen, free |-> t.free, next |-> t.next, wait |-> t.wait]
    PROVE  IsTable(t) /\ Size(t) = s /\ Slots(t) = 0..(s - 1)
<1>1. DOMAIN t.next = 0..(s - 1)
  OBVIOUS
<1>2. Size(t) = s /\ Slots(t) = 0..(s - 1)
  BY <1>1, SizeIs
<1> QED BY <1>2 DEF IsTable

\* A new table is all one free list.
LEMMA EmptyTableOK ==
    ASSUME NEW s \in Nat
    PROVE  LET t == EmptyTable(s)
           IN  /\ IsTable(t) /\ HasFreePath(t) /\ Size(t) = s
               /\ t.wait = [i \in 0..(s - 1) |-> Nil]
<1> DEFINE t == EmptyTable(s)
<1>1. IsTable(t) /\ Size(t) = s /\ Slots(t) = 0..(s - 1)
  <2> DEFINE nx == [i \in 0..(s - 1) |-> i + 1]
             wt == [i \in 0..(s - 1) |-> Nil]
  <2>1. nx \in [0..(s - 1) -> {InUse} \cup 0..s] /\ wt \in [0..(s - 1) -> Ops \cup {Nil}]
    OBVIOUS
  <2>2. t = [gen |-> 0, free |-> 0, next |-> nx, wait |-> wt] /\ 0 \in Nat /\ 0 \in 0..s
    BY DEF EmptyTable
  <2> HIDE DEF t, nx, wt
  <2> QED BY <2>1, <2>2, TableFrom
<1> DEFINE path == [k \in 0..s |-> k]
<1>2. path \in [0..s -> 0..s]
  OBVIOUS
<1>3. IsFreePath(t, s, path)
  <2>1. /\ t.free = 0
        /\ \A k \in 0..s : k < s => t.next[k] = k + 1 /\ t.wait[k] = Nil
    BY DEF EmptyTable
  <2> HIDE DEF t
  <2> QED BY <1>1, <1>2, <2>1 DEF IsFreePath
<1>4. HasFreePath(t)
  <2> HIDE DEF t, path
  <2>1. s \in 0..Size(t)
    BY <1>1
  <2> QED BY <1>1, <1>2, <1>3, <2>1 DEF HasFreePath
<1> QED BY <1>1, <1>4 DEF EmptyTable

\* A table's free list is a path through its unused slots.
LEMMA FreePath ==
    ASSUME NEW t, IsTable(t), HasFreePath(t)
    PROVE  \E len \in 0..Size(t) : \E path \in [0..len -> 0..Size(t)] : IsFreePath(t, len, path)
BY DEF HasFreePath

\* The head of the free list is an unused slot, or else there is none.
LEMMA FreeHead ==
    ASSUME NEW t, IsTable(t), HasFreePath(t)
    PROVE  /\ t.free # Size(t) => t.free \in Slots(t) /\ t.wait[t.free] = Nil
           /\ t.free = Size(t) => \A i \in Slots(t) : t.wait[i] # Nil
<1>1. PICK len \in 0..Size(t) : \E path \in [0..len -> 0..Size(t)] : IsFreePath(t, len, path)
  BY FreePath
<1>2. PICK path \in [0..len -> 0..Size(t)] : IsFreePath(t, len, path)
  BY <1>1
<1>3. Size(t) \in Nat /\ Slots(t) = 0..(Size(t) - 1)
  BY TableFacts
<1>4. path[0] = t.free /\ path[len] = Size(t) /\ len \in 0..len /\ 0 \in 0..len
  BY <1>2, <1>3 DEF IsFreePath
<1>5. t.free # Size(t) => 0 < len
  BY <1>3, <1>4
<1>6. t.free = Size(t) => len = 0
  BY <1>2, <1>4 DEF IsFreePath
<1> QED BY <1>2, <1>3, <1>4, <1>5, <1>6 DEF IsFreePath

\* What taking the first unused slot does to a table.
LEMMA ConnectedTable ==
    ASSUME NEW t, IsTable(t), HasFreePath(t), t.free # Size(t),
           NEW w \in Ops, NEW c, c = Connected(t, w)
    PROVE  /\ IsTable(c) /\ HasFreePath(c)
           /\ Size(c) = Size(t) /\ Slots(c) = Slots(t) /\ c.gen = t.gen
           /\ t.free \in Slots(t) /\ t.wait[t.free] = Nil
           /\ c.wait = [t.wait EXCEPT ![t.free] = w]
<1> DEFINE i == t.free
<1>1. /\ Size(t) \in Nat /\ Slots(t) = 0..(Size(t) - 1) /\ i \in Slots(t) /\ t.wait[i] = Nil
      /\ t.gen \in Nat /\ t.next \in [Slots(t) -> {InUse} \cup 0..Size(t)]
      /\ t.wait \in [Slots(t) -> Ops \cup {Nil}]
      /\ t = [gen |-> t.gen, free |-> t.free, next |-> t.next, wait |-> t.wait]
  BY TableFacts, FreeHead
<1> DEFINE nx == [t.next EXCEPT ![i] = InUse]  wt == [t.wait EXCEPT ![i] = w]
<1>2. PICK len \in 0..Size(t) : \E path \in [0..len -> 0..Size(t)] : IsFreePath(t, len, path)
  BY FreePath
<1>3. PICK path \in [0..len -> 0..Size(t)] : IsFreePath(t, len, path)
  BY <1>2
<1>4. len \in Nat \ {0} /\ path[0] = i /\ path[1] = t.next[i] /\ path[1] \in 0..Size(t)
  <2>1. len \in Nat /\ len # 0
    BY <1>1, <1>3 DEF IsFreePath
  <2>2. 0 \in 0..len /\ 1 \in 0..len /\ 0 < len /\ 0 + 1 = 1
    BY <2>1
  <2> QED BY <1>3, <2>1, <2>2 DEF IsFreePath
<1>5. /\ c.gen = t.gen /\ c.free = t.next[i] /\ c.next = nx /\ c.wait = wt
      /\ c = [gen |-> c.gen, free |-> c.free, next |-> c.next, wait |-> c.wait]
  <2>1. t \in [gen : Nat, free : 0..Size(t),
              next : [Slots(t) -> {InUse} \cup 0..Size(t)],
              wait : [Slots(t) -> Ops \cup {Nil}]]
    BY DEF IsTable
  <2>2. c.gen = t.gen /\ c.free = t.next[i] /\ c.next = nx /\ c.wait = wt
    BY <2>1 DEF Connected
  <2>3. c = [gen |-> c.gen, free |-> c.free, next |-> c.next, wait |-> c.wait]
    BY <2>1 DEF Connected
  <2> QED BY <2>2, <2>3
<1>6. nx \in [Slots(t) -> {InUse} \cup 0..Size(t)] /\ wt \in [Slots(t) -> Ops \cup {Nil}]
  BY <1>1
<1>7. IsTable(c) /\ Size(c) = Size(t) /\ Slots(c) = Slots(t)
  <2>1. /\ c.gen \in Nat /\ c.free \in 0..Size(t)
        /\ c.next \in [Slots(t) -> {InUse} \cup 0..Size(t)]
        /\ c.wait \in [Slots(t) -> Ops \cup {Nil}]
    BY <1>1, <1>4, <1>5, <1>6
  <2> QED BY <1>1, <1>5, <2>1, TableFrom
<1> DEFINE l == len - 1  q == [k \in 0..l |-> path[k + 1]]
<1>8. q \in [0..l -> 0..Size(t)] /\ l \in 0..Size(t)
  BY <1>1, <1>4
<1>9. IsFreePath(c, l, q)
  <2>1. \A k \in 0..l : k + 1 \in 0..len /\ q[k] = path[k + 1]
    BY <1>4
  <2>2. q[0] = c.free /\ q[l] = Size(t)
    <3>1. 0 \in 0..l /\ l \in 0..l /\ l + 1 = len
      BY <1>4
    <3>2. q[0] = path[0 + 1] /\ q[l] = path[l + 1]
      BY <2>1, <3>1
    <3>3. path[len] = Size(t)
      BY <1>3 DEF IsFreePath
    <3> HIDE DEF q, l
    <3> QED BY <1>4, <1>5, <3>1, <3>2, <3>3
  <2>3. \A k \in 0..len : k # 0 => path[k] # i
    BY <1>3, <1>4 DEF IsFreePath
  <2>4. \A k \in 0..l : k < l =>
          q[k] < Size(t) /\ c.wait[q[k]] = Nil /\ c.next[q[k]] = q[k + 1]
    <3> SUFFICES ASSUME NEW k \in 0..l, k < l
                 PROVE  q[k] < Size(t) /\ c.wait[q[k]] = Nil /\ c.next[q[k]] = q[k + 1]
      OBVIOUS
    <3>1. k + 1 \in 0..len /\ k + 1 < len /\ k + 1 # 0 /\ k + 1 \in 0..l
      BY <1>4
    <3>2. q[k] = path[k + 1] /\ q[k + 1] = path[(k + 1) + 1]
      BY <3>1
    <3>3. path[k + 1] < Size(t) /\ t.wait[path[k + 1]] = Nil /\ t.next[path[k + 1]] = path[(k + 1) + 1]
      BY <1>3, <3>1 DEF IsFreePath
    <3>4. path[k + 1] # i /\ path[k + 1] \in Slots(t)
      BY <1>1, <2>3, <3>1, <3>3
    <3>5. c.wait[path[k + 1]] = t.wait[path[k + 1]] /\ c.next[path[k + 1]] = t.next[path[k + 1]]
      <4> HIDE DEF q, l
      <4> QED BY <1>1, <1>5, <3>4
    <3> HIDE DEF q, l
    <3> QED BY <3>2, <3>3, <3>5
  <2>5. \A j, k \in 0..l : q[j] = q[k] => j = k
    <3>1. \A j, k \in 0..len : path[j] = path[k] => j = k
      BY <1>3 DEF IsFreePath
    <3>2. ASSUME NEW j \in 0..l, NEW k \in 0..l, q[j] = q[k] PROVE j = k
      <4>1. j + 1 \in 0..len /\ k + 1 \in 0..len /\ path[j + 1] = path[k + 1]
        BY <2>1, <3>2
      <4>2. j + 1 = k + 1
        BY <3>1, <4>1
      <4> QED BY <4>2
    <3> QED BY <3>2
  <2>6. \A j \in Slots(c) : c.wait[j] = Nil => \E k \in 0..l : k < l /\ q[k] = j
    <3> SUFFICES ASSUME NEW j \in Slots(t), c.wait[j] = Nil
                 PROVE  \E k \in 0..l : k < l /\ q[k] = j
      BY <1>7
    <3>1. j # i /\ t.wait[j] = Nil
      <4> HIDE DEF q, l
      <4> QED BY <1>1, <1>5, NilOK
    <3>2. PICK k \in 0..len : k < len /\ path[k] = j
      BY <1>3, <3>1 DEF IsFreePath
    <3>3. k # 0
      BY <1>4, <3>1, <3>2
    <3>4. k - 1 \in 0..l /\ k - 1 < l /\ q[k - 1] = path[k]
      BY <1>4, <3>2, <3>3
    <3> HIDE DEF q, l
    <3> QED BY <3>2, <3>4
  <2> HIDE DEF q, l
  <2> QED BY <1>7, <1>8, <2>2, <2>4, <2>5, <2>6 DEF IsFreePath
<1>10. HasFreePath(c)
  <2> HIDE DEF q, l
  <2> QED BY <1>7, <1>8, <1>9 DEF HasFreePath
<1>11. c.gen = t.gen /\ c.wait = wt
  <2> HIDE DEF nx, wt
  <2> QED BY <1>5
<1> QED BY <1>1, <1>7, <1>10, <1>11

\* A free list that misses a slot is shorter than the table.
LEMMA FreePathShort ==
    ASSUME NEW t, IsTable(t), NEW i \in Slots(t), t.wait[i] # Nil,
           NEW len \in 0..Size(t), NEW path \in [0..len -> 0..Size(t)],
           IsFreePath(t, len, path)
    PROVE  len < Size(t)
<1> DEFINE D == 0..len  E == (0..Size(t)) \ {i}
<1>1. Size(t) \in Nat /\ i \in 0..(Size(t) - 1)
  BY TableFacts
<1>2. \A k \in D : path[k] # i
  BY <1>1 DEF IsFreePath
<1>3. path \in [D -> E]
  BY <1>2
<1>4. \A j, k \in D : path[j] = path[k] => j = k
  BY DEF IsFreePath
<1>5. IsFiniteSet(D) /\ Cardinality(D) = len + 1
  BY FS_Interval
<1>6. IsFiniteSet(0..Size(t)) /\ Cardinality(0..Size(t)) = Size(t) + 1
  <2>1. ASSUME NEW s \in Nat PROVE IsFiniteSet(0..s) /\ Cardinality(0..s) = s + 1
    <3>1. 0 \in Int /\ s \in Int /\ ~(0 > s) /\ s - 0 + 1 = s + 1
      OBVIOUS
    <3>2. IsFiniteSet(0..s) /\ Cardinality(0..s) = IF 0 > s THEN 0 ELSE s - 0 + 1
      BY <3>1, FS_Interval, Zenon
    <3> QED BY <3>1, <3>2
  <2> QED BY <1>1, <2>1
<1>7. IsFiniteSet(E) /\ Cardinality(E) = Size(t)
  <2>1. i \in 0..Size(t)
    BY <1>1
  <2>2. IsFiniteSet(E) /\ Cardinality(E) = Cardinality(0..Size(t)) - 1
    BY <1>6, <2>1, FS_RemoveElement
  <2> QED BY <1>1, <1>6, <2>2
<1> HIDE DEF D, E
<1>8. ~(Cardinality(E) < Cardinality(D))
  <2> SUFFICES ASSUME Cardinality(E) < Cardinality(D) PROVE FALSE
    OBVIOUS
  <2>1. \E x, y \in D : x # y /\ path[x] = path[y]
    BY <1>3, <1>5, <1>7, FS_PigeonHole
  <2> QED BY <1>4, <2>1
<1> QED BY <1>1, <1>5, <1>7, <1>8

\* What disconnecting a slot does to a table.
LEMMA FreedTable ==
    ASSUME NEW t, IsTable(t), HasFreePath(t),
           NEW i \in Slots(t), t.wait[i] # Nil, NEW c, c = Freed(t, i)
    PROVE  /\ IsTable(c) /\ HasFreePath(c)
           /\ Size(c) = Size(t) /\ Slots(c) = Slots(t) /\ c.gen = t.gen
           /\ c.wait = [t.wait EXCEPT ![i] = Nil]
<1>1. /\ Size(t) \in Nat /\ Slots(t) = 0..(Size(t) - 1)
      /\ t.gen \in Nat /\ t.next \in [Slots(t) -> {InUse} \cup 0..Size(t)]
      /\ t.free \in 0..Size(t) /\ t.wait \in [Slots(t) -> Ops \cup {Nil}]
  BY TableFacts
<1> DEFINE nx == [t.next EXCEPT ![i] = t.free]  wt == [t.wait EXCEPT ![i] = Nil]
<1>2. PICK len \in 0..Size(t) : \E path \in [0..len -> 0..Size(t)] : IsFreePath(t, len, path)
  BY FreePath
<1>3. PICK path \in [0..len -> 0..Size(t)] : IsFreePath(t, len, path)
  BY <1>2
<1>4. len \in Nat /\ len < Size(t) /\ path[0] = t.free /\ path[len] = Size(t)
  <2>1. len < Size(t)
    BY <1>3, FreePathShort
  <2> QED BY <1>1, <1>3, <2>1 DEF IsFreePath
<1>5. /\ c.gen = t.gen /\ c.free = i /\ c.next = nx /\ c.wait = wt
      /\ c = [gen |-> c.gen, free |-> c.free, next |-> c.next, wait |-> c.wait]
  <2>1. t \in [gen : Nat, free : 0..Size(t),
              next : [Slots(t) -> {InUse} \cup 0..Size(t)],
              wait : [Slots(t) -> Ops \cup {Nil}]]
    BY DEF IsTable
  <2>2. c.gen = t.gen /\ c.free = i /\ c.next = nx /\ c.wait = wt
    BY <2>1 DEF Freed
  <2>3. c = [gen |-> c.gen, free |-> c.free, next |-> c.next, wait |-> c.wait]
    BY <2>1 DEF Freed
  <2> QED BY <2>2, <2>3
<1>6. nx \in [Slots(t) -> {InUse} \cup 0..Size(t)] /\ wt \in [Slots(t) -> Ops \cup {Nil}]
  BY <1>1
<1>7. IsTable(c) /\ Size(c) = Size(t) /\ Slots(c) = Slots(t)
  <2>1. /\ c.gen \in Nat /\ c.free \in 0..Size(t)
        /\ c.next \in [Slots(t) -> {InUse} \cup 0..Size(t)]
        /\ c.wait \in [Slots(t) -> Ops \cup {Nil}]
    BY <1>1, <1>5, <1>6
  <2> QED BY <1>1, <1>5, <2>1, TableFrom
<1> DEFINE l == len + 1  q == [k \in 0..l |-> IF k = 0 THEN i ELSE path[k - 1]]
<1>8. q \in [0..l -> 0..Size(t)] /\ l \in 0..Size(t)
  BY <1>1, <1>4
<1>9. IsFreePath(c, l, q)
  <2>1. /\ 0 \in 0..l /\ q[0] = i
        /\ \A k \in 0..l : k # 0 => k - 1 \in 0..len /\ q[k] = path[k - 1]
    BY <1>4
  <2>2. q[0] = c.free /\ q[l] = Size(t)
    <3>1. l \in 0..l /\ l # 0 /\ l - 1 = len
      BY <1>4
    <3> HIDE DEF l, q
    <3> QED BY <1>4, <1>5, <2>1, <3>1
  <2>3. \A k \in 0..len : path[k] # i
    <3>1. i < Size(t)
      BY <1>1
    <3> QED BY <1>1, <1>3, <1>4, <3>1 DEF IsFreePath
  <2>4. \A k \in 0..l : k < l =>
          q[k] < Size(t) /\ c.wait[q[k]] = Nil /\ c.next[q[k]] = q[k + 1]
    <3> SUFFICES ASSUME NEW k \in 0..l, k < l
                 PROVE  q[k] < Size(t) /\ c.wait[q[k]] = Nil /\ c.next[q[k]] = q[k + 1]
      OBVIOUS
    <3>1. k + 1 \in 0..l /\ k + 1 # 0 /\ (k + 1) - 1 = k
      BY <1>4
    <3>2. q[k + 1] = path[k]
      <4> HIDE DEF l, q
      <4> QED BY <2>1, <3>1
    <3>3. CASE k = 0
      <4>1. c.wait[i] = Nil /\ c.next[i] = t.free /\ i < Size(t)
        BY <1>1, <1>5
      <4> HIDE DEF l, q
      <4> QED BY <1>4, <2>1, <3>2, <3>3, <4>1
    <3>4. CASE k # 0
      <4>1. k - 1 \in 0..len /\ k - 1 < len /\ (k - 1) + 1 = k /\ q[k] = path[k - 1]
        BY <1>4, <3>4
      <4>2. path[k - 1] < Size(t) /\ t.wait[path[k - 1]] = Nil /\ t.next[path[k - 1]] = path[k]
        BY <1>3, <4>1 DEF IsFreePath
      <4>3. path[k - 1] # i /\ path[k - 1] \in Slots(t)
        BY <1>1, <2>3, <4>1, <4>2
      <4>4. c.wait[path[k - 1]] = Nil /\ c.next[path[k - 1]] = path[k]
        BY <1>1, <1>5, <4>2, <4>3
      <4> HIDE DEF l, q
      <4> QED BY <3>2, <4>1, <4>2, <4>4
    <3> QED BY <3>3, <3>4
  <2>5. \A j, k \in 0..l : q[j] = q[k] => j = k
    <3>1. \A j, k \in 0..len : path[j] = path[k] => j = k
      BY <1>3 DEF IsFreePath
    <3>2. ASSUME NEW j \in 0..l, NEW k \in 0..l, q[j] = q[k] PROVE j = k
      <4>1. CASE j # 0 /\ k # 0
        <5>1. j - 1 \in 0..len /\ k - 1 \in 0..len /\ path[j - 1] = path[k - 1]
          <6> HIDE DEF l, q
          <6> QED BY <2>1, <3>2, <4>1
        <5>2. j - 1 = k - 1
          BY <3>1, <5>1
        <5> QED BY <5>2
      <4>2. CASE j = 0 \/ k = 0
        <5> HIDE DEF l, q
        <5> QED BY <2>1, <2>3, <3>2, <4>2
      <4> QED BY <4>1, <4>2
    <3> QED BY <3>2
  <2>6. \A j \in Slots(c) : c.wait[j] = Nil => \E k \in 0..l : k < l /\ q[k] = j
    <3> SUFFICES ASSUME NEW j \in Slots(t), c.wait[j] = Nil
                 PROVE  \E k \in 0..l : k < l /\ q[k] = j
      BY <1>7
    <3>1. CASE j = i
      <4>1. 0 < l
        BY <1>4
      <4> HIDE DEF l, q
      <4> QED BY <2>1, <3>1, <4>1
    <3>2. CASE j # i
      <4>1. t.wait[j] = Nil
        BY <1>1, <1>5, <3>2
      <4>2. PICK k \in 0..len : k < len /\ path[k] = j
        BY <1>3, <4>1 DEF IsFreePath
      <4>3. k + 1 \in 0..l /\ k + 1 < l /\ k + 1 # 0 /\ (k + 1) - 1 = k
        BY <1>4, <4>2
      <4> HIDE DEF l, q
      <4> QED BY <2>1, <4>2, <4>3
    <3> QED BY <3>1, <3>2
  <2> HIDE DEF l, q
  <2> QED BY <1>7, <1>8, <2>2, <2>4, <2>5, <2>6 DEF IsFreePath
<1>10. HasFreePath(c)
  <2> HIDE DEF l, q
  <2> QED BY <1>7, <1>8, <1>9 DEF HasFreePath
<1> QED BY <1>5, <1>7, <1>10

\* What making room does to a table.
LEMMA ReservedTable ==
    ASSUME NEW t, IsTable(t), HasFreePath(t), NEW r, r = Reserved(t)
    PROVE  /\ IsTable(r) /\ HasFreePath(r) /\ r.free # Size(r)
           /\ Size(t) <= Size(r) /\ Slots(t) \subseteq Slots(r)
           /\ \A i \in Slots(r) : r.wait[i] = IF i \in Slots(t) THEN t.wait[i] ELSE Nil
           /\ t.free # Size(t) => r = t
<1>1. /\ Size(t) \in Nat /\ Slots(t) = 0..(Size(t) - 1)
      /\ t.gen \in Nat /\ t.next \in [Slots(t) -> {InUse} \cup 0..Size(t)]
      /\ t.free \in 0..Size(t) /\ t.wait \in [Slots(t) -> Ops \cup {Nil}]
  BY TableFacts
<1>2. CASE t.free # Size(t)
  BY <1>1, <1>2 DEF Reserved
<1>3. CASE t.free = Size(t)
  <2> DEFINE s == IF Size(t) = 0 THEN InitSlots ELSE 2 * Size(t)
             nx == [i \in 0..(s - 1) |-> IF i < Size(t) THEN t.next[i] ELSE i + 1]
             wt == [i \in 0..(s - 1) |-> IF i < Size(t) THEN t.wait[i] ELSE Nil]
  <2>1. s \in Nat /\ Size(t) < s
    BY <1>1, SlotsOK
  <2>2. r = [gen |-> t.gen + 1, free |-> t.free, next |-> nx, wait |-> wt]
    BY <1>3 DEF Reserved, Reallocated
  <2>3. \A i \in Slots(t) : t.wait[i] # Nil
    BY <1>3, FreeHead
  <2> HIDE DEF s
  <2>4. nx \in [0..(s - 1) -> {InUse} \cup 0..s] /\ wt \in [0..(s - 1) -> Ops \cup {Nil}]
    BY <1>1, <2>1
  <2>5. IsTable(r) /\ Size(r) = s /\ Slots(r) = 0..(s - 1)
    <3>1. /\ r.gen \in Nat /\ r.free \in 0..s /\ r.next = nx /\ r.wait = wt
          /\ r = [gen |-> r.gen, free |-> r.free, next |-> r.next, wait |-> r.wait]
      <4> HIDE DEF nx, wt
      <4> QED BY <1>1, <2>1, <2>2
    <3> HIDE DEF nx, wt
    <3> QED BY <2>1, <2>4, <3>1, TableFrom
  <2>6. \A i \in Slots(r) : r.wait[i] = IF i \in Slots(t) THEN t.wait[i] ELSE Nil
    BY <1>1, <2>1, <2>2, <2>5
  <2> DEFINE l == s - Size(t)  q == [k \in 0..l |-> Size(t) + k]
  <2>7. q \in [0..l -> 0..s] /\ l \in 0..s
    BY <1>1, <2>1
  <2>8. IsFreePath(r, l, q)
    <3>1. q[0] = r.free /\ q[l] = s
      BY <1>1, <1>3, <2>1, <2>2
    <3>2. \A k \in 0..l : k < l => q[k] < s /\ r.wait[q[k]] = Nil /\ r.next[q[k]] = q[k + 1]
      <4>1. r.next = nx /\ r.wait = wt
        BY <2>2
      <4>2. ASSUME NEW k \in 0..l, k < l
            PROVE  /\ Size(t) + k \in 0..(s - 1) /\ ~(Size(t) + k < Size(t)) /\ Size(t) + k < s
                   /\ k + 1 \in 0..l /\ q[k] = Size(t) + k /\ q[k + 1] = Size(t) + k + 1
        BY <1>1, <2>1, <4>2
      <4>3. \A i \in 0..(s - 1) : ~(i < Size(t)) => nx[i] = i + 1 /\ wt[i] = Nil
        OBVIOUS
      <4> HIDE DEF nx, wt, q
      <4> QED BY <4>1, <4>2, <4>3
    <3>3. \A j, k \in 0..l : q[j] = q[k] => j = k
      BY <1>1, <2>1
    <3>4. \A i \in Slots(r) : r.wait[i] = Nil => \E k \in 0..l : k < l /\ q[k] = i
      <4> SUFFICES ASSUME NEW i \in 0..(s - 1), r.wait[i] = Nil
                   PROVE  \E k \in 0..l : k < l /\ q[k] = i
        BY <2>5
      <4>1. i \notin Slots(t)
        BY <2>3, <2>5, <2>6
      <4>2. i - Size(t) \in 0..l /\ i - Size(t) < l /\ q[i - Size(t)] = i
        BY <1>1, <2>1, <4>1
      <4> QED BY <4>2
    <3>5. Size(r) = s
      BY <2>5
    <3> HIDE DEF l, q
    <3> QED BY <2>7, <3>1, <3>2, <3>3, <3>4, <3>5 DEF IsFreePath
  <2>9. HasFreePath(r)
    <3> HIDE DEF l, q
    <3> QED BY <2>5, <2>7, <2>8 DEF HasFreePath
  <2>10. r.free # Size(r)
    BY <1>1, <1>3, <2>1, <2>2, <2>5
  <2> QED BY <1>1, <1>3, <2>1, <2>5, <2>6, <2>9, <2>10
<1> QED BY <1>2, <1>3

\* w is a walk along the links of t from its first free slot.
IsWalk(t, w) ==
    w = [k \in 0..Size(t) |->
            IF k = 0 THEN t.free
            ELSE IF w[k - 1] \in Slots(t) THEN t.next[w[k - 1]] ELSE Size(t)]

\* A walk that exists is walked.
LEMMA WalkIs ==
    ASSUME NEW t, NEW w, IsWalk(t, w)
    PROVE  IsWalk(t, Walk(t))
BY Zenon DEF Walk, IsWalk

\* A free path is what the walk sees.
LEMMA WholeTable ==
    ASSUME NEW t, IsTable(t), HasFreePath(t)
    PROVE  {Walk(t)[k] : k \in 0..Size(t)} = {i \in Slots(t) : t.wait[i] = Nil} \cup {Size(t)}
<1>1. Size(t) \in Nat /\ Slots(t) = 0..(Size(t) - 1)
  BY TableFacts
<1>2. PICK len \in 0..Size(t) : \E path \in [0..len -> 0..Size(t)] : IsFreePath(t, len, path)
  BY FreePath
<1>3. PICK path \in [0..len -> 0..Size(t)] : IsFreePath(t, len, path)
  BY <1>2
<1> DEFINE w == [k \in 0..Size(t) |-> IF k <= len THEN path[k] ELSE Size(t)]
           next(f, k) == IF k = 0 THEN t.free
                         ELSE IF f[k - 1] \in Slots(t) THEN t.next[f[k - 1]] ELSE Size(t)
<1>4. w = [k \in 0..Size(t) |-> next(w, k)]
  <2> SUFFICES ASSUME NEW k \in 0..Size(t) PROVE w[k] = next(w, k)
    OBVIOUS
  <2>1. CASE k = 0
    BY <1>1, <1>3, <2>1 DEF IsFreePath
  <2>2. CASE k # 0 /\ k <= len
    <3>1. k - 1 \in 0..len /\ k - 1 < len /\ (k - 1) + 1 = k /\ k - 1 \in 0..Size(t)
      BY <1>1, <2>2
    <3>2. w[k] = path[k] /\ w[k - 1] = path[k - 1]
      BY <2>2, <3>1
    <3>3. path[k - 1] < Size(t) /\ t.next[path[k - 1]] = path[k]
      BY <1>3, <3>1 DEF IsFreePath
    <3>4. path[k - 1] \in Slots(t)
      BY <1>1, <3>1, <3>3
    <3> HIDE DEF w
    <3> QED BY <2>2, <3>2, <3>3, <3>4
  <2>3. CASE ~(k <= len)
    <3>1. w[k] = Size(t) /\ k # 0 /\ k - 1 \in 0..Size(t)
      BY <1>1, <2>3
    <3>2. w[k - 1] = Size(t)
      <4>1. path[len] = Size(t)
        BY <1>3 DEF IsFreePath
      <4> QED BY <1>1, <2>3, <3>1, <4>1
    <3>3. Size(t) \notin Slots(t)
      BY <1>1
    <3> HIDE DEF w
    <3> QED BY <3>1, <3>2, <3>3
  <2> QED BY <2>1, <2>2, <2>3
<1> DEFINE v == Walk(t)
<1>5. v = [k \in 0..Size(t) |-> next(v, k)]
  <2> HIDE DEF w
  <2>1. IsWalk(t, w)
    BY ONLY <1>4 DEF IsWalk
  <2>2. IsWalk(t, v)
    BY ONLY <2>1, WalkIs
  <2> QED BY ONLY <2>2 DEF IsWalk
<1>6. \A k \in 0..Size(t) : v[k] = w[k]
  <2> DEFINE D == {k \in 0..Size(t) : v[k] # w[k]}
  <2> SUFFICES ASSUME D # {} PROVE FALSE
    OBVIOUS
  <2>1. D \in SUBSET Nat
    BY <1>1
  <2>2. PICK m \in D : \A k \in D : m <= k
    BY <2>1, LeastOfNat
  <2>3. v[m] = next(v, m) /\ w[m] = next(w, m) /\ m \in 0..Size(t) /\ v[m] # w[m]
    <3> HIDE DEF v, w, next
    <3> QED BY <1>4, <1>5, <2>2
  <2>4. CASE m = 0
    <3> HIDE DEF v, w
    <3> QED BY <2>3, <2>4
  <2>5. CASE m # 0
    <3>1. m - 1 \in 0..Size(t) /\ ~(m <= m - 1)
      BY <1>1, <2>3, <2>5
    <3>2. v[m - 1] = w[m - 1]
      <4> HIDE DEF v, w
      <4> QED BY <2>2, <3>1
    <3> HIDE DEF v, w
    <3> QED BY <2>3, <2>5, <3>2
  <2> QED BY <2>4, <2>5
<1>7. {v[k] : k \in 0..Size(t)} = {w[k] : k \in 0..Size(t)}
  <2> HIDE DEF v, w
  <2> QED BY <1>6
<1>8. \A k \in 0..Size(t) : w[k] \in {i \in Slots(t) : t.wait[i] = Nil} \cup {Size(t)}
  <2> SUFFICES ASSUME NEW k \in 0..Size(t)
               PROVE  w[k] \in {i \in Slots(t) : t.wait[i] = Nil} \cup {Size(t)}
    OBVIOUS
  <2>1. CASE k < len
    <3>1. path[k] < Size(t) /\ t.wait[path[k]] = Nil /\ path[k] \in 0..Size(t) /\ w[k] = path[k]
      BY <1>1, <1>3, <2>1 DEF IsFreePath
    <3> HIDE DEF w
    <3> QED BY <1>1, <3>1
  <2>2. CASE ~(k < len)
    <3>1. path[len] = Size(t)
      BY <1>3 DEF IsFreePath
    <3>2. w[k] = Size(t)
      BY <1>1, <2>2, <3>1
    <3> QED BY <3>2
  <2> QED BY <2>1, <2>2
<1>9. \A i \in Slots(t) : t.wait[i] = Nil => \E k \in 0..Size(t) : w[k] = i
  <2> SUFFICES ASSUME NEW i \in Slots(t), t.wait[i] = Nil PROVE \E k \in 0..Size(t) : w[k] = i
    OBVIOUS
  <2>1. PICK k \in 0..len : k < len /\ path[k] = i
    BY <1>3 DEF IsFreePath
  <2>2. k \in 0..Size(t) /\ w[k] = i
    BY <1>1, <2>1
  <2> QED BY <2>2
<1>10. len \in 0..Size(t) /\ w[len] = Size(t)
  BY <1>1, <1>3 DEF IsFreePath
<1> HIDE DEF v, w
<1>11. {w[k] : k \in 0..Size(t)} = {i \in Slots(t) : t.wait[i] = Nil} \cup {Size(t)}
  BY <1>8, <1>9, <1>10
<1> QED BY <1>7, <1>11 DEF v
-----------------------------------------------------------------------------
(* Producers and waiters.                                                  *)

Names == {"fds", "tms"}

\* Agrees, for producers p.
Linked(p, name, t) ==
    /\ \A i \in Slots(t) : t.wait[i] # Nil => p[t.wait[i]] = Pointer(name, t, i)
    /\ \A w \in Ops : p[w] # Nil /\ p[w].table = name =>
          p[w].idx \in Slots(t) /\ t.wait[p[w].idx] = w

\* A pointer says which slot of which table it is to.
LEMMA PointerFields ==
    ASSUME NEW t, IsTable(t), NEW name \in Names, NEW i \in Slots(t)
    PROVE  /\ Pointer(name, t, i) \in Pointers /\ Pointer(name, t, i) # Nil
           /\ Pointer(name, t, i).table = name /\ Pointer(name, t, i).idx = i
BY TableFacts, NilOK DEF Pointer, Pointers, Names

\* A waiter is connected to a slot of t, which may have been reallocated.
LEMMA ConnectLinks ==
    ASSUME NEW name \in Names, NEW t, IsTable(t), HasFreePath(t), Linked(prod, name, t),
           NEW other \in Names, other # name, NEW u, IsTable(u), Linked(prod, other, u),
           prod \in [Ops -> Pointers \cup {Nil}],
           NEW w \in Ops, prod[w] = Nil,
           NEW r, r = Reserved(t), NEW c, c = Connected(r, w),
           NEW q, q = [Moved(name, r) EXCEPT ![w] = Pointer(name, r, r.free)]
    PROVE  q \in [Ops -> Pointers \cup {Nil}] /\ Linked(q, name, c) /\ Linked(q, other, u)
<1> USE DEF Linked
<1>1. /\ IsTable(r) /\ HasFreePath(r) /\ r.free # Size(r) /\ Slots(t) \subseteq Slots(r)
      /\ \A i \in Slots(r) : r.wait[i] = IF i \in Slots(t) THEN t.wait[i] ELSE Nil
  BY ReservedTable
<1>2. /\ IsTable(c) /\ Slots(c) = Slots(r) /\ c.gen = r.gen
      /\ r.free \in Slots(r) /\ r.wait[r.free] = Nil
      /\ c.wait = [r.wait EXCEPT ![r.free] = w]
  BY <1>1, ConnectedTable
<1>3. r.wait \in [Slots(r) -> Ops \cup {Nil}] /\ u.wait \in [Slots(u) -> Ops \cup {Nil}]
  BY <1>1, TableFacts
<1>4. \A i \in Slots(r) : r.wait[i] # Nil =>
        /\ r.wait[i] \in Ops /\ i \in Slots(t) /\ t.wait[i] = r.wait[i]
        /\ prod[r.wait[i]] # Nil /\ prod[r.wait[i]].table = name /\ prod[r.wait[i]].idx = i
  BY <1>1, <1>3, PointerFields
<1>5. \A i \in Slots(r) : r.wait[i] # Nil => Moved(name, r)[r.wait[i]] = Pointer(name, r, i)
  <2> SUFFICES ASSUME NEW i \in Slots(r), r.wait[i] # Nil
               PROVE  Moved(name, r)[r.wait[i]] = Pointer(name, r, i)
    OBVIOUS
  <2>1. \A j \in Slots(r) : r.wait[j] = r.wait[i] => j = i
    BY <1>4
  <2>2. (CHOOSE j \in Slots(r) : r.wait[j] = r.wait[i]) = i
    BY <2>1
  <2> QED BY <1>4, <2>2 DEF Moved
<1>6. \A v \in Ops : (\A i \in Slots(r) : r.wait[i] # v) => Moved(name, r)[v] = prod[v]
  BY DEF Moved
<1>7. Moved(name, r) \in [Ops -> Pointers \cup {Nil}]
  <2>1. \A v \in Ops : Moved(name, r)[v] \in Pointers \cup {Nil}
    <3> SUFFICES ASSUME NEW v \in Ops PROVE Moved(name, r)[v] \in Pointers \cup {Nil}
      OBVIOUS
    <3>1. CASE \E i \in Slots(r) : r.wait[i] = v
      <4>1. PICK i \in Slots(r) : r.wait[i] = v
        BY <3>1
      <4> QED BY <1>1, <1>5, <4>1, PointerFields, NilOK
    <3>2. CASE ~\E i \in Slots(r) : r.wait[i] = v
      BY <1>6, <3>2
    <3> QED BY <3>1, <3>2
  <2> QED BY <2>1 DEF Moved
<1>8. /\ q \in [Ops -> Pointers \cup {Nil}] /\ q[w] = Pointer(name, r, r.free)
      /\ \A v \in Ops : v # w => q[v] = Moved(name, r)[v]
  BY <1>1, <1>2, <1>7, PointerFields
<1>9. \A i \in Slots(r) : Pointer(name, c, i) = Pointer(name, r, i)
  BY <1>2 DEF Pointer
<1>10. \A i \in Slots(r) : r.wait[i] # w
  BY <1>4, NilOK
<1>11. Linked(q, name, c)
  <2>1. ASSUME NEW i \in Slots(c), c.wait[i] # Nil PROVE q[c.wait[i]] = Pointer(name, c, i)
    <3>1. CASE i = r.free
      BY <1>2, <1>3, <1>8, <1>9, <2>1, <3>1
    <3>2. CASE i # r.free
      <4>1. c.wait[i] = r.wait[i] /\ i \in Slots(r)
        BY <1>2, <1>3, <3>2
      <4> QED BY <1>4, <1>5, <1>8, <1>9, <1>10, <2>1, <4>1
    <3> QED BY <3>1, <3>2
  <2>2. ASSUME NEW v \in Ops, q[v] # Nil, q[v].table = name
        PROVE  q[v].idx \in Slots(c) /\ c.wait[q[v].idx] = v
    <3>1. CASE v = w
      <4>1. q[v].idx = r.free
        BY <1>1, <1>2, <1>8, <3>1, PointerFields
      <4> QED BY <1>2, <1>3, <3>1, <4>1
    <3>2. CASE v # w /\ \E i \in Slots(r) : r.wait[i] = v
      <4>1. PICK i \in Slots(r) : r.wait[i] = v
        BY <3>2
      <4>2. q[v].idx = i
        BY <1>1, <1>5, <1>8, <3>2, <4>1, PointerFields, NilOK
      <4>3. i # r.free
        BY <1>2, <4>1, NilOK
      <4> QED BY <1>2, <1>3, <4>1, <4>2, <4>3
    <3>3. CASE v # w /\ ~\E i \in Slots(r) : r.wait[i] = v
      <4>1. q[v] = prod[v]
        BY <1>6, <1>8, <3>3
      <4>2. prod[v].idx \in Slots(t) /\ t.wait[prod[v].idx] = v
        BY <2>2, <4>1
      <4> QED BY <1>1, <3>3, <4>2
    <3> QED BY <3>1, <3>2, <3>3
  <2> QED BY <2>1, <2>2
<1>12. Linked(q, other, u)
  <2>1. ASSUME NEW i \in Slots(u), u.wait[i] # Nil PROVE q[u.wait[i]] = Pointer(other, u, i)
    <3>1. prod[u.wait[i]] = Pointer(other, u, i) /\ u.wait[i] \in Ops
      BY <1>3, <2>1
    <3>2. prod[u.wait[i]] # Nil /\ prod[u.wait[i]].table = other
      BY <3>1, PointerFields
    <3>3. \A j \in Slots(r) : r.wait[j] # u.wait[i]
      BY <1>4, <2>1, <3>2
    <3> QED BY <1>6, <1>8, <3>1, <3>2, <3>3
  <2>2. ASSUME NEW v \in Ops, q[v] # Nil, q[v].table = other
        PROVE  q[v].idx \in Slots(u) /\ u.wait[q[v].idx] = v
    <3>1. v # w
      BY <1>1, <1>2, <1>8, <2>2, PointerFields
    <3>2. \A i \in Slots(r) : r.wait[i] # v
      BY <1>1, <1>5, <1>8, <2>2, <3>1, PointerFields, NilOK
    <3> QED BY <1>6, <1>8, <2>2, <3>1, <3>2
  <2> QED BY <2>1, <2>2
<1> QED BY <1>8, <1>11, <1>12

\* The waiter of a slot of t is told to forget its producer.
LEMMA FreeLinks ==
    ASSUME NEW name \in Names, NEW t, IsTable(t), HasFreePath(t), Linked(prod, name, t),
           NEW other \in Names, other # name, NEW u, IsTable(u), Linked(prod, other, u),
           prod \in [Ops -> Pointers \cup {Nil}],
           NEW i \in Slots(t), t.wait[i] # Nil,
           NEW c, c = Freed(t, i), NEW q, q = [prod EXCEPT ![t.wait[i]] = Nil]
    PROVE  q \in [Ops -> Pointers \cup {Nil}] /\ Linked(q, name, c) /\ Linked(q, other, u)
<1> USE DEF Linked
<1>1. /\ IsTable(c) /\ Slots(c) = Slots(t) /\ c.gen = t.gen
      /\ c.wait = [t.wait EXCEPT ![i] = Nil]
  BY FreedTable
<1>2. t.wait \in [Slots(t) -> Ops \cup {Nil}] /\ u.wait \in [Slots(u) -> Ops \cup {Nil}]
  BY TableFacts
<1>3. /\ t.wait[i] \in Ops /\ prod[t.wait[i]] # Nil
      /\ prod[t.wait[i]].table = name /\ prod[t.wait[i]].idx = i
  BY <1>2, PointerFields
<1>4. /\ q \in [Ops -> Pointers \cup {Nil}] /\ q[t.wait[i]] = Nil
      /\ \A v \in Ops : v # t.wait[i] => q[v] = prod[v]
  BY <1>3
<1>5. Linked(q, name, c)
  <2>1. ASSUME NEW j \in Slots(c), c.wait[j] # Nil PROVE q[c.wait[j]] = Pointer(name, c, j)
    <3>1. j # i /\ c.wait[j] = t.wait[j] /\ j \in Slots(t) /\ t.wait[j] \in Ops
      BY <1>1, <1>2, <2>1
    <3>2. prod[t.wait[j]] = Pointer(name, t, j) /\ prod[t.wait[j]].idx = j
      BY <2>1, <3>1, PointerFields
    <3>3. q[t.wait[j]] = prod[t.wait[j]]
      BY <1>3, <1>4, <3>1, <3>2
    <3>4. Pointer(name, c, j) = Pointer(name, t, j)
      BY <1>1 DEF Pointer
    <3> QED BY <3>1, <3>2, <3>3, <3>4
  <2>2. ASSUME NEW v \in Ops, q[v] # Nil, q[v].table = name
        PROVE  q[v].idx \in Slots(c) /\ c.wait[q[v].idx] = v
    <3>1. v # t.wait[i] /\ q[v] = prod[v]
      BY <1>4, <2>2
    <3>2. prod[v].idx \in Slots(t) /\ t.wait[prod[v].idx] = v
      BY <2>2, <3>1
    <3>3. prod[v].idx # i
      BY <3>1, <3>2
    <3> QED BY <1>1, <1>2, <3>1, <3>2, <3>3
  <2> QED BY <2>1, <2>2
<1>6. Linked(q, other, u)
  <2>1. ASSUME NEW j \in Slots(u), u.wait[j] # Nil PROVE q[u.wait[j]] = Pointer(other, u, j)
    <3>1. /\ prod[u.wait[j]] = Pointer(other, u, j) /\ u.wait[j] \in Ops
          /\ prod[u.wait[j]].table = other
      BY <1>2, <2>1, PointerFields
    <3> QED BY <1>3, <1>4, <3>1
  <2>2. ASSUME NEW v \in Ops, q[v] # Nil, q[v].table = other
        PROVE  q[v].idx \in Slots(u) /\ u.wait[q[v].idx] = v
    BY <1>4, <2>2
  <2> QED BY <2>1, <2>2
<1> QED BY <1>4, <1>5, <1>6
-----------------------------------------------------------------------------
(* The inductive invariant.                                                *)

TypeInv ==
    /\ IsTable(fds) /\ HasFreePath(fds) /\ IsTable(tms) /\ HasFreePath(tms)
    /\ revents \in [Slots(fds) -> BOOLEAN]
    /\ left \in [Slots(tms) -> 0..MaxDelay]
    /\ prod \in [Ops -> Pointers \cup {Nil}]
    /\ n \in Nat /\ end \in Nat /\ ready \subseteq Ops

\* Whoever the poll found ready, and has not been told, is still ahead of the
\* loop: of the loop over the descriptors with its event, of the loop over the
\* timeouts with no time left.
FdAhead(w) == \E i \in EventSlots : fds.wait[i] = w

DueAt(w, i) == i \in Slots(tms) /\ tms.wait[i] = w /\ left[i] = 0

LoopInv ==
    /\ phase = "idle" => ready = {}
    /\ phase = "fds" => \A w \in ready : FdAhead(w) \/ \E i \in Nat : DueAt(w, i)
    /\ phase = "tms" =>
          end <= Size(tms) /\ \A w \in ready : \E i \in n..(end - 1) : DueAt(w, i)

PollInv == TypeInv /\ LinksAgree /\ EventsPaired /\ LoopInv

\* The two tables' pointers agree one table at a time.
LEMMA LinkedAgrees ==
    /\ LinksAgree <=> Linked(prod, "fds", fds) /\ Linked(prod, "tms", tms)
    /\ LinksAgree' <=> Linked(prod', "fds", fds') /\ Linked(prod', "tms", tms')
BY DEF LinksAgree, Agrees, Linked, Pointer, Slots, Size

\* Before anything is registered the invariant holds.
LEMMA PollInit == Init => PollInv
<1> SUFFICES ASSUME Init PROVE PollInv
  OBVIOUS
<1>1. /\ IsTable(fds) /\ HasFreePath(fds) /\ Size(fds) = InitSlots
      /\ fds.wait = [i \in 0..(InitSlots - 1) |-> Nil]
  BY EmptyTableOK, SlotsOK DEF Init
<1>2. /\ IsTable(tms) /\ HasFreePath(tms) /\ Size(tms) = 0
      /\ tms.wait = [i \in 0..(0 - 1) |-> Nil]
  BY EmptyTableOK DEF Init
<1>3. Slots(fds) = 0..(InitSlots - 1) /\ Slots(tms) = {}
  BY <1>1, <1>2 DEF Slots
<1>4. TypeInv
  BY <1>1, <1>2, <1>3, SlotsOK DEF Init, TypeInv
<1>5. LinksAgree
  BY <1>1, <1>3, LinkedAgrees DEF Init, Linked
<1>6. EventsPaired /\ LoopInv
  BY DEF Init, EventsPaired, LoopInv
<1> QED BY <1>4, <1>5, <1>6 DEF PollInv

\* Registering a descriptor keeps it.
LEMMA AwaitFdInv ==
    ASSUME PollInv, NEW w \in Ops, AwaitFd(w)
    PROVE  PollInv'
<1> USE DEF PollInv
<1>1. PICK r : r = Reserved(fds)
  OBVIOUS
<1>2. PICK c : c = Connected(r, w)
  OBVIOUS
<1>3. /\ fds' = c /\ prod[w] = Nil
      /\ revents' = [j \in Slots(r) |-> j # r.free /\ j \in Slots(fds) /\ revents[j]]
      /\ prod' = [Moved("fds", r) EXCEPT ![w] = Pointer("fds", r, r.free)]
      /\ UNCHANGED <<tms, left, phase, n, end, ready>>
  BY <1>1, <1>2 DEF AwaitFd, loop
<1>4. /\ IsTable(r) /\ HasFreePath(r) /\ r.free # Size(r) /\ Slots(fds) \subseteq Slots(r)
      /\ \A i \in Slots(r) : r.wait[i] = IF i \in Slots(fds) THEN fds.wait[i] ELSE Nil
  BY <1>1, ReservedTable DEF TypeInv
<1>5. /\ IsTable(c) /\ HasFreePath(c) /\ Slots(c) = Slots(r)
      /\ r.free \in Slots(r) /\ r.wait[r.free] = Nil
      /\ c.wait = [r.wait EXCEPT ![r.free] = w]
  BY <1>2, <1>4, ConnectedTable
<1>6. prod' \in [Ops -> Pointers \cup {Nil}] /\ Linked(prod', "fds", c) /\ Linked(prod', "tms", tms)
  BY <1>1, <1>2, <1>3, LinkedAgrees, ConnectLinks DEF TypeInv, Names
<1>7. TypeInv'
  BY <1>3, <1>5, <1>6 DEF TypeInv
<1>8. LinksAgree'
  BY <1>3, <1>6, LinkedAgrees
<1>9. \A i \in Slots(r) : i \in Slots(fds) /\ i # r.free => c.wait[i] = fds.wait[i]
  BY <1>4, <1>5, TableFacts
<1>10. EventSlots' = EventSlots \ {r.free}
  BY <1>3, <1>4, <1>5 DEF EventSlots, TypeInv
<1>11. EventSlots \subseteq Slots(fds)
  BY DEF EventSlots
<1>12. EventsPaired'
  BY <1>3, <1>4, <1>9, <1>10, <1>11 DEF EventsPaired
<1>13. ASSUME phase = "fds", NEW v \in ready, FdAhead(v) PROVE FdAhead(v)'
  <2>1. PICK i \in EventSlots : fds.wait[i] = v
    BY <1>13 DEF FdAhead
  <2>2. i # r.free
    <3>1. v # Nil
      BY <1>13, NilOK DEF TypeInv
    <3> QED BY <1>4, <1>5, <1>11, <2>1, <3>1
  <2> QED BY <1>3, <1>4, <1>9, <1>10, <1>11, <2>1, <2>2 DEF FdAhead
<1>14. \A v, i : DueAt(v, i)' <=> DueAt(v, i)
  BY <1>3 DEF DueAt
<1>15. LoopInv'
  BY <1>3, <1>13, <1>14 DEF LoopInv
<1> QED BY <1>7, <1>8, <1>12, <1>15

\* So does registering a timeout, whether the table grows or not.
LEMMA AwaitTimeoutInv ==
    ASSUME PollInv, NEW w \in Ops, NEW d \in 0..MaxDelay, AwaitTimeout(w, d)
    PROVE  PollInv'
<1> USE DEF PollInv
<1>1. PICK r : r = Reserved(tms)
  OBVIOUS
<1>2. PICK c : c = Connected(r, w)
  OBVIOUS
<1>3. /\ tms' = c /\ prod[w] = Nil
      /\ left' = [j \in Slots(r) |-> IF j = r.free THEN d
                                     ELSE IF j \in Slots(tms) THEN left[j] ELSE 0]
      /\ prod' = [Moved("tms", r) EXCEPT ![w] = Pointer("tms", r, r.free)]
      /\ UNCHANGED <<fds, revents, phase, n, end, ready>>
  BY <1>1, <1>2 DEF AwaitTimeout, loop
<1>4. /\ IsTable(r) /\ HasFreePath(r) /\ r.free # Size(r) /\ Slots(tms) \subseteq Slots(r)
      /\ Size(tms) <= Size(r)
      /\ \A i \in Slots(r) : r.wait[i] = IF i \in Slots(tms) THEN tms.wait[i] ELSE Nil
  BY <1>1, ReservedTable DEF TypeInv
<1>5. /\ IsTable(c) /\ HasFreePath(c) /\ Slots(c) = Slots(r) /\ Size(c) = Size(r)
      /\ r.free \in Slots(r) /\ r.wait[r.free] = Nil
      /\ c.wait = [r.wait EXCEPT ![r.free] = w]
  BY <1>2, <1>4, ConnectedTable
<1>6. prod' \in [Ops -> Pointers \cup {Nil}] /\ Linked(prod', "tms", c) /\ Linked(prod', "fds", fds)
  <2>1. /\ IsTable(fds) /\ IsTable(tms) /\ HasFreePath(tms)
        /\ prod \in [Ops -> Pointers \cup {Nil}]
        /\ Linked(prod, "fds", fds) /\ Linked(prod, "tms", tms)
    BY LinkedAgrees DEF TypeInv
  <2>2. prod[w] = Nil /\ prod' = [Moved("tms", r) EXCEPT ![w] = Pointer("tms", r, r.free)]
    BY <1>3
  <2> HIDE DEF PollInv
  <2> QED BY <1>1, <1>2, <2>1, <2>2, ConnectLinks DEF Names
<1>7. TypeInv'
  <2>1. left' \in [Slots(c) -> 0..MaxDelay]
    BY <1>3, <1>5, SlotsOK DEF TypeInv
  <2> QED BY <1>3, <1>5, <1>6, <2>1 DEF TypeInv
<1>8. LinksAgree'
  BY <1>3, <1>6, LinkedAgrees
<1>9. \A i \in Slots(r) : i \in Slots(tms) /\ i # r.free => c.wait[i] = tms.wait[i]
  BY <1>4, <1>5, TableFacts
<1>10. EventSlots' = EventSlots
  BY <1>3 DEF EventSlots
<1>11. EventsPaired'
  BY <1>3, <1>10 DEF EventsPaired
<1>12. \A v : FdAhead(v)' <=> FdAhead(v)
  BY <1>3, <1>10 DEF FdAhead
<1>13. ASSUME NEW v \in ready, NEW i, DueAt(v, i) PROVE DueAt(v, i)'
  <2>1. i # r.free
    <3>1. v # Nil
      BY <1>13, NilOK DEF TypeInv
    <3> QED BY <1>4, <1>5, <1>13, <3>1 DEF DueAt
  <2> QED BY <1>3, <1>4, <1>5, <1>9, <1>13, <2>1 DEF DueAt
<1>14. Size(tms) <= Size(tms') /\ Size(tms) \in Nat /\ Size(tms') \in Nat
  BY <1>3, <1>4, <1>5, TableFacts DEF TypeInv
<1>15. Size(tms)' = Size(tms')
  BY DEF Size
<1>16. ASSUME phase = "fds" PROVE LoopInv'
  BY <1>3, <1>12, <1>13, <1>16 DEF LoopInv
<1>17. ASSUME phase = "tms" PROVE LoopInv'
  BY <1>3, <1>13, <1>14, <1>15, <1>17 DEF LoopInv, TypeInv
<1>18. ASSUME phase \notin {"fds", "tms"} PROVE LoopInv'
  BY <1>3, <1>18 DEF LoopInv
<1> QED BY <1>7, <1>8, <1>11, <1>16, <1>17, <1>18

\* A slot that is given up is the first of the free list again.
LEMMA CancelInv ==
    ASSUME PollInv, NEW w \in Ops, Cancel(w)
    PROVE  PollInv'
<1> USE DEF PollInv
<1>1. PICK i : i = prod[w].idx
  OBVIOUS
<1>2. prod[w] # Nil /\ prod[w] \in Pointers /\ prod[w].table \in Names
  BY DEF Cancel, TypeInv, Pointers, Names
<1>3. prod' = [prod EXCEPT ![w] = Nil] /\ ready' = ready \ {w} /\ UNCHANGED <<phase, n, end>>
  BY DEF Cancel, loop
<1>4. /\ IsTable(fds) /\ IsTable(tms) /\ HasFreePath(fds) /\ HasFreePath(tms)
      /\ prod \in [Ops -> Pointers \cup {Nil}]
      /\ Linked(prod, "fds", fds) /\ Linked(prod, "tms", tms)
  BY LinkedAgrees DEF TypeInv
<1>5. CASE prod[w].table = "fds"
  <2>1. PICK c : c = Freed(fds, i)
    OBVIOUS
  <2>2. fds' = c /\ revents' = [revents EXCEPT ![i] = FALSE] /\ tms' = tms /\ left' = left
    BY <1>1, <1>5, <2>1 DEF Cancel
  <2>3. i \in Slots(fds) /\ fds.wait[i] = w /\ fds.wait[i] # Nil
    BY <1>1, <1>2, <1>4, <1>5, NilOK DEF Linked
  <2>4. /\ IsTable(c) /\ HasFreePath(c) /\ Slots(c) = Slots(fds)
        /\ c.wait = [fds.wait EXCEPT ![i] = Nil]
    BY <1>4, <2>1, <2>3, FreedTable
  <2>5. prod' \in [Ops -> Pointers \cup {Nil}] /\ Linked(prod', "fds", c) /\ Linked(prod', "tms", tms)
    <3>1. prod' = [prod EXCEPT ![fds.wait[i]] = Nil]
      BY <1>3, <2>3
    <3> HIDE DEF PollInv
    <3> QED BY <1>4, <2>1, <2>3, <3>1, FreeLinks DEF Names
  <2>6. TypeInv'
    <3>1. revents' \in [Slots(c) -> BOOLEAN]
      BY <2>2, <2>4 DEF TypeInv
    <3> QED BY <1>3, <2>2, <2>4, <2>5, <3>1 DEF TypeInv
  <2>7. LinksAgree'
    BY <2>2, <2>5, LinkedAgrees
  <2>8. EventSlots' = EventSlots \ {i} /\ EventSlots \subseteq Slots(fds)
    BY <1>3, <2>2, <2>3, <2>4 DEF EventSlots, TypeInv
  <2>9. \A j \in EventSlots' : j \in EventSlots /\ c.wait[j] = fds.wait[j] /\ c.wait[j] # w
    <3> SUFFICES ASSUME NEW j \in EventSlots'
                 PROVE  j \in EventSlots /\ c.wait[j] = fds.wait[j] /\ c.wait[j] # w
      OBVIOUS
    <3>1. j \in EventSlots /\ j \in Slots(fds) /\ j # i
      BY <2>8
    <3>2. c.wait[j] = fds.wait[j]
      BY <1>4, <2>3, <2>4, <3>1, TableFacts
    <3>3. fds.wait[j] # w
      <4> SUFFICES ASSUME fds.wait[j] = w PROVE FALSE
        OBVIOUS
      <4>1. prod[w] = Pointer("fds", fds, j)
        BY <1>4, <2>3, <3>1 DEF Linked
      <4>2. prod[w].idx = j
        BY <1>4, <3>1, <4>1, PointerFields DEF Names
      <4> QED BY <1>1, <3>1, <4>2
    <3> QED BY <3>1, <3>2, <3>3
  <2>10. EventsPaired'
    BY <1>3, <2>2, <2>9 DEF EventsPaired
  <2>11. ASSUME NEW v \in ready', FdAhead(v) PROVE FdAhead(v)'
    <3>1. PICK j \in EventSlots : fds.wait[j] = v
      BY <2>11 DEF FdAhead
    <3>2. j # i
      BY <1>3, <2>3, <3>1
    <3>3. j \in EventSlots'
      BY <2>8, <3>1, <3>2
    <3> QED BY <2>2, <2>9, <3>1, <3>3 DEF FdAhead
  <2>12. \A v, j : DueAt(v, j)' <=> DueAt(v, j)
    BY <2>2 DEF DueAt
  <2>13. LoopInv'
    BY <1>3, <2>2, <2>11, <2>12 DEF LoopInv
  <2> QED BY <2>6, <2>7, <2>10, <2>13
<1>6. CASE prod[w].table = "tms"
  <2>1. PICK c : c = Freed(tms, i)
    OBVIOUS
  <2>2. tms' = c /\ left' = [left EXCEPT ![i] = 0] /\ fds' = fds /\ revents' = revents
    BY <1>1, <1>6, <2>1 DEF Cancel
  <2>3. i \in Slots(tms) /\ tms.wait[i] = w /\ tms.wait[i] # Nil
    BY <1>1, <1>2, <1>4, <1>6, NilOK DEF Linked
  <2>4. /\ IsTable(c) /\ HasFreePath(c) /\ Slots(c) = Slots(tms) /\ Size(c) = Size(tms)
        /\ c.wait = [tms.wait EXCEPT ![i] = Nil]
    BY <1>4, <2>1, <2>3, FreedTable
  <2>5. prod' \in [Ops -> Pointers \cup {Nil}] /\ Linked(prod', "tms", c) /\ Linked(prod', "fds", fds)
    <3>1. prod' = [prod EXCEPT ![tms.wait[i]] = Nil]
      BY <1>3, <2>3
    <3> HIDE DEF PollInv
    <3> QED BY <1>4, <2>1, <2>3, <3>1, FreeLinks DEF Names
  <2>6. TypeInv'
    <3>1. left' \in [Slots(c) -> 0..MaxDelay]
      <4>1. left \in [Slots(c) -> 0..MaxDelay] /\ 0 \in 0..MaxDelay
        BY <2>4, SlotsOK DEF TypeInv
      <4> QED BY <2>2, <4>1
    <3> QED BY <1>3, <2>2, <2>4, <2>5, <3>1 DEF TypeInv
  <2>7. LinksAgree'
    BY <2>2, <2>5, LinkedAgrees
  <2>8. EventSlots' = EventSlots /\ \A v : FdAhead(v)' <=> FdAhead(v)
    BY <1>3, <2>2 DEF EventSlots, FdAhead
  <2>9. EventsPaired'
    <3> SUFFICES ASSUME phase = "fds", NEW j \in EventSlots PROVE fds.wait[j] \in ready \ {w}
      BY <1>3, <2>2, <2>8 DEF EventsPaired
    <3>1. fds.wait[j] \in ready /\ j \in Slots(fds) /\ fds.wait[j] # Nil
      BY NilOK DEF EventsPaired, EventSlots, TypeInv
    <3>2. prod[fds.wait[j]] = Pointer("fds", fds, j)
      BY <1>4, <3>1 DEF Linked
    <3>3. prod[fds.wait[j]].table = "fds"
      BY <1>4, <3>1, <3>2, PointerFields DEF Names
    <3> QED BY <1>6, <3>1, <3>3
  <2>10. ASSUME NEW v \in ready', NEW j, DueAt(v, j) PROVE DueAt(v, j)'
    <3>1. j # i /\ j \in Slots(tms)
      BY <1>3, <2>3, <2>10 DEF DueAt
    <3>2. c.wait[j] = tms.wait[j] /\ left'[j] = left[j]
      BY <1>4, <2>2, <2>4, <3>1, TableFacts DEF TypeInv
    <3> QED BY <2>2, <2>4, <2>10, <3>1, <3>2 DEF DueAt
  <2>11. Size(tms)' = Size(tms)
    BY <2>2, <2>4 DEF Size
  <2>12. LoopInv'
    BY <1>3, <2>8, <2>10, <2>11 DEF LoopInv
  <2> QED BY <2>6, <2>7, <2>9, <2>12
<1> QED BY <1>2, <1>5, <1>6 DEF Names

\* What ppoll() found lies ahead of both loops.
LEMMA PollStepInv ==
    ASSUME PollInv, NEW R \in SUBSET UsedFds, NEW e \in 0..MaxDelay, Poll(R, e)
    PROVE  PollInv'
<1> USE DEF PollInv
<1>1. /\ IsTable(fds) /\ IsTable(tms) /\ HasFreePath(fds) /\ HasFreePath(tms)
      /\ fds.wait \in [Slots(fds) -> Ops \cup {Nil}] /\ tms.wait \in [Slots(tms) -> Ops \cup {Nil}]
      /\ R \subseteq Slots(fds) /\ \A i \in R : fds.wait[i] # Nil
      /\ left \in [Slots(tms) -> 0..MaxDelay]
  BY TableFacts DEF TypeInv, UsedFds
<1>2. /\ revents' = [i \in Slots(fds) |-> i \in R]
      /\ left' = [i \in Slots(tms) |-> Elapsed(i, e)]
      /\ ready' = {fds.wait[i] : i \in R} \cup
                  {tms.wait[i] : i \in {j \in Slots(tms) : tms.wait[j] # Nil /\ left[j] <= e}}
      /\ phase' = "fds" /\ n' = 0
      /\ UNCHANGED <<fds, tms, prod, end>>
  BY DEF Poll
<1>3. \A i \in Slots(tms) : Elapsed(i, e) \in 0..MaxDelay /\ (left[i] <= e => Elapsed(i, e) = 0)
  BY <1>1, SlotsOK DEF Elapsed
<1>4. TypeInv'
  <2>1. ready' \subseteq Ops
    BY <1>1, <1>2
  <2>2. left' \in [Slots(tms) -> 0..MaxDelay]
    BY <1>2, <1>3
  <2> QED BY <1>2, <2>1, <2>2 DEF TypeInv
<1>5. LinksAgree'
  BY <1>2, LinkedAgrees
<1>6. EventSlots' = R
  <2>1. EventSlots' = {i \in Slots(fds) : i >= 0 /\ revents'[i]}
    BY <1>2 DEF EventSlots
  <2>2. \A i \in Slots(fds) : i >= 0
    BY <1>1, TableFacts
  <2> QED BY <1>1, <1>2, <2>1, <2>2
<1>7. EventsPaired'
  BY <1>2, <1>6 DEF EventsPaired
<1>8. ASSUME NEW w \in ready' PROVE FdAhead(w)' \/ \E i \in Nat : DueAt(w, i)'
  <2>1. CASE w \in {fds.wait[i] : i \in R}
    BY <1>2, <1>6, <2>1 DEF FdAhead
  <2>2. CASE w \in {tms.wait[i] : i \in {j \in Slots(tms) : tms.wait[j] # Nil /\ left[j] <= e}}
    <3>1. PICK i \in Slots(tms) : w = tms.wait[i] /\ left[i] <= e
      BY <2>2
    <3>2. DueAt(w, i)'
      BY <1>2, <1>3, <3>1 DEF DueAt
    <3>3. i \in Nat
      BY <1>1, TableFacts
    <3> QED BY <3>2, <3>3
  <2> QED BY <1>2, <2>1, <2>2
<1>9. LoopInv'
  BY <1>2, <1>8 DEF LoopInv
<1> QED BY <1>4, <1>5, <1>7, <1>9

\* The first loop calls a waiter and goes on, or only goes on.
LEMMA DispatchFdInv ==
    ASSUME PollInv, DispatchFd
    PROVE  PollInv'
<1> USE DEF PollInv
<1>1. EventSlots \in SUBSET Nat /\ EventSlots # {} /\ phase = "fds"
  BY TableFacts DEF DispatchFd, EventSlots, TypeInv
<1>2. PICK i : i = Min(EventSlots)
  OBVIOUS
<1>3. i \in EventSlots /\ \A j \in EventSlots : i <= j
  BY <1>1, <1>2, MinOfNat
<1>4. PICK w, c : w = fds.wait[i] /\ c = Freed(fds, i)
  OBVIOUS
<1>5. /\ fds' = c /\ prod' = [prod EXCEPT ![w] = Nil] /\ ready' = ready \ {w} /\ n' = i + 1
      /\ UNCHANGED <<revents, tms, left, phase, end>>
  BY <1>2, <1>4 DEF DispatchFd, Complete
<1>6. /\ IsTable(fds) /\ IsTable(tms) /\ HasFreePath(fds) /\ HasFreePath(tms)
      /\ prod \in [Ops -> Pointers \cup {Nil}]
      /\ Linked(prod, "fds", fds) /\ Linked(prod, "tms", tms)
  BY LinkedAgrees DEF TypeInv
<1>7. i \in Slots(fds) /\ w \in Ops /\ fds.wait[i] # Nil /\ i \in Nat
  BY <1>1, <1>3, <1>4, NilOK DEF EventsPaired, EventSlots, TypeInv
<1>8. /\ IsTable(c) /\ HasFreePath(c) /\ Slots(c) = Slots(fds)
      /\ c.wait = [fds.wait EXCEPT ![i] = Nil]
  BY <1>4, <1>6, <1>7, FreedTable
<1>9. prod' \in [Ops -> Pointers \cup {Nil}] /\ Linked(prod', "fds", c) /\ Linked(prod', "tms", tms)
  <2>1. prod' = [prod EXCEPT ![fds.wait[i]] = Nil]
    BY <1>4, <1>5
  <2> HIDE DEF PollInv
  <2> QED BY <1>4, <1>6, <1>7, <2>1, FreeLinks DEF Names
<1>10. TypeInv'
  BY <1>5, <1>7, <1>8, <1>9 DEF TypeInv
<1>11. LinksAgree'
  BY <1>5, <1>9, LinkedAgrees
<1>12. EventSlots' = EventSlots \ {i}
  <2>1. \A j \in Slots(fds) : j \in Nat
    BY <1>6, TableFacts
  <2>2. \A j \in Slots(fds) : j \in EventSlots' <=> j \in EventSlots \ {i}
    BY <1>3, <1>5, <1>7, <1>8, <2>1 DEF EventSlots, TypeInv
  <2> QED BY <1>5, <1>8, <2>2 DEF EventSlots
<1>13. \A j \in EventSlots' : j \in EventSlots /\ c.wait[j] = fds.wait[j] /\ c.wait[j] # w
  <2> SUFFICES ASSUME NEW j \in EventSlots'
               PROVE  j \in EventSlots /\ c.wait[j] = fds.wait[j] /\ c.wait[j] # w
    OBVIOUS
  <2>1. j \in EventSlots /\ j \in Slots(fds) /\ j # i
    BY <1>12 DEF EventSlots
  <2>2. c.wait[j] = fds.wait[j]
    BY <1>6, <1>7, <1>8, <2>1, TableFacts
  <2>3. fds.wait[j] # w
    <3> SUFFICES ASSUME fds.wait[j] = w PROVE FALSE
      OBVIOUS
    <3>1. prod[w] = Pointer("fds", fds, j) /\ prod[w] = Pointer("fds", fds, i)
      BY <1>4, <1>6, <1>7, <2>1 DEF Linked
    <3>2. prod[w].idx = j /\ prod[w].idx = i
      BY <1>6, <1>7, <2>1, <3>1, PointerFields DEF Names
    <3> QED BY <2>1, <3>2
  <2> QED BY <2>1, <2>2, <2>3
<1>14. EventsPaired'
  BY <1>1, <1>5, <1>13 DEF EventsPaired
<1>15. ASSUME NEW v \in ready', FdAhead(v) PROVE FdAhead(v)'
  <2>1. PICK j \in EventSlots : fds.wait[j] = v
    BY <1>15 DEF FdAhead
  <2>2. j \in EventSlots'
    BY <1>4, <1>5, <1>12, <2>1
  <2> QED BY <1>5, <1>13, <2>1, <2>2 DEF FdAhead
<1>16. \A v, j : DueAt(v, j)' <=> DueAt(v, j)
  BY <1>5 DEF DueAt
<1>17. LoopInv'
  BY <1>1, <1>5, <1>15, <1>16 DEF LoopInv
<1> QED BY <1>10, <1>11, <1>14, <1>17

\* The second loop begins where the first has ended.
LEMMA StartTimeoutsInv ==
    ASSUME PollInv, StartTimeouts
    PROVE  PollInv'
<1> USE DEF PollInv
<1>1. /\ phase = "fds" /\ EventSlots = {} /\ phase' = "tms" /\ n' = 0 /\ end' = Size(tms)
      /\ UNCHANGED <<fds, revents, tms, left, prod, ready>>
  BY DEF StartTimeouts
<1>2. Size(tms) \in Nat /\ Slots(tms) = 0..(Size(tms) - 1)
  BY TableFacts DEF TypeInv
<1>3. TypeInv'
  BY <1>1, <1>2 DEF TypeInv
<1>4. LinksAgree' /\ EventsPaired'
  BY <1>1, LinkedAgrees DEF EventsPaired
<1>5. \A v, i : DueAt(v, i) => DueAt(v, i)' /\ i \in 0..(Size(tms) - 1)
  BY <1>1, <1>2 DEF DueAt
<1>6. \A v \in ready : \E i \in 0..(Size(tms) - 1) : DueAt(v, i)'
  BY <1>1, <1>5 DEF LoopInv, FdAhead
<1>7. Size(tms)' = Size(tms)
  BY <1>1 DEF Size
<1>8. LoopInv'
  BY <1>1, <1>2, <1>6, <1>7 DEF LoopInv
<1> QED BY <1>3, <1>4, <1>8

\* And goes on in the same way.
LEMMA DispatchTimeoutInv ==
    ASSUME PollInv, DispatchTimeout
    PROVE  PollInv'
<1> USE DEF PollInv
<1>1. phase = "tms" /\ DueSlots # {} /\ end <= Size(tms) /\ n \in Nat /\ end \in Nat
  BY DEF DispatchTimeout, LoopInv, TypeInv
<1>2. Size(tms) \in Nat /\ Slots(tms) = 0..(Size(tms) - 1)
  BY TableFacts DEF TypeInv
<1>3. DueSlots \in SUBSET Nat
  BY <1>1 DEF DueSlots
<1>4. PICK i : i = Min(DueSlots)
  OBVIOUS
<1>5. i \in DueSlots /\ \A j \in DueSlots : i <= j
  BY <1>1, <1>3, <1>4, MinOfNat
<1>6. PICK w, c : w = tms.wait[i] /\ c = Freed(tms, i)
  OBVIOUS
<1>7. /\ tms' = c /\ prod' = [prod EXCEPT ![w] = Nil] /\ ready' = ready \ {w} /\ n' = i + 1
      /\ left' = [left EXCEPT ![i] = 0]
      /\ UNCHANGED <<fds, revents, phase, end>>
  BY <1>4, <1>6 DEF DispatchTimeout, Complete
<1>8. /\ IsTable(fds) /\ IsTable(tms) /\ HasFreePath(fds) /\ HasFreePath(tms)
      /\ prod \in [Ops -> Pointers \cup {Nil}]
      /\ Linked(prod, "fds", fds) /\ Linked(prod, "tms", tms)
      /\ left \in [Slots(tms) -> 0..MaxDelay] /\ 0 \in 0..MaxDelay
  BY LinkedAgrees, SlotsOK DEF TypeInv
<1>9. i \in Slots(tms) /\ tms.wait[i] # Nil /\ i \in Nat
  BY <1>1, <1>2, <1>5 DEF DueSlots
<1>10. /\ IsTable(c) /\ HasFreePath(c) /\ Slots(c) = Slots(tms) /\ Size(c) = Size(tms)
       /\ c.wait = [tms.wait EXCEPT ![i] = Nil]
  BY <1>6, <1>8, <1>9, FreedTable
<1>11. prod' \in [Ops -> Pointers \cup {Nil}] /\ Linked(prod', "tms", c) /\ Linked(prod', "fds", fds)
  <2>1. prod' = [prod EXCEPT ![tms.wait[i]] = Nil]
    BY <1>6, <1>7
  <2> HIDE DEF PollInv
  <2> QED BY <1>6, <1>8, <1>9, <2>1, FreeLinks DEF Names
<1>12. TypeInv'
  <2>1. left' \in [Slots(c) -> 0..MaxDelay]
    BY <1>7, <1>8, <1>10
  <2> QED BY <1>7, <1>9, <1>10, <1>11, <2>1 DEF TypeInv
<1>13. LinksAgree'
  BY <1>7, <1>11, LinkedAgrees
<1>14. EventsPaired'
  BY <1>1, <1>7 DEF EventsPaired
<1>15. ASSUME NEW v \in ready' PROVE \E j \in (i + 1)..(end - 1) : DueAt(v, j)'
  <2>1. PICK j \in n..(end - 1) : DueAt(v, j)
    BY <1>1, <1>7, <1>15 DEF LoopInv
  <2>2. v # Nil /\ v # w /\ v \in Ops
    BY <1>7, <1>15, NilOK DEF TypeInv
  <2>3. j \in DueSlots /\ j # i
    BY <1>6, <2>1, <2>2 DEF DueSlots, DueAt
  <2>4. j \in (i + 1)..(end - 1)
    BY <1>1, <1>5, <1>9, <2>1, <2>3
  <2>5. c.wait[j] = tms.wait[j] /\ left'[j] = left[j] /\ j \in Slots(tms)
    BY <1>7, <1>8, <1>10, <2>1, <2>3, TableFacts DEF DueAt
  <2>6. DueAt(v, j)'
    BY <1>7, <1>10, <2>1, <2>5 DEF DueAt
  <2> QED BY <2>4, <2>6
<1>16. Size(tms)' = Size(tms)
  BY <1>7, <1>10 DEF Size
<1>17. LoopInv'
  BY <1>1, <1>7, <1>15, <1>16 DEF LoopInv
<1> QED BY <1>12, <1>13, <1>14, <1>17

\* When both have ended no event is left.
LEMMA StepReturnsInv ==
    ASSUME PollInv, StepReturns
    PROVE  PollInv'
<1> USE DEF PollInv
<1>1. /\ phase = "tms" /\ (n = end \/ DueSlots = {}) /\ phase' = "idle" /\ n' = 0 /\ end' = 0
      /\ UNCHANGED <<fds, revents, tms, left, prod, ready>>
  BY DEF StepReturns
<1>2. TypeInv'
  BY <1>1 DEF TypeInv
<1>3. LinksAgree' /\ EventsPaired'
  BY <1>1, LinkedAgrees DEF EventsPaired
<1>4. ready = {}
  <2> SUFFICES ASSUME NEW w \in ready PROVE FALSE
    OBVIOUS
  <2>1. PICK i \in n..(end - 1) : DueAt(w, i)
    BY <1>1 DEF LoopInv
  <2>2. w # Nil
    BY NilOK DEF TypeInv
  <2>3. i \in DueSlots
    BY <2>1, <2>2 DEF DueAt, DueSlots
  <2>4. n # end
    BY <2>1 DEF TypeInv
  <2> QED BY <1>1, <2>3, <2>4
<1>5. LoopInv'
  BY <1>1, <1>4 DEF LoopInv
<1> QED BY <1>2, <1>3, <1>5

\* Nothing the invariant speaks of changes.
LEMMA StutterInv ==
    ASSUME PollInv, UNCHANGED <<fds, revents, tms, left, prod, phase, n, end, ready>>
    PROVE  PollInv'
<1> USE DEF PollInv
<1>1. TypeInv' /\ LinksAgree'
  BY LinkedAgrees DEF TypeInv
<1>2. EventsPaired' /\ LoopInv'
  BY DEF EventsPaired, LoopInv, FdAhead, DueAt, EventSlots, Size
<1> QED BY <1>1, <1>2

\* Every step keeps the invariant.
LEMMA PollStep == PollInv /\ [Next]_vars => PollInv'
<1> SUFFICES ASSUME PollInv, [Next]_vars PROVE PollInv'
  OBVIOUS
<1>1. CASE Client
  BY <1>1, AwaitFdInv, AwaitTimeoutInv, CancelInv DEF Client
<1>2. CASE PollTakes(0..MaxDelay)
  BY <1>2, PollStepInv DEF PollTakes
<1>3. CASE Dispatch
  <2>1. CASE CallbackReturns
    BY <2>1, StutterInv DEF CallbackReturns
  <2> QED BY <1>3, <2>1, DispatchFdInv, StartTimeoutsInv, DispatchTimeoutInv, StepReturnsInv DEF Dispatch
<1>4. CASE UNCHANGED vars
  BY <1>4, StutterInv DEF vars
<1> QED BY <1>1, <1>2, <1>3, <1>4 DEF Next

-----------------------------------------------------------------------------
\* Whatever waiters register, cancel and complete, also from callbacks inside
\* step(), both tables and the loops over them satisfy the invariant above
\* (runloop-poll.cpp).
THEOREM PollInvariant == Spec => []PollInv
BY PollInit, PollStep, PTL DEF Spec

\* Waiters and the slots of both tables point at each other, through every
\* reallocation, cancellation and completion (runloop2.h, runloop-poll.cpp).
THEOREM LinksAlwaysAgree == Spec => []LinksAgree
<1>1. PollInv => LinksAgree
  BY DEF PollInv
<1> QED BY <1>1, PollInvariant, PTL

\* The free lists of both tables lead to all the unused slots and no other.
THEOREM FreeListsAlwaysWhole == Spec => []FreeListsWhole
<1>1. PollInv => FreeListsWhole
  BY WholeTable DEF PollInv, TypeInv, FreeListsWhole
<1> QED BY <1>1, PollInvariant, PTL

\* No event is dispatched to another registration than the one it was found
\* for, whatever earlier callbacks did to the slot.
THEOREM EventsAlwaysPaired == Spec => []EventsPaired
<1>1. PollInv => EventsPaired
  BY DEF PollInv
<1> QED BY <1>1, PollInvariant, PTL

\* step() does not return while somebody whose event was found still waits.
THEOREM NoEventEverLost == Spec => []NoEventLost
<1>1. PollInv => NoEventLost
  BY DEF PollInv, LoopInv, NoEventLost
<1> QED BY <1>1, PollInvariant, PTL
=============================================================================

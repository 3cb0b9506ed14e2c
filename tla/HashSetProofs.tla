---------------------------- MODULE HashSetProofs ----------------------------
(***************************************************************************)
(* Proofs about HashSet, for any items, any hashes and tables of any size. *)
(* What keeps probing right is that no slot between the first one probed   *)
(* for an item and its own was never used (Reached), and what makes it end *)
(* is that the two counters count (Sound).                                 *)
(***************************************************************************)
EXTENDS HashSet, FiniteSetTheorems, WellFoundedInduction, NaturalsInduction, TLAPS

\* A table of n slots.
Tables(n) == [0..(n - 1) -> Items \cup {Free, Tomb}]

Holds(s, x) == \E p \in DOMAIN s : s[p] = x

Filled(s) == {p \in DOMAIN s : s[p] # Free}

\* No item is in two slots, and none is behind a slot that was never used, on
\* its way round a table of n slots with the hashes h.
Reached(h, s, n) ==
    /\ \A p, q \in 0..(n - 1) : s[p] = s[q] /\ s[p] \in Items => p = q
    /\ \A x \in Items, i \in 0..(n - 1) : s[(h[x] + i) % n] = x =>
          \A j \in 0..(n - 1) : j < i => s[(h[x] + j) % n] # Free

\* A table of n slots is the set c, and the counters are right.
Sound(h, s, n, used, count, c) ==
    /\ n \in Nat \ {0} /\ s \in Tables(n) /\ Reached(h, s, n)
    /\ used = Cardinality(Filled(s)) /\ used < n
    /\ count = Cardinality(Valid(s))
    /\ c \subseteq Items /\ \A x \in Items : x \in c <=> Holds(s, x)
    /\ IsFiniteSet(c) /\ Cardinality(c) = count

TableInv ==
    /\ hash \in [Items -> Nat]
    /\ Sound(hash, slot, Size(slot), m_used_slots, m_count, content)

\* The iterator has passed, of the items that stayed, those in front of it.
IterInv ==
    /\ pos \in Nat \cup {-1} /\ moved \in BOOLEAN
    /\ stayed \subseteq content /\ seen \in [Items -> Nat]
    /\ pos = -1 => ~moved /\ stayed = {} /\ \A x \in Items : seen[x] = 0
    /\ pos # -1 => \A p \in DOMAIN slot : slot[p] \in stayed =>
                      seen[slot[p]] = IF p <= pos THEN 1 ELSE 0

\* The inductive invariant.
SetInv == TableInv /\ IterInv

-----------------------------------------------------------------------------
(* Numbers.                                                                *)

\* A set of numbers that is not empty has a least one.
LEMMA LeastOfNat ==
    ASSUME NEW T \in SUBSET Nat, T # {}
    PROVE  \E m \in T : \A k \in T : m <= k
<1>1. \A j, k \in Nat : j < k => <<j, k>> \in OpToRel(<, Nat)
  BY Zenon DEF OpToRel
<1>2. PICK R : IsWellFoundedOn(R, Nat) /\ \A j, k \in Nat : j < k => <<j, k>> \in R
  BY <1>1, NatLessThanWellFounded, Zenon
<1>3. T \subseteq Nat /\ T # {} /\ IsWellFoundedOn(R, Nat)
  BY <1>2
<1>4. \E m \in T : \A k \in T : ~(<<k, m>> \in R)
  BY <1>3, WFMin, Zenon
<1>5. PICK m \in T : \A k \in T : ~(<<k, m>> \in R)
  BY <1>4
<1>6. \A k \in T : ~(k < m)
  BY <1>2, <1>5, Zenon
<1> QED BY <1>6

\* The remainder of a number that is given as quotient and remainder.
LEMMA RemainderIs ==
    ASSUME NEW n \in Nat \ {0}, NEW q \in Nat, NEW p \in 0..(n - 1)
    PROVE  (n * q + p) % n = p
OBVIOUS

\* Every number is so given.
LEMMA Remainder ==
    ASSUME NEW n \in Nat \ {0}, NEW a \in Nat
    PROVE  \E q \in Nat : \E p \in 0..(n - 1) : a = n * q + p /\ a % n = p
<1> DEFINE T == {b \in Nat : ~ \E q \in Nat : \E p \in 0..(n - 1) : b = n * q + p}
<1>1. ASSUME T # {} PROVE FALSE
  <2>1. T \in SUBSET Nat
    OBVIOUS
  <2>2. PICK b \in T : \A c \in T : b <= c
    <3> HIDE DEF T
    <3> QED BY <1>1, <2>1, LeastOfNat
  <2>3. b \in Nat /\ ~ \E q \in Nat : \E p \in 0..(n - 1) : b = n * q + p
    OBVIOUS
  <2>4. b >= n
    <3>1. b < n => b \in 0..(n - 1) /\ b = n * 0 + b
      BY <2>3
    <3> QED BY <2>3, <3>1
  <2>5. b - n \in Nat /\ b - n \notin T
    BY <2>2, <2>3, <2>4
  <2>6. PICK q \in Nat, p \in 0..(n - 1) : b - n = n * q + p
    BY <2>5
  <2>7. b = n * (q + 1) + p
    <3>1. n * (q + 1) = n * q + n
      OBVIOUS
    <3> QED BY <2>6, <2>3, <3>1
  <2>8. q + 1 \in Nat
    OBVIOUS
  <2> QED BY <2>3, <2>7, <2>8
<1>2. PICK q \in Nat, p \in 0..(n - 1) : a = n * q + p
  BY <1>1
<1>3. a % n = p
  BY <1>2
<1> QED BY <1>2, <1>3

\* A multiple of n between -n and n is none.
LEMMA SmallMultiple ==
    ASSUME NEW q \in Int, NEW n \in Nat \ {0}, n * q < n, -n < n * q
    PROVE  q = 0
<1>1. q >= 1 => n * q >= n
  OBVIOUS
<1>2. q <= -1 => n * q <= -n
  OBVIOUS
<1> QED BY <1>1, <1>2

\* Places i and j of a ring of n, from h on.
LEMMA RingOnce ==
    ASSUME NEW n \in Nat \ {0}, NEW h \in Nat, NEW i \in 0..(n - 1), NEW j \in 0..(n - 1),
           (h + i) % n = (h + j) % n
    PROVE  i = j
<1>1. h + i \in Nat /\ h + j \in Nat
  OBVIOUS
<1>2. PICK q \in Nat, p \in 0..(n - 1) : h + i = n * q + p /\ (h + i) % n = p
  BY <1>1, Remainder
<1>3. PICK t \in Nat, r \in 0..(n - 1) : h + j = n * t + r /\ (h + j) % n = r
  BY <1>1, Remainder
<1>4. p = r
  BY <1>2, <1>3
<1>5. i - j = n * q - n * t
  BY <1>2, <1>3, <1>4
<1>6. n * (q - t) = n * q - n * t
  OBVIOUS
<1>7. q - t \in Int /\ n * (q - t) < n /\ -n < n * (q - t)
  BY <1>5, <1>6
<1>8. q - t = 0
  BY <1>7, SmallMultiple
<1> QED BY <1>5, <1>6, <1>8

\* A probe that goes on for a full round comes by every slot.
LEMMA RingAll ==
    ASSUME NEW n \in Nat \ {0}, NEW h \in Nat, NEW p \in 0..(n - 1)
    PROVE  \E i \in 0..(n - 1) : (h + i) % n = p
<1>1. PICK q \in Nat, r \in 0..(n - 1) : h = n * q + r
  <2>1. n \in Nat \ {0} /\ h \in Nat
    OBVIOUS
  <2> QED BY ONLY <2>1, Remainder
<1>2. CASE r <= p
  <2>1. h + (p - r) = n * q + p /\ p - r \in 0..(n - 1) /\ h + (p - r) \in Nat
    BY <1>1, <1>2
  <2>2. (h + (p - r)) % n = p
    BY <2>1, RemainderIs
  <2> QED BY <2>1, <2>2
<1>3. CASE p < r
  <2>1. h + (p - r + n) = n * (q + 1) + p /\ p - r + n \in 0..(n - 1) /\ h + (p - r + n) \in Nat
    <3>1. n * (q + 1) = n * q + n
      OBVIOUS
    <3> QED BY <1>1, <1>3, <3>1
  <2>2. (h + (p - r + n)) % n = p
    <3>1. q + 1 \in Nat /\ (n * (q + 1) + p) % n = p
      BY RemainderIs
    <3> QED BY <2>1, <3>1
  <2> QED BY <2>1, <2>2
<1> QED BY <1>2, <1>3

\* Min is the least of a set of numbers.
LEMMA MinOfNat ==
    ASSUME NEW T \in SUBSET Nat, T # {}
    PROVE  Min(T) \in T /\ \A k \in T : Min(T) <= k
BY LeastOfNat DEF Min

-----------------------------------------------------------------------------
(* Tables.                                                                 *)

\* A table of n slots has n.
LEMMA SizeIs ==
    ASSUME NEW n \in Nat, NEW s, DOMAIN s = 0..(n - 1)
    PROVE  Size(s) = n
<1>1. Cardinality(0..(n - 1)) = n
  BY FS_Interval
<1> QED BY <1>1 DEF Size

\* What a table of n slots is.
LEMMA TableIs ==
    ASSUME NEW n \in Nat, NEW s \in Tables(n)
    PROVE  /\ DOMAIN s = 0..(n - 1) /\ Size(s) = n
           /\ \A p \in 0..(n - 1) : s[p] \in Items \cup {Free, Tomb}
<1>1. DOMAIN s = 0..(n - 1)
  BY DEF Tables
<1>2. \A p \in 0..(n - 1) : s[p] \in Items \cup {Free, Tomb}
  BY DEF Tables
<1> QED BY <1>1, <1>2, SizeIs

\* A table in which fewer slots than it has were used has one that was not.
LEMMA FreeSlot ==
    ASSUME NEW n \in Nat \ {0}, NEW s \in Tables(n), Cardinality(Filled(s)) < n
    PROVE  \E p \in 0..(n - 1) : s[p] = Free
<1>1. SUFFICES ASSUME \A p \in 0..(n - 1) : s[p] # Free PROVE FALSE
  OBVIOUS
<1>2. Filled(s) = 0..(n - 1)
  BY <1>1, TableIs DEF Filled
<1>3. Cardinality(0..(n - 1)) = n
  BY FS_Interval
<1> QED BY <1>2, <1>3

\* Its slots that are used are finitely many, and no fewer than its items.
LEMMA FiniteParts ==
    ASSUME NEW n \in Nat, NEW s \in Tables(n)
    PROVE  /\ IsFiniteSet(Filled(s)) /\ IsFiniteSet(Valid(s))
           /\ Cardinality(Filled(s)) \in Nat /\ Cardinality(Valid(s)) \in Nat
           /\ Cardinality(Valid(s)) <= Cardinality(Filled(s))
<1>1. IsFiniteSet(0..(n - 1))
  BY FS_Interval
<1>2. Filled(s) \subseteq 0..(n - 1) /\ Valid(s) \subseteq Filled(s)
  BY TableIs, HashSetOK DEF Filled, Valid
<1>3. IsFiniteSet(Filled(s))
  BY <1>1, <1>2, FS_Subset
<1>4. IsFiniteSet(Valid(s)) /\ Cardinality(Valid(s)) <= Cardinality(Filled(s))
  BY <1>2, <1>3, FS_Subset
<1> QED BY <1>3, <1>4, FS_CardinalityType

\* A probe for any item ends, if only at a slot that was never used.
LEMMA StopsSomewhere ==
    ASSUME NEW n \in Nat \ {0}, NEW s \in Tables(n), hash \in [Items -> Nat],
           NEW x \in Items, NEW p \in 0..(n - 1), s[p] = Free
    PROVE  Stops(s, x, TRUE) # {} /\ Stops(s, x, FALSE) # {}
<1>1. hash[x] \in Nat /\ Size(s) = n
  BY TableIs
<1>2. PICK i \in 0..(n - 1) : (hash[x] + i) % n = p
  BY <1>1, RingAll
<1>3. s[Probe(s, x, i)] = Free
  BY <1>1, <1>2 DEF Probe
<1> QED BY <1>1, <1>2, <1>3 DEF Stops

\* Where a probe is.
LEMMA ProbeIn ==
    ASSUME NEW n \in Nat \ {0}, NEW s \in Tables(n), hash \in [Items -> Nat],
           NEW x \in Items, NEW i \in Nat
    PROVE  Probe(s, x, i) = (hash[x] + i) % n /\ Probe(s, x, i) \in 0..(n - 1)
<1>1. hash[x] \in Nat /\ Size(s) = n
  BY TableIs
<1>2. hash[x] + i \in Nat
  BY <1>1
<1>3. (hash[x] + i) % n \in 0..(n - 1)
  BY <1>2, Remainder
<1> QED BY <1>1, <1>3 DEF Probe

\* The first stop.
LEMMA FirstStop ==
    ASSUME NEW n \in Nat \ {0}, NEW s \in Tables(n), hash \in [Items -> Nat],
           NEW x \in Items
    PROVE  /\ Stops(s, x, TRUE) # {} =>
                 LET m == Min(Stops(s, x, TRUE))
                 IN  /\ m \in 0..(n - 1) /\ \A i \in Stops(s, x, TRUE) : m <= i
                     /\ Probe(s, x, m) \in 0..(n - 1)
                     /\ s[Probe(s, x, m)] = Free \/ s[Probe(s, x, m)] = x
           /\ Stops(s, x, FALSE) # {} =>
                 LET m == Min(Stops(s, x, FALSE))
                 IN  /\ m \in 0..(n - 1) /\ \A i \in Stops(s, x, FALSE) : m <= i
                     /\ Probe(s, x, m) \in 0..(n - 1)
                     /\ s[Probe(s, x, m)] = Free
<1>1. Size(s) = n
  BY TableIs
<1>2. /\ Stops(s, x, TRUE) \in SUBSET Nat /\ Stops(s, x, FALSE) \in SUBSET Nat
      /\ \A i \in Stops(s, x, TRUE) :
            i \in 0..(n - 1) /\ (s[Probe(s, x, i)] = Free \/ s[Probe(s, x, i)] = x)
      /\ \A i \in Stops(s, x, FALSE) : i \in 0..(n - 1) /\ s[Probe(s, x, i)] = Free
  BY <1>1 DEF Stops
<1>3. ASSUME Stops(s, x, TRUE) # {}
      PROVE  LET m == Min(Stops(s, x, TRUE))
             IN  /\ m \in 0..(n - 1) /\ \A i \in Stops(s, x, TRUE) : m <= i
                 /\ Probe(s, x, m) \in 0..(n - 1)
                 /\ s[Probe(s, x, m)] = Free \/ s[Probe(s, x, m)] = x
  <2>1. PICK m : m = Min(Stops(s, x, TRUE))
    OBVIOUS
  <2>2. m \in Stops(s, x, TRUE) /\ \A i \in Stops(s, x, TRUE) : m <= i
    BY <1>2, <1>3, <2>1, MinOfNat
  <2>3. m \in 0..(n - 1) /\ Probe(s, x, m) \in 0..(n - 1)
    BY <1>2, <2>2, ProbeIn
  <2> QED BY <1>2, <2>1, <2>2, <2>3
<1>4. ASSUME Stops(s, x, FALSE) # {}
      PROVE  LET m == Min(Stops(s, x, FALSE))
             IN  /\ m \in 0..(n - 1) /\ \A i \in Stops(s, x, FALSE) : m <= i
                 /\ Probe(s, x, m) \in 0..(n - 1)
                 /\ s[Probe(s, x, m)] = Free
  <2>1. PICK m : m = Min(Stops(s, x, FALSE))
    OBVIOUS
  <2>2. m \in Stops(s, x, FALSE) /\ \A i \in Stops(s, x, FALSE) : m <= i
    BY <1>2, <1>4, <2>1, MinOfNat
  <2>3. m \in 0..(n - 1) /\ Probe(s, x, m) \in 0..(n - 1)
    BY <1>2, <2>2, ProbeIn
  <2> QED BY <1>2, <2>1, <2>2, <2>3
<1> QED BY <1>3, <1>4

\* If the item is there, the first stop is at the item.
LEMMA StopsAtItem ==
    ASSUME NEW n \in Nat \ {0}, NEW s \in Tables(n), hash \in [Items -> Nat],
           Reached(hash, s, n), NEW x \in Items, NEW p \in 0..(n - 1), s[p] = x
    PROVE  Stops(s, x, TRUE) # {} /\ Probe(s, x, Min(Stops(s, x, TRUE))) = p
<1>1. PICK i \in Stops(s, x, TRUE) : Probe(s, x, i) = p
  <2>1. hash[x] \in Nat /\ Size(s) = n
    BY TableIs
  <2>2. PICK i \in 0..(n - 1) : (hash[x] + i) % n = p
    BY <2>1, RingAll
  <2>3. Probe(s, x, i) = p
    BY <2>1, <2>2 DEF Probe
  <2>4. i \in Stops(s, x, TRUE)
    BY <2>1, <2>2, <2>3 DEF Stops
  <2> QED BY <2>3, <2>4
<1>2. PICK m : m = Min(Stops(s, x, TRUE))
  OBVIOUS
<1>3. Size(s) = n /\ i \in 0..(n - 1)
  BY <1>1, TableIs DEF Stops
<1>4. /\ m \in 0..(n - 1) /\ m <= i /\ Probe(s, x, m) \in 0..(n - 1)
      /\ s[Probe(s, x, m)] = Free \/ s[Probe(s, x, m)] = x
  BY <1>1, <1>2, FirstStop
<1>5. s[Probe(s, x, m)] = x
  <2>1. CASE m = i
    BY <1>1, <2>1
  <2>2. CASE m # i
    <3>1. m < i
      BY <1>3, <1>4, <2>2
    <3>2. s[(hash[x] + i) % n] = x
      BY <1>1, <1>3, ProbeIn
    <3>3. s[(hash[x] + m) % n] # Free
      BY <1>3, <1>4, <3>1, <3>2 DEF Reached
    <3>4. s[Probe(s, x, m)] # Free
      BY <1>4, <3>3, ProbeIn
    <3> QED BY <1>4, <3>4
  <2> QED BY <2>1, <2>2
<1>6. Probe(s, x, m) = p
  BY <1>4, <1>5 DEF Reached
<1> QED BY <1>1, <1>2, <1>6

\* find_pos_const() finds what is there, and nothing else.
LEMMA FindPosIs ==
    ASSUME NEW n \in Nat \ {0}, NEW s \in Tables(n), hash \in [Items -> Nat],
           Reached(hash, s, n), NEW x \in Items,
           Cardinality(Filled(s)) < n
    PROVE  /\ \A p \in 0..(n - 1) : s[p] = x => FindPos(s, x) = p
           /\ ~Holds(s, x) => FindPos(s, x) = -1
<1>1. ASSUME NEW p \in 0..(n - 1), s[p] = x PROVE FindPos(s, x) = p
  BY <1>1, StopsAtItem DEF FindPos
<1>2. ASSUME ~Holds(s, x) PROVE FindPos(s, x) = -1
  <2>1. PICK p \in 0..(n - 1) : s[p] = Free
    BY FreeSlot
  <2>2. Stops(s, x, TRUE) # {}
    BY <2>1, StopsSomewhere
  <2>3. Probe(s, x, Min(Stops(s, x, TRUE))) \in DOMAIN s
    BY <2>2, FirstStop, TableIs
  <2> QED BY <1>2, <2>3 DEF Holds, FindPos
<1> QED BY <1>1, <1>2

\* Slot k on the way round for x is the first that is not in use.
FirstUnused(s, x, k, n) ==
    /\ k \in 0..(n - 1) /\ s[(hash[x] + k) % n] \in {Free, Tomb}
    /\ \A j \in 0..(n - 1) : j < k => s[(hash[x] + j) % n] \notin {Free, Tomb}

\* What find_pos_full() returns when its loop ends after `end' slots.
Chosen(s, x, end) ==
    LET way == {i \in 0..end : s[Probe(s, x, i)] \in {Free, Tomb}}
    IN  Probe(s, x, IF s[Probe(s, x, end)] = x \/ way = {} THEN end ELSE Min(way))

\* It is the first unused slot if the item is not there.
LEMMA FirstUnusedIs ==
    ASSUME NEW n \in Nat \ {0}, NEW s \in Tables(n), hash \in [Items -> Nat],
           NEW x \in Items, ~Holds(s, x), NEW end \in 0..(n - 1),
           s[Probe(s, x, end)] = Free
    PROVE  \E k \in 0..(n - 1) :
              FirstUnused(s, x, k, n) /\ Chosen(s, x, end) = (hash[x] + k) % n
<1>0. PICK f : f = Chosen(s, x, end)
  OBVIOUS
<1> DEFINE way == {i \in 0..end : s[Probe(s, x, i)] \in {Free, Tomb}}
<1>1. end \in way /\ way \in SUBSET Nat
  OBVIOUS
<1>2. PICK k : k = Min(way)
  OBVIOUS
<1>3. f = Probe(s, x, k)
  <2>1. s[Probe(s, x, end)] # x
    BY HashSetOK
  <2> QED BY <1>0, <1>1, <1>2, <2>1 DEF Chosen
<1>4. k \in way /\ \A j \in way : k <= j
  <2> HIDE DEF way
  <2> QED BY <1>1, <1>2, MinOfNat
<1>5. k \in 0..(n - 1) /\ s[(hash[x] + k) % n] \in {Free, Tomb} /\ f = (hash[x] + k) % n
  <2>1. k \in 0..end /\ s[Probe(s, x, k)] \in {Free, Tomb}
    BY <1>4
  <2>2. k \in Nat /\ k \in 0..(n - 1)
    BY <2>1
  <2> QED BY <1>3, <2>1, <2>2, ProbeIn
<1>6. ASSUME NEW j \in 0..(n - 1), j < k, s[(hash[x] + j) % n] \in {Free, Tomb} PROVE FALSE
  <2>1. s[Probe(s, x, j)] \in {Free, Tomb}
    BY <1>6, ProbeIn
  <2>2. j \in 0..end
    BY <1>4, <1>6
  <2> QED BY <1>4, <1>6, <2>1, <2>2
<1> QED BY <1>0, <1>5, <1>6 DEF FirstUnused

\* find_pos_insert() of an item that is not there, and the search of rehash().
LEMMA FindInsertNew ==
    ASSUME NEW n \in Nat \ {0}, NEW s \in Tables(n), hash \in [Items -> Nat],
           NEW x \in Items, ~Holds(s, x), Cardinality(Filled(s)) < n
    PROVE  /\ \E k \in 0..(n - 1) :
                 FirstUnused(s, x, k, n) /\ FindInsert(s, x, TRUE) = (hash[x] + k) % n
           /\ \E k \in 0..(n - 1) :
                 FirstUnused(s, x, k, n) /\ FindInsert(s, x, FALSE) = (hash[x] + k) % n
<1>1. Stops(s, x, TRUE) # {} /\ Stops(s, x, FALSE) # {}
  BY FreeSlot, StopsSomewhere
<1>2. \A p \in 0..(n - 1) : s[p] # x
  BY TableIs DEF Holds
<1>3. PICK e : e = Min(Stops(s, x, TRUE))
  OBVIOUS
<1>4. e \in 0..(n - 1) /\ s[Probe(s, x, e)] = Free
  BY <1>1, <1>2, <1>3, FirstStop
<1>5. FindInsert(s, x, TRUE) = Chosen(s, x, e)
  BY <1>3 DEF FindInsert, Chosen
<1>6. \E k \in 0..(n - 1) : FirstUnused(s, x, k, n) /\ Chosen(s, x, e) = (hash[x] + k) % n
  BY <1>4, FirstUnusedIs
<1>7. PICK d : d = Min(Stops(s, x, FALSE))
  OBVIOUS
<1>8. d \in 0..(n - 1) /\ s[Probe(s, x, d)] = Free
  BY <1>1, <1>7, FirstStop
<1>9. FindInsert(s, x, FALSE) = Chosen(s, x, d)
  BY <1>7 DEF FindInsert, Chosen
<1>10. \E k \in 0..(n - 1) : FirstUnused(s, x, k, n) /\ Chosen(s, x, d) = (hash[x] + k) % n
  BY <1>8, FirstUnusedIs
<1> QED BY <1>5, <1>6, <1>9, <1>10

\* find_pos_insert() of an item that is there.
LEMMA FindInsertOld ==
    ASSUME NEW n \in Nat \ {0}, NEW s \in Tables(n), hash \in [Items -> Nat],
           Reached(hash, s, n), NEW x \in Items, NEW p \in 0..(n - 1), s[p] = x
    PROVE  FindInsert(s, x, TRUE) = p
<1>1. PICK e : e = Min(Stops(s, x, TRUE))
  OBVIOUS
<1>2. Probe(s, x, e) = p
  BY <1>1, StopsAtItem
<1> QED BY <1>1, <1>2 DEF FindInsert

\* An item put into the first unused slot on its way.
LEMMA PutReached ==
    ASSUME NEW n \in Nat \ {0}, NEW s \in Tables(n), hash \in [Items -> Nat],
           Reached(hash, s, n), NEW x \in Items, ~Holds(s, x),
           NEW k \in 0..(n - 1), FirstUnused(s, x, k, n),
           NEW p, p = (hash[x] + k) % n, NEW t, t = [s EXCEPT ![p] = x]
    PROVE  /\ p \in 0..(n - 1) /\ s[p] \in {Free, Tomb}
           /\ t \in Tables(n) /\ Reached(hash, t, n)
<1>1. p \in 0..(n - 1)
  <2>1. hash[x] + k \in Nat
    OBVIOUS
  <2> QED BY <2>1, Remainder
<1>2. s[p] \in {Free, Tomb} /\ x \notin {Free, Tomb}
  BY HashSetOK DEF FirstUnused
<1>3. t \in Tables(n) /\ \A q \in 0..(n - 1) : t[q] = IF q = p THEN x ELSE s[q]
  BY <1>1 DEF Tables
<1>4. \A q \in 0..(n - 1) : s[q] # x
  BY TableIs DEF Holds
<1>5. ASSUME NEW a \in 0..(n - 1), NEW b \in 0..(n - 1), t[a] = t[b], t[a] \in Items
      PROVE  a = b
  <2>1. CASE a = p \/ b = p
    BY <1>3, <1>4, <1>5, <2>1
  <2>2. CASE a # p /\ b # p
    BY <1>3, <1>5, <2>2 DEF Reached
  <2> QED BY <2>1, <2>2
<1>6. ASSUME NEW y \in Items, NEW i \in 0..(n - 1), t[(hash[y] + i) % n] = y,
             NEW j \in 0..(n - 1), j < i
      PROVE  t[(hash[y] + j) % n] # Free
  <2>1. PICK a \in 0..(n - 1) : a = (hash[y] + i) % n
    <3>1. hash[y] + i \in Nat
      OBVIOUS
    <3> QED BY <3>1, Remainder
  <2>2. PICK b \in 0..(n - 1) : b = (hash[y] + j) % n
    <3>1. hash[y] + j \in Nat
      OBVIOUS
    <3> QED BY <3>1, Remainder
  <2>3. t[a] = y
    BY <1>6, <2>1
  <2>4. SUFFICES t[b] # Free
    BY <2>2
  <2>5. CASE b = p
    BY <1>2, <1>3, <2>5
  <2>6. CASE b # p /\ a # p
    <3>1. s[(hash[y] + i) % n] = y
      BY <1>3, <2>1, <2>3, <2>6
    <3>2. s[(hash[y] + j) % n] # Free
      BY <1>6, <3>1 DEF Reached
    <3> QED BY <1>3, <2>2, <2>6, <3>2
  <2>7. CASE b # p /\ a = p
    <3>1. y = x
      BY <1>3, <2>3, <2>7
    <3>2. hash[x] \in Nat /\ (hash[x] + i) % n = (hash[x] + k) % n
      BY <2>1, <2>7, <3>1
    <3>3. i = k
      BY <3>2, RingOnce
    <3>4. s[(hash[x] + j) % n] # Free
      BY <1>6, <3>3 DEF FirstUnused
    <3> QED BY <1>3, <2>2, <2>7, <3>1, <3>4
  <2> QED BY <2>5, <2>6, <2>7
<1>7. Reached(hash, t, n)
  BY <1>5, <1>6 DEF Reached
<1> QED BY <1>1, <1>2, <1>3, <1>7

\* And what that counts for.
LEMMA PutCounts ==
    ASSUME NEW n \in Nat \ {0}, NEW s \in Tables(n),
           NEW x \in Items, NEW p \in 0..(n - 1), s[p] \in {Free, Tomb},
           NEW t \in Tables(n), \A q \in 0..(n - 1) : t[q] = IF q = p THEN x ELSE s[q]
    PROVE  /\ Cardinality(Valid(t)) = Cardinality(Valid(s)) + 1
           /\ s[p] = Free => Cardinality(Filled(t)) = Cardinality(Filled(s)) + 1
           /\ s[p] # Free => Cardinality(Filled(t)) = Cardinality(Filled(s))
           /\ \A y \in Items : Holds(t, y) <=> Holds(s, y) \/ y = x
<1>1. /\ \A q \in 0..(n - 1) : t[q] = IF q = p THEN x ELSE s[q]
      /\ DOMAIN t = 0..(n - 1) /\ DOMAIN s = 0..(n - 1)
  BY DEF Tables
<1>2. x \notin {Free, Tomb} /\ s[p] \notin Items
  BY HashSetOK
<1>3. IsFiniteSet(Filled(s)) /\ IsFiniteSet(Valid(s))
  BY FiniteParts
<1>4. Valid(t) = Valid(s) \cup {p} /\ p \notin Valid(s)
  BY <1>1, <1>2 DEF Valid
<1>5. Cardinality(Valid(t)) = Cardinality(Valid(s)) + 1
  BY <1>3, <1>4, FS_AddElement
<1>6. Filled(t) = Filled(s) \cup {p} /\ (p \in Filled(s) <=> s[p] # Free)
  BY <1>1, <1>2 DEF Filled
<1>7. /\ s[p] = Free => Cardinality(Filled(t)) = Cardinality(Filled(s)) + 1
      /\ s[p] # Free => Cardinality(Filled(t)) = Cardinality(Filled(s))
  <2>1. CASE s[p] = Free
    <3>1. Cardinality(Filled(t)) = Cardinality(Filled(s)) + 1
      BY <1>3, <1>6, <2>1, FS_AddElement
    <3> QED BY <2>1, <3>1
  <2>2. CASE s[p] # Free
    <3>1. Filled(t) = Filled(s)
      BY <1>6, <2>2
    <3> QED BY <2>2, <3>1
  <2> QED BY <2>1, <2>2
<1>8. \A y \in Items : Holds(t, y) <=> Holds(s, y) \/ y = x
  BY <1>1, <1>2 DEF Holds
<1> QED BY <1>5, <1>7, <1>8

\* A slot becomes a tombstone, which bars nobody's way.
LEMMA TombReached ==
    ASSUME NEW n \in Nat \ {0}, NEW s \in Tables(n), hash \in [Items -> Nat],
           Reached(hash, s, n), NEW p \in 0..(n - 1), s[p] \in Items,
           NEW t \in Tables(n), \A q \in 0..(n - 1) : t[q] = IF q = p THEN Tomb ELSE s[q]
    PROVE  /\ Reached(hash, t, n)
           /\ Cardinality(Valid(t)) = Cardinality(Valid(s)) - 1
           /\ Filled(t) = Filled(s)
           /\ \A y \in Items : Holds(t, y) <=> Holds(s, y) /\ y # s[p]
<1>1. /\ \A q \in 0..(n - 1) : t[q] = IF q = p THEN Tomb ELSE s[q]
      /\ DOMAIN t = 0..(n - 1) /\ DOMAIN s = 0..(n - 1)
  BY DEF Tables
<1>2. Tomb \notin Items /\ Tomb # Free /\ Free \notin Items
  BY HashSetOK
<1>3. ASSUME NEW a \in 0..(n - 1), NEW b \in 0..(n - 1), t[a] = t[b], t[a] \in Items
      PROVE  a = b
  BY <1>1, <1>2, <1>3 DEF Reached
<1>4. ASSUME NEW y \in Items, NEW i \in 0..(n - 1), t[(hash[y] + i) % n] = y,
             NEW j \in 0..(n - 1), j < i
      PROVE  t[(hash[y] + j) % n] # Free
  <2>1. PICK a \in 0..(n - 1) : a = (hash[y] + i) % n
    <3>1. hash[y] + i \in Nat
      OBVIOUS
    <3> QED BY <3>1, Remainder
  <2>2. PICK b \in 0..(n - 1) : b = (hash[y] + j) % n
    <3>1. hash[y] + j \in Nat
      OBVIOUS
    <3> QED BY <3>1, Remainder
  <2>3. s[(hash[y] + i) % n] = y
    BY <1>1, <1>2, <1>4, <2>1
  <2>4. s[(hash[y] + j) % n] # Free
    BY <1>4, <2>3 DEF Reached
  <2>5. s[b] # Free /\ b \in 0..(n - 1)
    BY <2>2, <2>4
  <2>6. t[b] # Free
    BY <1>1, <1>2, <2>5
  <2> QED BY <2>2, <2>6
<1>5. Reached(hash, t, n)
  BY <1>3, <1>4 DEF Reached
<1>6. Valid(t) = Valid(s) \ {p} /\ p \in Valid(s)
  BY <1>1, <1>2 DEF Valid
<1>7. Cardinality(Valid(t)) = Cardinality(Valid(s)) - 1
  <2>1. IsFiniteSet(Valid(s))
    BY FiniteParts
  <2> QED BY ONLY <1>6, <2>1, FS_RemoveElement
<1>8. Filled(t) = Filled(s)
  BY <1>1, <1>2 DEF Filled
<1>9. \A y \in Items : Holds(t, y) <=> Holds(s, y) /\ y # s[p]
  BY <1>1, <1>2 DEF Holds, Reached
<1> QED BY <1>5, <1>7, <1>8, <1>9

-----------------------------------------------------------------------------
(* The loop of rehash().                                                   *)

\* A table nobody has used holds nothing, and nothing is missing from it.
LEMMA EmptyTable ==
    ASSUME NEW n \in Nat \ {0}, hash \in [Items -> Nat], NEW t, t = Empty(n)
    PROVE  /\ t \in Tables(n) /\ Reached(hash, t, n)
           /\ Valid(t) = {} /\ Filled(t) = {}
           /\ \A x \in Items : ~Holds(t, x)
<1>1. t \in Tables(n) /\ DOMAIN t = 0..(n - 1) /\ \A p \in 0..(n - 1) : t[p] = Free
  BY DEF Empty, Tables
<1>2. Valid(t) = {} /\ Filled(t) = {} /\ \A x \in Items : ~Holds(t, x)
  BY <1>1, HashSetOK DEF Valid, Filled, Holds
<1>3. ASSUME NEW x \in Items, NEW i \in 0..(n - 1), t[(hash[x] + i) % n] = x,
             NEW j \in 0..(n - 1), j < i
      PROVE  t[(hash[x] + j) % n] # Free
  <2>1. hash[x] + i \in Nat
    OBVIOUS
  <2>2. (hash[x] + i) % n \in 0..(n - 1)
    BY <2>1, Remainder
  <2> QED BY <1>1, <1>3, <2>2, HashSetOK
<1>4. Reached(hash, t, n)
  BY <1>1, <1>3, HashSetOK DEF Reached
<1> QED BY <1>1, <1>2, <1>4

\* One turn that finds an item in the old table.
LEMMA RefilledIs ==
    ASSUME NEW n \in Nat \ {0}, NEW s \in Tables(n), hash \in [Items -> Nat],
           Reached(hash, s, n), Filled(s) = Valid(s), Cardinality(Valid(s)) < n,
           NEW x \in Items, ~Holds(s, x), NEW t, t = Refilled(s, x)
    PROVE  /\ t \in Tables(n) /\ Reached(hash, t, n) /\ Filled(t) = Valid(t)
           /\ Cardinality(Valid(t)) = Cardinality(Valid(s)) + 1
           /\ \A y \in Items : Holds(t, y) <=> Holds(s, y) \/ y = x
<1>1. PICK k \in 0..(n - 1) :
         FirstUnused(s, x, k, n) /\ FindInsert(s, x, FALSE) = (hash[x] + k) % n
  BY FindInsertNew
<1>2. PICK p : p = (hash[x] + k) % n
  OBVIOUS
<1>3. t = [s EXCEPT ![p] = x]
  BY <1>1, <1>2 DEF Refilled
<1>4. p \in 0..(n - 1) /\ s[p] \in {Free, Tomb} /\ t \in Tables(n) /\ Reached(hash, t, n)
  BY <1>1, <1>2, <1>3, PutReached
<1>5. /\ Cardinality(Valid(t)) = Cardinality(Valid(s)) + 1
      /\ \A y \in Items : Holds(t, y) <=> Holds(s, y) \/ y = x
  <2>1. \A q \in 0..(n - 1) : t[q] = IF q = p THEN x ELSE s[q]
    BY <1>3, <1>4 DEF Tables
  <2> QED BY <1>4, <2>1, PutCounts
<1>6. Filled(t) = Valid(t)
  <2>1. /\ \A q \in 0..(n - 1) : t[q] = IF q = p THEN x ELSE s[q]
        /\ DOMAIN t = 0..(n - 1) /\ DOMAIN s = 0..(n - 1)
    BY <1>3, <1>4 DEF Tables
  <2> QED BY <2>1, HashSetOK DEF Filled, Valid
<1> QED BY <1>4, <1>5, <1>6

\* The loop, k turns of it into a table of m slots.
Turns(f, s, m, k) ==
    /\ f = [i \in 0..k |-> f[i]]
    /\ f[0] = Empty(m)
    /\ \A i \in 0..k : i # 0 => f[i] = Refilled(f[i - 1], s[i - 1])

\* The loop of rehash() in turns,
LEMMA LoopRuns ==
    ASSUME NEW s, NEW m, NEW n \in Nat
    PROVE  \E f : Turns(f, s, m, n)
<1> DEFINE T == {k \in Nat : ~ \E f : Turns(f, s, m, k)}
<1>1. ASSUME T # {} PROVE FALSE
  <2>1. T \in SUBSET Nat
    OBVIOUS
  <2>2. PICK k \in T : \A c \in T : k <= c
    <3> HIDE DEF T
    <3> QED BY <1>1, <2>1, LeastOfNat
  <2>3. k \in Nat /\ ~ \E f : Turns(f, s, m, k)
    OBVIOUS
  <2>4. CASE k = 0
    <3>1. PICK f : f = [i \in 0..0 |-> Empty(m)]
      OBVIOUS
    <3>2. f = [i \in 0..0 |-> f[i]] /\ f[0] = Empty(m)
      BY <3>1
    <3>3. Turns(f, s, m, 0)
      BY <3>2 DEF Turns
    <3> QED BY <2>3, <2>4, <3>3
  <2>5. CASE k # 0
    <3>1. k - 1 \in Nat /\ k - 1 \notin T
      BY <2>2, <2>3, <2>5
    <3>2. PICK f : Turns(f, s, m, k - 1)
      BY <3>1
    <3>3. PICK g : g = [i \in 0..k |-> IF i = k THEN Refilled(f[k - 1], s[k - 1]) ELSE f[i]]
      OBVIOUS
    <3>4. \A i \in 0..k : g[i] = IF i = k THEN Refilled(f[k - 1], s[k - 1]) ELSE f[i]
      BY <3>3
    <3>5. g = [i \in 0..k |-> g[i]]
      BY <3>3
    <3>6. g[0] = Empty(m)
      <4>1. f[0] = Empty(m)
        BY <3>2 DEF Turns
      <4>2. 0 \in 0..k /\ 0 # k
        BY <2>3, <2>5
      <4> QED BY <3>4, <4>1, <4>2
    <3>7. ASSUME NEW i \in 0..k, i # 0 PROVE g[i] = Refilled(g[i - 1], s[i - 1])
      <4>1. i - 1 \in 0..k /\ i - 1 # k /\ g[i - 1] = f[i - 1]
        BY <2>3, <3>4, <3>7
      <4>2. CASE i = k
        BY <3>4, <4>1, <4>2
      <4>3. CASE i # k
        <5>1. i \in 0..(k - 1)
          BY <2>3, <4>3
        <5> QED BY <3>2, <3>4, <3>7, <4>1, <4>3, <5>1 DEF Turns
      <4> QED BY <4>2, <4>3
    <3>8. Turns(g, s, m, k)
      BY <3>5, <3>6, <3>7 DEF Turns
    <3> QED BY <2>3, <3>8
  <2> QED BY <2>4, <2>5
<1> QED BY <1>1

\* of which its result is the last.
LEMMA RehashLoops ==
    ASSUME NEW n \in Nat, NEW s \in Tables(n), NEW m
    PROVE  \E f : Turns(f, s, m, n) /\ Rehash(s, m) = f[n]
<1>1. Size(s) = n
  BY TableIs
<1> DEFINE Loop(f) == f = [i \in 0..Size(s) |->
                             IF i = 0 THEN Empty(m) ELSE Refilled(f[i - 1], s[i - 1])]
<1>2. PICK e : Turns(e, s, m, n)
  BY LoopRuns
<1>3. Loop(e)
  <2>1. e = [i \in 0..n |-> e[i]]
    BY <1>2 DEF Turns
  <2>2. \A i \in 0..n : e[i] = IF i = 0 THEN Empty(m) ELSE Refilled(e[i - 1], s[i - 1])
    BY <1>2 DEF Turns
  <2> QED BY <1>1, <2>1, <2>2
<1>4. PICK f : f = CHOOSE g : Loop(g)
  OBVIOUS
<1>5. Loop(f)
  <2> HIDE DEF Loop
  <2> QED BY <1>3, <1>4
<1>6. Rehash(s, m) = f[n]
  BY <1>1, <1>4 DEF Rehash
<1>7. Turns(f, s, m, n)
  <2>1. f = [i \in 0..n |-> IF i = 0 THEN Empty(m) ELSE Refilled(f[i - 1], s[i - 1])]
    BY <1>1, <1>5
  <2>2. \A i \in 0..n : f[i] = IF i = 0 THEN Empty(m) ELSE Refilled(f[i - 1], s[i - 1])
    BY <2>1
  <2>3. f = [i \in 0..n |-> f[i]]
    BY <2>1, <2>2
  <2> QED BY <2>2, <2>3 DEF Turns
<1> QED BY <1>6, <1>7

\* The slots of items that the first i turns have met.
Met(s, i) == {q \in DOMAIN s : q < i /\ s[q] \in Items}

\* After i turns the new table has what they met.
Moved(t, s, m, i) ==
    /\ t \in Tables(m) /\ Reached(hash, t, m) /\ Filled(t) = Valid(t)
    /\ Cardinality(Valid(t)) = Cardinality(Met(s, i))
    /\ \A x \in Items : Holds(t, x) <=> \E q \in Met(s, i) : s[q] = x

\* One turn moves one item, and it can be found.
LEMMA MovedOne ==
    ASSUME NEW n \in Nat \ {0}, NEW s \in Tables(n), hash \in [Items -> Nat],
           Reached(hash, s, n), NEW m \in Nat \ {0}, Cardinality(Valid(s)) < m,
           NEW i \in 0..(n - 1), NEW t, Moved(t, s, m, i)
    PROVE  Moved(Refilled(t, s[i]), s, m, i + 1)
<1>0. DOMAIN s = 0..(n - 1)
  BY DEF Tables
<1>1. CASE s[i] \notin Items
  <2>1. Met(s, i + 1) = Met(s, i)
    BY <1>0, <1>1 DEF Met
  <2>2. Refilled(t, s[i]) = t
    BY <1>1 DEF Refilled
  <2> QED BY <2>1, <2>2 DEF Moved
<1>2. CASE s[i] \in Items
  <2>1. Met(s, i + 1) = Met(s, i) \cup {i} /\ i \notin Met(s, i) /\ Met(s, i) \subseteq Valid(s)
    BY <1>0, <1>2 DEF Met, Valid
  <2>2. IsFiniteSet(Valid(s)) /\ Cardinality(Valid(s)) \in Nat
    BY FiniteParts
  <2>3. /\ IsFiniteSet(Met(s, i)) /\ Cardinality(Met(s, i)) \in Nat
        /\ Cardinality(Met(s, i)) <= Cardinality(Valid(s))
    BY <2>1, <2>2, FS_Subset, FS_CardinalityType
  <2>4. Cardinality(Met(s, i + 1)) = Cardinality(Met(s, i)) + 1
    BY <2>1, <2>3, FS_AddElement
  <2>5. /\ t \in Tables(m) /\ Reached(hash, t, m) /\ Filled(t) = Valid(t)
        /\ Cardinality(Valid(t)) = Cardinality(Met(s, i))
        /\ \A x \in Items : Holds(t, x) <=> \E q \in Met(s, i) : s[q] = x
    BY DEF Moved
  <2>6. Cardinality(Valid(t)) < m
    BY <2>2, <2>3, <2>5
  <2>7. ~Holds(t, s[i])
    <3>1. ASSUME NEW q \in Met(s, i), s[q] = s[i] PROVE FALSE
      <4>1. q \in 0..(n - 1) /\ q < i
        BY <1>0 DEF Met
      <4> QED BY <1>2, <3>1, <4>1 DEF Reached
    <3> QED BY <1>2, <2>5, <3>1
  <2>8. PICK u : u = Refilled(t, s[i])
    OBVIOUS
  <2>9. PICK x \in Items : x = s[i]
    BY <1>2
  <2>10. /\ u \in Tables(m) /\ Reached(hash, u, m) /\ Filled(u) = Valid(u)
         /\ Cardinality(Valid(u)) = Cardinality(Valid(t)) + 1
         /\ \A y \in Items : Holds(u, y) <=> Holds(t, y) \/ y = x
    <3>1. ~Holds(t, x) /\ u = Refilled(t, x)
      BY <2>7, <2>8, <2>9
    <3> QED BY <2>5, <2>6, <3>1, RefilledIs
  <2>11. \A y \in Items : Holds(u, y) <=> \E q \in Met(s, i + 1) : s[q] = y
    BY <2>1, <2>5, <2>9, <2>10
  <2>12. Cardinality(Valid(u)) = Cardinality(Met(s, i + 1))
    BY <2>4, <2>5, <2>10
  <2> QED BY <2>8, <2>10, <2>11, <2>12 DEF Moved
<1> QED BY <1>1, <1>2

\* The new table has the items of the old one and no tombstones, and whatever
\* number of slots was asked for, if they are more than the items.
LEMMA RehashIs ==
    ASSUME NEW n \in Nat \ {0}, NEW s \in Tables(n), hash \in [Items -> Nat],
           Reached(hash, s, n), NEW m \in Nat \ {0}, Cardinality(Valid(s)) < m,
           NEW t, t = Rehash(s, m)
    PROVE  /\ t \in Tables(m) /\ Reached(hash, t, m)
           /\ Cardinality(Valid(t)) = Cardinality(Valid(s))
           /\ Cardinality(Filled(t)) = Cardinality(Valid(s))
           /\ \A x \in Items : Holds(t, x) <=> Holds(s, x)
<1>0. DOMAIN s = 0..(n - 1)
  BY DEF Tables
<1>1. PICK f : Turns(f, s, m, n) /\ t = f[n]
  BY RehashLoops
<1> DEFINE T == {k \in 0..n : ~Moved(f[k], s, m, k)}
<1>2. ASSUME T # {} PROVE FALSE
  <2>1. T \in SUBSET Nat
    OBVIOUS
  <2>2. PICK k \in T : \A c \in T : k <= c
    <3> HIDE DEF T
    <3> QED BY <1>2, <2>1, LeastOfNat
  <2>3. k \in 0..n /\ ~Moved(f[k], s, m, k)
    OBVIOUS
  <2>4. CASE k = 0
    <3>1. f[0] = Empty(m)
      BY <1>1 DEF Turns
    <3>2. Met(s, 0) = {}
      BY <1>0 DEF Met
    <3>3. PICK e : e = f[0]
      OBVIOUS
    <3>4. /\ e \in Tables(m) /\ Reached(hash, e, m)
          /\ Valid(e) = {} /\ Filled(e) = {} /\ \A x \in Items : ~Holds(e, x)
      BY <3>1, <3>3, EmptyTable
    <3>5. Moved(e, s, m, 0)
      BY <3>2, <3>4 DEF Moved
    <3> QED BY <2>3, <2>4, <3>3, <3>5
  <2>5. CASE k # 0
    <3>1. PICK i \in 0..(n - 1) : k = i + 1
      <4>1. k - 1 \in 0..(n - 1) /\ k = (k - 1) + 1
        BY <2>3, <2>5
      <4> QED BY <4>1
    <3>2. i \in 0..n /\ i \notin T
      BY <2>2, <3>1
    <3>3. Moved(f[i], s, m, i)
      BY <3>2
    <3>4. f[k] = Refilled(f[i], s[i])
      <4>1. k - 1 = i
        BY <3>1
      <4> QED BY <1>1, <2>3, <2>5, <4>1 DEF Turns
    <3>5. Moved(Refilled(f[i], s[i]), s, m, i + 1)
      BY <3>3, MovedOne
    <3> QED BY <2>3, <3>1, <3>4, <3>5
  <2> QED BY <2>4, <2>5
<1>3. Moved(t, s, m, n)
  BY <1>1, <1>2
<1>4. Met(s, n) = Valid(s) /\ \A x \in Items : (\E q \in Met(s, n) : s[q] = x) <=> Holds(s, x)
  BY <1>0 DEF Met, Valid, Holds
<1> QED BY <1>3, <1>4 DEF Moved

-----------------------------------------------------------------------------
(* The steps.                                                              *)

\* What is known of the table in use, without the operators around it.
LEMMA InUse ==
    ASSUME TableInv
    PROVE  \E n \in Nat \ {0} :
              /\ Size(slot) = n /\ DOMAIN slot = 0..(n - 1) /\ slot \in Tables(n)
              /\ hash \in [Items -> Nat] /\ Reached(hash, slot, n)
              /\ m_used_slots = Cardinality(Filled(slot)) /\ m_used_slots < n
              /\ m_count = Cardinality(Valid(slot))
              /\ m_used_slots \in Nat /\ m_count \in Nat /\ m_count <= m_used_slots
              /\ content \subseteq Items /\ \A x \in Items : x \in content <=> Holds(slot, x)
              /\ IsFiniteSet(content) /\ Cardinality(content) = m_count
<1>1. PICK n : n = Size(slot)
  OBVIOUS
<1>2. /\ n \in Nat \ {0} /\ slot \in Tables(n) /\ Reached(hash, slot, n)
      /\ hash \in [Items -> Nat]
      /\ m_used_slots = Cardinality(Filled(slot)) /\ m_used_slots < n
      /\ m_count = Cardinality(Valid(slot))
      /\ content \subseteq Items /\ \A x \in Items : x \in content <=> Holds(slot, x)
      /\ IsFiniteSet(content) /\ Cardinality(content) = m_count
  BY <1>1, Zenon DEF TableInv, Sound
<1>3. DOMAIN slot = 0..(n - 1)
  BY <1>2, TableIs
<1>4. m_used_slots \in Nat /\ m_count \in Nat /\ m_count <= m_used_slots
  BY <1>2, FiniteParts
<1> QED BY <1>1, <1>2, <1>3, <1>4

\* A table that is sound is one with its own size.
LEMMA SoundIsInv ==
    ASSUME hash' = hash, hash \in [Items -> Nat],
           NEW n, Sound(hash, slot', n, m_used_slots', m_count', content')
    PROVE  TableInv'
<1>1. n \in Nat /\ slot' \in Tables(n)
  BY DEF Sound
<1>2. Size(slot') = n
  BY <1>1, TableIs
<1>3. Sound(hash', slot', Size(slot'), m_used_slots', m_count', content')
  BY <1>2
<1> QED BY <1>3 DEF TableInv

\* grow() leaves the same items, and room for another besides a free slot.
LEMMA GrownIs ==
    ASSUME TableInv, NEW g, g = Grown
    PROVE  \E m \in Nat \ {0} :
              /\ g \in Tables(m) /\ Reached(hash, g, m)
              /\ Cardinality(Valid(g)) = m_count
              /\ Cardinality(Filled(g)) = (IF Grows THEN m_count ELSE m_used_slots)
              /\ Cardinality(Filled(g)) + 1 < m
              /\ \A x \in Items : Holds(g, x) <=> Holds(slot, x)
<1>1. PICK n \in Nat \ {0} :
         /\ Size(slot) = n /\ DOMAIN slot = 0..(n - 1) /\ slot \in Tables(n)
         /\ hash \in [Items -> Nat] /\ Reached(hash, slot, n)
         /\ m_used_slots = Cardinality(Filled(slot)) /\ m_used_slots < n
         /\ m_count = Cardinality(Valid(slot))
         /\ m_used_slots \in Nat /\ m_count \in Nat /\ m_count <= m_used_slots
  BY InUse
<1>2. PICK h \in Nat, k \in Nat : h = n \div 2 /\ k = n \div 4 /\ 2 * h <= n /\ 4 * k <= n
  OBVIOUS
<1>3. CASE ~Grows
  <2>1. g = slot
    BY <1>3 DEF Grown
  <2>2. m_used_slots < k * 3
    BY <1>1, <1>2, <1>3 DEF Grows
  <2>3. m_used_slots + 1 < n
    BY <1>1, <1>2, <2>2
  <2> QED BY <1>1, <1>3, <2>1, <2>3
<1>4. CASE Grows
  <2>1. PICK m \in Nat \ {0} : m_count + 1 < m /\ g = Rehash(slot, m)
    <3>1. CASE m_count >= h
      <4>1. g = Rehash(slot, 2 * n)
        BY <1>1, <1>2, <1>4, <3>1 DEF Grown
      <4>2. 2 * n \in Nat \ {0} /\ m_count + 1 < 2 * n
        BY <1>1
      <4> QED BY <4>1, <4>2
    <3>2. CASE m_count < h
      <4>1. ~(m_count >= h)
        BY <1>1, <3>2
      <4>2. g = Rehash(slot, n)
        BY <1>1, <1>2, <1>4, <4>1 DEF Grown
      <4>3. m_count + 1 < n
        BY <1>1, <1>2, <3>2
      <4> QED BY <4>2, <4>3
    <3> QED BY <1>1, <1>2, <3>1, <3>2
  <2>2. Cardinality(Valid(slot)) < m
    BY <1>1, <2>1
  <2>3. /\ g \in Tables(m) /\ Reached(hash, g, m)
        /\ Cardinality(Valid(g)) = Cardinality(Valid(slot))
        /\ Cardinality(Filled(g)) = Cardinality(Valid(slot))
        /\ \A x \in Items : Holds(g, x) <=> Holds(slot, x)
    BY <1>1, <2>1, <2>2, RehashIs
  <2> QED BY <1>1, <1>4, <2>1, <2>3
<1> QED BY <1>3, <1>4

\* An item that add() does not find is not there.
LEMMA NotThere ==
    ASSUME TableInv, NEW x \in Items, slot[FindInsert(slot, x, TRUE)] # x
    PROVE  ~Holds(slot, x)
<1>1. PICK n \in Nat \ {0} :
         /\ DOMAIN slot = 0..(n - 1) /\ slot \in Tables(n)
         /\ hash \in [Items -> Nat] /\ Reached(hash, slot, n)
  BY InUse
<1>2. ASSUME NEW p \in 0..(n - 1), slot[p] = x PROVE FALSE
  <2>1. FindInsert(slot, x, TRUE) = p
    BY <1>1, <1>2, FindInsertOld
  <2> QED BY <1>2, <2>1
<1> QED BY <1>1, <1>2 DEF Holds

\* Where add() puts an item that is not there, in the table that grow() leaves.
LEMMA AddFinds ==
    ASSUME TableInv, NEW x \in Items, ~Holds(slot, x), NEW g, g = Grown
    PROVE  \E m \in Nat \ {0} : \E k \in 0..(m - 1) :
              /\ g \in Tables(m) /\ Reached(hash, g, m)
              /\ Cardinality(Valid(g)) = m_count
              /\ Cardinality(Filled(g)) = (IF Grows THEN m_count ELSE m_used_slots)
              /\ Cardinality(Filled(g)) + 1 < m
              /\ \A y \in Items : Holds(g, y) <=> Holds(slot, y)
              /\ FirstUnused(g, x, k, m) /\ FindInsert(g, x, TRUE) = (hash[x] + k) % m
<1>1. PICK m \in Nat \ {0} :
         /\ g \in Tables(m) /\ Reached(hash, g, m)
         /\ Cardinality(Valid(g)) = m_count
         /\ Cardinality(Filled(g)) = (IF Grows THEN m_count ELSE m_used_slots)
         /\ Cardinality(Filled(g)) + 1 < m
         /\ \A y \in Items : Holds(g, y) <=> Holds(slot, y)
  BY GrownIs
<1>2. hash \in [Items -> Nat]
  BY DEF TableInv
<1>3. ~Holds(g, x) /\ Cardinality(Filled(g)) < m
  <2>1. Cardinality(Filled(g)) \in Nat
    BY <1>1, FiniteParts
  <2>2. Cardinality(Filled(g)) < m
    BY <1>1, <2>1
  <2> QED BY <1>1, <2>2, Zenon
<1>4. g \in Tables(m)
  BY <1>1
<1>5. \E k \in 0..(m - 1) : FirstUnused(g, x, k, m) /\ FindInsert(g, x, TRUE) = (hash[x] + k) % m
  BY <1>2, <1>3, <1>4, FindInsertNew
<1> QED BY <1>1, <1>5, Zenon

\* A set with one more item.
LEMMA PutSound ==
    ASSUME hash \in [Items -> Nat], NEW m \in Nat \ {0}, NEW g \in Tables(m),
           Reached(hash, g, m), NEW used \in Nat, NEW count \in Nat,
           Cardinality(Valid(g)) = count, Cardinality(Filled(g)) = used, used + 1 < m,
           NEW c \in SUBSET Items, \A y \in Items : y \in c <=> Holds(g, y),
           IsFiniteSet(c), Cardinality(c) = count,
           NEW x \in Items, x \notin c, NEW p \in 0..(m - 1), g[p] \in {Free, Tomb},
           NEW t \in Tables(m), Reached(hash, t, m),
           \A q \in 0..(m - 1) : t[q] = IF q = p THEN x ELSE g[q]
    PROVE  /\ g[p] = Free => Sound(hash, t, m, used + 1, count + 1, c \cup {x})
           /\ g[p] # Free => Sound(hash, t, m, used, count + 1, c \cup {x})
<1>3. /\ Cardinality(Valid(t)) = Cardinality(Valid(g)) + 1
      /\ g[p] = Free => Cardinality(Filled(t)) = Cardinality(Filled(g)) + 1
      /\ g[p] # Free => Cardinality(Filled(t)) = Cardinality(Filled(g))
      /\ \A y \in Items : Holds(t, y) <=> Holds(g, y) \/ y = x
  BY PutCounts
<1>4. IsFiniteSet(c \cup {x}) /\ Cardinality(c \cup {x}) = count + 1
  BY FS_AddElement
<1>5. c \cup {x} \subseteq Items /\ \A y \in Items : y \in c \cup {x} <=> Holds(t, y)
  BY <1>3
<1> QED BY <1>3, <1>4, <1>5 DEF Sound

\* What is noted of a loop while its slots stay where they are, or after a
\* rehash, when there is nothing to note.
LEMMA NotesKept ==
    ASSUME IterInv, pos' = pos, moved' \in BOOLEAN, pos = -1 => ~moved',
           stayed' \subseteq stayed, stayed' \subseteq content',
           seen' = [x \in Items |-> IF x \in stayed' THEN seen[x] ELSE 0],
           stayed' \subseteq Items,
           \A p \in DOMAIN slot' : slot'[p] \in stayed' => p \in DOMAIN slot /\ slot[p] = slot'[p]
    PROVE  IterInv'
<1>1. /\ pos \in Nat \cup {-1} /\ seen \in [Items -> Nat]
      /\ pos = -1 => stayed = {} /\ \A x \in Items : seen[x] = 0
      /\ pos # -1 => \A p \in DOMAIN slot : slot[p] \in stayed =>
                        seen[slot[p]] = IF p <= pos THEN 1 ELSE 0
  BY Zenon DEF IterInv
<1>2. seen' \in [Items -> Nat] /\ \A x \in Items : seen'[x] = IF x \in stayed' THEN seen[x] ELSE 0
  BY <1>1
<1>3. pos = -1 => stayed' = {} /\ \A x \in Items : seen'[x] = 0
  BY <1>1, <1>2
<1>4. ASSUME pos # -1, NEW p \in DOMAIN slot', slot'[p] \in stayed'
      PROVE  seen'[slot'[p]] = IF p <= pos THEN 1 ELSE 0
  <2>1. p \in DOMAIN slot /\ slot[p] = slot'[p] /\ slot[p] \in stayed /\ slot[p] \in Items
    BY <1>4
  <2>2. seen[slot[p]] = IF p <= pos THEN 1 ELSE 0
    BY <1>1, <1>4, <2>1, Zenon
  <2>3. seen'[slot[p]] = seen[slot[p]]
    BY <1>2, <1>4, <2>1
  <2> QED BY <2>1, <2>2, <2>3, Zenon
<1>5. pos' = -1 => ~moved' /\ stayed' = {} /\ \A x \in Items : seen'[x] = 0
  BY <1>3, Zenon
<1>6. pos' \in Nat \cup {-1}
  BY <1>1
<1>7. pos' # -1 => \A p \in DOMAIN slot' : slot'[p] \in stayed' =>
                      seen'[slot'[p]] = IF p <= pos' THEN 1 ELSE 0
  BY <1>4, Zenon
<1> QED BY <1>2, <1>5, <1>6, <1>7, Zenon DEF IterInv

\* The same, of IterNotes.
LEMMA NotesInv ==
    ASSUME IterInv, NEW r, NEW in, IterNotes(r, in), content' = in, in \subseteq Items,
           ~r => \A p \in DOMAIN slot' : slot'[p] \in stayed \cap in =>
                    p \in DOMAIN slot /\ slot[p] = slot'[p]
    PROVE  IterInv'
<1>1. pos' = pos /\ moved' \in BOOLEAN /\ (pos = -1 => ~moved')
  BY Zenon DEF IterNotes
<1>2. seen' = [x \in Items |-> IF x \in stayed' THEN seen[x] ELSE 0]
  BY Zenon DEF IterNotes
<1>3. (r => stayed' = {}) /\ (~r => stayed' = stayed \cap in)
  BY Zenon DEF IterNotes
<1>4. /\ stayed' \subseteq stayed /\ stayed' \subseteq content' /\ stayed' \subseteq Items
      /\ \A p \in DOMAIN slot' : slot'[p] \in stayed' => p \in DOMAIN slot /\ slot[p] = slot'[p]
  <2>1. CASE r
    <3>1. stayed' = {}
      BY <1>3, <2>1, Zenon
    <3> QED BY <3>1
  <2>2. CASE ~r
    <3>1. stayed' = stayed \cap in
      BY <1>3, <2>2, Zenon
    <3>2. stayed' \subseteq stayed /\ stayed' \subseteq content' /\ stayed' \subseteq Items
      BY <3>1
    <3> QED BY <2>2, <3>1, <3>2, Zenon
  <2> QED BY <2>1, <2>2
<1> QED BY <1>1, <1>2, <1>4, NotesKept, Zenon

\* add() keeps the invariant.
LEMMA AddInv ==
    ASSUME SetInv, NEW x \in Items, Add(x)
    PROVE  SetInv'
<1>1. CASE slot[FindInsert(slot, x, TRUE)] = x
  <2>1. UNCHANGED vars
    BY <1>1, Zenon DEF Add, vars
  <2> QED BY <2>1 DEF vars, tableVars, iterVars, SetInv, TableInv, IterInv, Sound, Reached,
                      Filled, Valid, Holds, Tables, Size
<1>2. CASE slot[FindInsert(slot, x, TRUE)] # x
  <2>1. TableInv /\ IterInv /\ ~Holds(slot, x)
    BY <1>2, NotThere, Zenon DEF SetInv
  <2>2. PICK g : g = Grown
    OBVIOUS
  <2>3. PICK m \in Nat \ {0} : \E k \in 0..(m - 1) :
              /\ g \in Tables(m) /\ Reached(hash, g, m)
              /\ Cardinality(Valid(g)) = m_count
              /\ Cardinality(Filled(g)) = (IF Grows THEN m_count ELSE m_used_slots)
              /\ Cardinality(Filled(g)) + 1 < m
              /\ (\A y \in Items : Holds(g, y) <=> Holds(slot, y))
              /\ FirstUnused(g, x, k, m) /\ FindInsert(g, x, TRUE) = (hash[x] + k) % m
    BY <2>1, <2>2, AddFinds
  <2>4. PICK k \in 0..(m - 1) :
              /\ g \in Tables(m) /\ Reached(hash, g, m)
              /\ Cardinality(Valid(g)) = m_count
              /\ Cardinality(Filled(g)) = (IF Grows THEN m_count ELSE m_used_slots)
              /\ Cardinality(Filled(g)) + 1 < m
              /\ (\A y \in Items : Holds(g, y) <=> Holds(slot, y))
              /\ FirstUnused(g, x, k, m) /\ FindInsert(g, x, TRUE) = (hash[x] + k) % m
    BY <2>3, Zenon
  <2>5. PICK p, used : p = (hash[x] + k) % m /\ used = Cardinality(Filled(g))
    OBVIOUS
  <2>6. /\ slot' = [g EXCEPT ![p] = x]
        /\ m_used_slots' = used + (IF g[p] = Free THEN 1 ELSE 0)
        /\ m_count' = m_count + 1 /\ content' = content \cup {x}
        /\ IterNotes(Grows, content') /\ hash' = hash
    BY <1>2, <2>2, <2>4, <2>5, Zenon DEF Add
  <2>7. /\ hash \in [Items -> Nat] /\ m_count \in Nat
         /\ content \in SUBSET Items /\ (\A y \in Items : y \in content <=> Holds(slot, y))
         /\ IsFiniteSet(content) /\ Cardinality(content) = m_count
    BY <2>1, InUse
  <2>8. g \in Tables(m) /\ used \in Nat /\ used + 1 < m
    BY <2>4, <2>5, FiniteParts
  <2>9. x \notin content /\ \A y \in Items : y \in content <=> Holds(g, y)
    BY <2>1, <2>4, <2>7, Zenon
  <2>10. /\ g[p] = Free => Sound(hash, slot', m, used + 1, m_count + 1, content \cup {x})
         /\ g[p] # Free => Sound(hash, slot', m, used, m_count + 1, content \cup {x})
         /\ DOMAIN slot' = DOMAIN g
         /\ \A q \in DOMAIN slot' : slot'[q] = IF q = p THEN x ELSE g[q]
    <3>1. /\ Reached(hash, g, m) /\ Cardinality(Valid(g)) = m_count
          /\ Cardinality(Filled(g)) = used /\ FirstUnused(g, x, k, m)
          /\ p = (hash[x] + k) % m
      BY <2>4, <2>5, Zenon
    <3>2. PICK u : u = [g EXCEPT ![p] = x]
      OBVIOUS
    <3>3. p \in 0..(m - 1) /\ g[p] \in {Free, Tomb} /\ u \in Tables(m) /\ Reached(hash, u, m)
      <4>1. ~Holds(g, x)
        BY <2>9, Zenon
      <4> QED BY <2>7, <2>8, <3>1, <3>2, <4>1, PutReached
    <3>4. /\ slot' \in Tables(m) /\ Reached(hash, slot', m)
          /\ \A q \in 0..(m - 1) : slot'[q] = IF q = p THEN x ELSE g[q]
      BY <2>6, <2>8, <3>2, <3>3 DEF Tables
    <3>5. PICK t \in Tables(m) : t = slot'
      BY <3>4
    <3>6. /\ g[p] = Free => Sound(hash, t, m, used + 1, m_count + 1, content \cup {x})
          /\ g[p] # Free => Sound(hash, t, m, used, m_count + 1, content \cup {x})
      <4>1. Reached(hash, t, m) /\ \A q \in 0..(m - 1) : t[q] = IF q = p THEN x ELSE g[q]
        BY <3>4, <3>5, Zenon
      <4>2. Reached(hash, g, m) /\ Cardinality(Valid(g)) = m_count /\ Cardinality(Filled(g)) = used
        BY <3>1
      <4> QED BY <2>7, <2>8, <2>9, <3>3, <4>1, <4>2, PutSound
    <3>7. DOMAIN slot' = DOMAIN g /\ DOMAIN g = 0..(m - 1)
      BY <2>8, <3>4 DEF Tables
    <3> QED BY <3>4, <3>5, <3>6, <3>7, Zenon
  <2>11. Sound(hash, slot', m, m_used_slots', m_count', content')
    <3>1. /\ g[p] = Free => m_used_slots' = used + 1
          /\ g[p] # Free => m_used_slots' = used
      BY <2>6, <2>8
    <3> QED BY <2>6, <2>10, <3>1, Zenon
  <2>12. content' \subseteq Items /\ hash \in [Items -> Nat]
    BY <2>7, <2>11, Zenon DEF Sound
  <2>13. TableInv'
    BY <2>6, <2>12, <2>11, SoundIsInv
  <2>14. x \notin stayed
    BY <2>1, <2>9 DEF IterInv
  <2>15. ASSUME ~Grows, NEW q \in DOMAIN slot', slot'[q] \in stayed \cap content'
        PROVE  q \in DOMAIN slot /\ slot[q] = slot'[q]
    <3>1. g = slot
      BY <2>2, <2>15, Zenon DEF Grown
    <3> QED BY <2>14, <2>15, <2>10, <3>1
  <2>16. IterInv'
    BY <2>1, <2>6, <2>12, <2>15, NotesInv, Zenon
  <2> QED BY <2>13, <2>16, Zenon DEF SetInv
<1> QED BY <1>1, <1>2

\* So does remove(),
LEMMA RemoveInv ==
    ASSUME SetInv, NEW x \in Items, Remove(x)
    PROVE  SetInv'
<1>1. TableInv /\ IterInv
  BY Zenon DEF SetInv
<1>2. PICK n \in Nat \ {0} :
         /\ Size(slot) = n /\ DOMAIN slot = 0..(n - 1) /\ slot \in Tables(n)
         /\ hash \in [Items -> Nat] /\ Reached(hash, slot, n)
         /\ m_used_slots = Cardinality(Filled(slot)) /\ m_used_slots < n
         /\ m_count = Cardinality(Valid(slot))
         /\ m_used_slots \in Nat /\ m_count \in Nat /\ m_count <= m_used_slots
         /\ content \subseteq Items /\ (\A y \in Items : y \in content <=> Holds(slot, y))
         /\ IsFiniteSet(content) /\ Cardinality(content) = m_count
  BY <1>1, InUse
<1>3. PICK p, s : p = FindPos(slot, x) /\ s = [slot EXCEPT ![p] = Tomb]
  OBVIOUS
<1>4. p # -1 /\ Holds(slot, x)
  <2>1. p # -1
    BY <1>3, Zenon DEF Remove
  <2>2. Cardinality(Filled(slot)) < n
    BY <1>2
  <2> QED BY <1>2, <1>3, <2>1, <2>2, FindPosIs
<1>5. p \in 0..(n - 1) /\ slot[p] = x
  <2>1. PICK q \in 0..(n - 1) : slot[q] = x
    BY <1>2, <1>4 DEF Holds
  <2>2. Cardinality(Filled(slot)) < n
    BY <1>2
  <2>3. FindPos(slot, x) = q
    BY <1>2, <2>1, <2>2, FindPosIs
  <2> QED BY <1>3, <2>1, <2>3
<1>6. /\ s \in Tables(n) /\ Reached(hash, s, n)
      /\ Cardinality(Valid(s)) = Cardinality(Valid(slot)) - 1
      /\ Filled(s) = Filled(slot)
      /\ \A y \in Items : Holds(s, y) <=> Holds(slot, y) /\ y # slot[p]
  <2>1. s \in Tables(n) /\ \A q \in 0..(n - 1) : s[q] = IF q = p THEN Tomb ELSE slot[q]
    BY <1>2, <1>3, <1>5 DEF Tables
  <2>2. slot \in Tables(n) /\ hash \in [Items -> Nat] /\ Reached(hash, slot, n) /\ slot[p] \in Items
    BY <1>2, <1>5
  <2> QED BY <1>5, <2>1, <2>2, TombReached
<1>7. Size(s) = n /\ DOMAIN s = 0..(n - 1) /\ \A q \in DOMAIN s : s[q] = IF q = p THEN Tomb ELSE slot[q]
  BY <1>2, <1>3, <1>5, <1>6, TableIs DEF Tables
<1>8. Cardinality(Valid(s)) = m_count - 1 /\ m_count - 1 \in Nat
  <2>1. Cardinality(Valid(s)) \in Nat
    BY <1>6, FiniteParts
  <2> QED BY <1>2, <1>6, <2>1
<1>9. /\ content \ {x} \subseteq Items
      /\ \A y \in Items : y \in content \ {x} <=> Holds(s, y)
      /\ IsFiniteSet(content \ {x}) /\ Cardinality(content \ {x}) = m_count - 1
  <2>1. x \in content
    BY <1>2, <1>4
  <2>2. IsFiniteSet(content \ {x}) /\ Cardinality(content \ {x}) = m_count - 1
    BY <1>2, <2>1, FS_RemoveElement
  <2> QED BY <1>2, <1>5, <1>6, <2>2
<1>10. hash' = hash /\ m_count' = m_count - 1 /\ content' = content \ {x}
  BY Zenon DEF Remove
<1> DEFINE shrinks == m_count - 1 < Size(s) \div 4 /\ Size(s) > MinSize
<1>11. /\ shrinks => slot' = Rehash(s, Size(s) \div 2) /\ m_used_slots' = m_count - 1
       /\ ~shrinks => slot' = s /\ m_used_slots' = m_used_slots
       /\ IterNotes(shrinks, content')
  BY <1>3, Zenon DEF Remove
<1>12. CASE shrinks
  <2>1. PICK h \in Nat, k \in Nat : h = n \div 2 /\ k = n \div 4 /\ 2 * k <= h
    OBVIOUS
  <2>2. m_count - 1 < k
    BY <1>7, <1>12, <2>1
  <2>3. h \in Nat \ {0} /\ m_count - 1 < h
    BY <1>8, <2>1, <2>2
  <2>4. slot' = Rehash(s, h) /\ m_used_slots' = m_count - 1
    BY <1>7, <1>11, <1>12, <2>1
  <2>5. Cardinality(Valid(s)) < h
    BY <1>8, <2>3
  <2>6. PICK t : t = Rehash(s, h)
    OBVIOUS
  <2>7. /\ t \in Tables(h) /\ Reached(hash, t, h)
        /\ Cardinality(Valid(t)) = Cardinality(Valid(s))
        /\ Cardinality(Filled(t)) = Cardinality(Valid(s))
        /\ \A y \in Items : Holds(t, y) <=> Holds(s, y)
    BY <1>2, <1>6, <2>3, <2>5, <2>6, RehashIs
  <2>8. Sound(hash, t, h, m_count - 1, m_count - 1, content \ {x})
    BY <1>8, <1>9, <2>3, <2>7 DEF Sound
  <2>9. Sound(hash, slot', h, m_used_slots', m_count', content')
    BY <1>10, <2>4, <2>6, <2>8, Zenon
  <2>10. TableInv'
    BY <1>2, <1>10, <2>9, SoundIsInv
  <2>11. IterInv'
    BY <1>1, <1>9, <1>10, <1>11, <1>12, NotesInv, Zenon
  <2> QED BY <2>10, <2>11, Zenon DEF SetInv
<1>13. CASE ~shrinks
  <2>1. slot' = s /\ m_used_slots' = m_used_slots
    BY <1>11, <1>13, Zenon
  <2>2. Sound(hash, s, n, m_used_slots, m_count - 1, content \ {x})
    BY <1>2, <1>6, <1>8, <1>9 DEF Sound
  <2>3. Sound(hash, slot', n, m_used_slots', m_count', content')
    BY <1>10, <2>1, <2>2, Zenon
  <2>4. TableInv'
    BY <1>2, <1>10, <2>3, SoundIsInv
  <2>5. Tomb \notin stayed
    BY <1>1, <1>2, HashSetOK DEF IterInv
  <2>6. \A q \in DOMAIN slot' : slot'[q] \in stayed \cap content' =>
           q \in DOMAIN slot /\ slot[q] = slot'[q]
    BY <1>2, <1>7, <2>1, <2>5
  <2>7. IterInv'
    BY <1>1, <1>9, <1>10, <1>11, <2>6, NotesInv, Zenon
  <2> QED BY <2>4, <2>7, Zenon DEF SetInv
<1> QED BY <1>12, <1>13

\* assignment from another set,
LEMMA CopyInv ==
    ASSUME SetInv, Copy
    PROVE  SetInv'
<1>1. PICK n \in Nat \ {0} :
         /\ Size(slot) = n /\ DOMAIN slot = 0..(n - 1) /\ slot \in Tables(n)
         /\ hash \in [Items -> Nat] /\ Reached(hash, slot, n)
         /\ m_used_slots = Cardinality(Filled(slot)) /\ m_used_slots < n
         /\ m_count = Cardinality(Valid(slot))
         /\ m_used_slots \in Nat /\ m_count \in Nat /\ m_count <= m_used_slots
         /\ content \subseteq Items /\ (\A y \in Items : y \in content <=> Holds(slot, y))
         /\ IsFiniteSet(content) /\ Cardinality(content) = m_count
  BY InUse, Zenon DEF SetInv
<1>2. PICK t : t = Rehash(slot, n)
  OBVIOUS
<1>3. /\ slot' = t /\ m_used_slots' = m_count
      /\ hash' = hash /\ m_count' = m_count /\ content' = content
  BY <1>1, <1>2, Zenon DEF Copy
<1>4. m_count < n /\ Cardinality(Valid(slot)) < n
  BY <1>1
<1>5. /\ t \in Tables(n) /\ Reached(hash, t, n)
      /\ Cardinality(Valid(t)) = Cardinality(Valid(slot))
      /\ Cardinality(Filled(t)) = Cardinality(Valid(slot))
      /\ \A y \in Items : Holds(t, y) <=> Holds(slot, y)
  BY <1>1, <1>2, <1>4, RehashIs
<1>6. Sound(hash, t, n, m_count, m_count, content)
  BY <1>1, <1>4, <1>5 DEF Sound
<1>7. TableInv'
  BY <1>1, <1>3, <1>6, SoundIsInv
<1>8. pos' = -1 /\ moved' = FALSE /\ stayed' = {} /\ seen' = [x \in Items |-> 0]
  BY Zenon DEF Copy
<1>9. seen' \in [Items -> Nat] /\ (\A x \in Items : seen'[x] = 0) /\ pos' \in Nat \cup {-1}
  BY <1>8
<1>10. stayed' \subseteq content'
  BY <1>8
<1>11. IterInv'
  BY <1>8, <1>9, <1>10, Zenon DEF IterInv
<1> QED BY <1>7, <1>11, Zenon DEF SetInv

\* The first table has a slot.
LEMMA MinSizeOK == MinSize \in Nat \ {0}
BY HashSetOK

\* reset(),
LEMMA ResetInv ==
    ASSUME SetInv, Reset
    PROVE  SetInv'
<1>1. PICK t : t = Empty(MinSize)
  OBVIOUS
<1>2. /\ slot' = t /\ m_used_slots' = 0 /\ m_count' = 0 /\ content' = {} /\ hash' = hash
      /\ IterNotes(TRUE, {})
  BY <1>1, Zenon DEF Reset
<1>3. hash \in [Items -> Nat] /\ IterInv
  BY Zenon DEF SetInv, TableInv
<1>4. /\ t \in Tables(MinSize) /\ Reached(hash, t, MinSize)
      /\ Valid(t) = {} /\ Filled(t) = {}
      /\ \A x \in Items : ~Holds(t, x)
  BY <1>1, <1>3, MinSizeOK, EmptyTable
<1>5. IsFiniteSet({}) /\ Cardinality({}) = 0
  BY FS_EmptySet
<1>6. Sound(hash, t, MinSize, 0, 0, {})
  BY <1>4, <1>5, MinSizeOK DEF Sound
<1>7. Sound(hash, slot', MinSize, m_used_slots', m_count', content')
  BY <1>2, <1>6, Zenon
<1>8. TableInv'
  BY <1>2, <1>3, <1>7, SoundIsInv
<1>9. IterInv'
  <2>1. {} \subseteq Items
    OBVIOUS
  <2> QED BY <1>2, <1>3, <2>1, NotesInv, Zenon
<1> QED BY <1>8, <1>9, Zenon DEF SetInv

\* to_valid() skips no item.
LEMMA ToValidIs ==
    ASSUME NEW n \in Nat, DOMAIN slot = 0..(n - 1), Size(slot) = n, NEW i \in Nat
    PROVE  /\ ToValid(i) \in Nat /\ i <= ToValid(i)
           /\ \A p \in DOMAIN slot : slot[p] \in Items /\ i <= p => ToValid(i) <= p
<1> DEFINE T == {j \in Valid(slot) : j >= i} \cup {IF i > Size(slot) THEN i ELSE Size(slot)}
<1>1. T \in SUBSET Nat /\ T # {} /\ \A j \in T : i <= j
  BY DEF Valid
<1>2. ToValid(i) = Min(T)
  BY DEF ToValid
<1>3. Min(T) \in T /\ \A k \in T : Min(T) <= k
  <2> HIDE DEF T
  <2> QED BY <1>1, MinOfNat
<1>4. ASSUME NEW p \in DOMAIN slot, slot[p] \in Items, i <= p PROVE p \in T
  BY <1>4 DEF Valid
<1>5. ToValid(i) \in T
  BY <1>2, <1>3
<1>6. \A k \in T : ToValid(i) <= k
  BY <1>2, <1>3
<1> HIDE DEF T
<1> QED BY <1>1, <1>4, <1>5, <1>6

\* Whatever stayed in slots before i was shown, and the rest was not.
LEMMA ShowInv ==
    ASSUME TableInv, seen \in [Items -> Nat], moved' \in BOOLEAN, NEW i \in Nat, Show(i),
           hash' = hash, UNCHANGED tableVars, content' = content, stayed' \subseteq content,
           \A p \in DOMAIN slot : slot[p] \in stayed' =>
              seen[slot[p]] = IF p < i THEN 1 ELSE 0
    PROVE  IterInv'
<1>1. PICK n \in Nat \ {0} :
         /\ Size(slot) = n /\ DOMAIN slot = 0..(n - 1) /\ slot \in Tables(n)
         /\ Reached(hash, slot, n) /\ content \subseteq Items
  BY InUse
<1>2. PICK v : v = ToValid(i)
  OBVIOUS
<1>3. /\ v \in Nat /\ i <= v
      /\ \A p \in DOMAIN slot : slot[p] \in Items /\ i <= p => v <= p
  BY <1>1, <1>2, ToValidIs
<1>4. /\ pos' = v /\ slot' = slot
      /\ seen' = [x \in Items |->
                     IF x \in stayed' /\ v < Size(slot) /\ slot[v] = x THEN seen[x] + 1 ELSE seen[x]]
  BY <1>2, Zenon DEF Show, tableVars
<1>5. /\ seen' \in [Items -> Nat]
      /\ \A x \in Items :
            seen'[x] = IF x \in stayed' /\ v < n /\ slot[v] = x THEN seen[x] + 1 ELSE seen[x]
  BY <1>1, <1>4
<1>6. ASSUME NEW p \in DOMAIN slot, slot[p] \in stayed'
      PROVE  seen'[slot[p]] = IF p <= v THEN 1 ELSE 0
  <2>1. p \in 0..(n - 1) /\ slot[p] \in Items
    BY <1>1, <1>6
  <2>2. seen[slot[p]] = IF p < i THEN 1 ELSE 0
    BY <1>6
  <2>3. v < n /\ slot[v] = slot[p] => v = p
    BY <1>1, <1>3, <2>1 DEF Reached
  <2>4. i <= p => v <= p
    BY <1>3, <2>1, <1>1
  <2>5. seen'[slot[p]] = IF v < n /\ slot[v] = slot[p] THEN seen[slot[p]] + 1 ELSE seen[slot[p]]
    BY <1>5, <1>6, <2>1
  <2>6. CASE p < i
    <3>1. ~(v < n /\ slot[v] = slot[p]) /\ p <= v
      BY <1>3, <2>1, <2>3, <2>6
    <3> QED BY <2>2, <2>5, <2>6, <3>1, Zenon
  <2>7. CASE i <= p /\ v = p
    <3>1. seen[slot[p]] = 0 /\ v < n /\ p <= v
      BY <2>1, <2>2, <2>7
    <3>2. seen'[slot[p]] = 0 + 1
      BY <2>5, <2>7, <3>1, Zenon
    <3> QED BY <3>1, <3>2
  <2>8. CASE i <= p /\ v # p
    <3>1. ~(v < n /\ slot[v] = slot[p])
      BY <2>3, <2>8, Zenon
    <3>2. ~(p <= v) /\ ~(p < i)
      BY <1>3, <2>1, <2>4, <2>8
    <3> QED BY <2>2, <2>5, <3>1, <3>2, Zenon
  <2> QED BY <1>3, <2>1, <2>6, <2>7, <2>8
<1>7. v \in Nat \cup {-1} /\ v # -1
  BY <1>3
<1>8. /\ pos' \in Nat \cup {-1} /\ pos' # -1
      /\ \A p \in DOMAIN slot' : slot'[p] \in stayed' =>
            seen'[slot'[p]] = IF p <= pos' THEN 1 ELSE 0
  BY <1>4, <1>6, <1>7, Zenon
<1>9. stayed' \subseteq content'
  OBVIOUS
<1> QED BY <1>5, <1>8, <1>9, Zenon DEF IterInv

\* Steps of an iterator leave the table alone.
LEMMA TableKept ==
    ASSUME TableInv, UNCHANGED <<hash, tableVars, content>>
    PROVE  TableInv'
<1>1. /\ hash' = hash /\ slot' = slot /\ m_used_slots' = m_used_slots /\ m_count' = m_count
      /\ content' = content
  BY Zenon DEF tableVars
<1>2. hash \in [Items -> Nat] /\ Sound(hash, slot, Size(slot), m_used_slots, m_count, content)
  BY Zenon DEF TableInv
<1>3. Sound(hash, slot', Size(slot), m_used_slots', m_count', content')
  BY <1>1, <1>2, Zenon
<1> QED BY <1>1, <1>2, <1>3, SoundIsInv

\* the begin of a loop over the set,
LEMMA BeginInv ==
    ASSUME SetInv, Begin
    PROVE  SetInv'
<1>1. /\ TableInv /\ seen \in [Items -> Nat] /\ moved \in BOOLEAN
      /\ pos = -1 => \A x \in Items : seen[x] = 0
  BY Zenon DEF SetInv, IterInv
<1>2. /\ pos = -1 /\ stayed' = content /\ Show(0) /\ hash' = hash /\ UNCHANGED tableVars
      /\ content' = content /\ moved' = moved
  BY Zenon DEF Begin
<1>3. ASSUME NEW p \in DOMAIN slot, slot[p] \in stayed'
      PROVE  seen[slot[p]] = IF p < 0 THEN 1 ELSE 0
  <2>1. content \subseteq Items /\ \E n \in Nat : DOMAIN slot = 0..(n - 1)
    BY <1>1, InUse
  <2>2. seen[slot[p]] = 0
    BY <1>1, <1>2, <1>3, <2>1
  <2>3. ~(p < 0)
    BY <2>1
  <2> QED BY <2>2, <2>3, Zenon
<1>4. stayed' \subseteq content /\ 0 \in Nat
  BY <1>2
<1>5. moved' \in BOOLEAN
  BY <1>1, <1>2, Zenon
<1>6. IterInv'
  BY <1>1, <1>2, <1>3, <1>4, <1>5, ShowInv, Zenon
<1>7. TableInv'
  BY <1>1, <1>2, TableKept, Zenon
<1> QED BY <1>6, <1>7, Zenon DEF SetInv

\* its next turn,
LEMMA AdvanceInv ==
    ASSUME SetInv, Advance
    PROVE  SetInv'
<1>1. /\ TableInv /\ seen \in [Items -> Nat] /\ moved \in BOOLEAN /\ stayed \subseteq content
      /\ pos # -1 => \A p \in DOMAIN slot : slot[p] \in stayed =>
                        seen[slot[p]] = IF p <= pos THEN 1 ELSE 0
  BY Zenon DEF SetInv, IterInv
<1>2. /\ pos \in DOMAIN slot /\ stayed' = stayed /\ Show(pos + 1) /\ hash' = hash
      /\ UNCHANGED tableVars /\ content' = content /\ moved' = moved
  BY Zenon DEF Advance
<1>3. PICK n \in Nat : DOMAIN slot = 0..(n - 1)
  BY <1>1, InUse
<1>4. pos \in Nat /\ pos # -1 /\ pos + 1 \in Nat
  BY <1>2, <1>3
<1>5. ASSUME NEW p \in DOMAIN slot, slot[p] \in stayed'
      PROVE  seen[slot[p]] = IF p < pos + 1 THEN 1 ELSE 0
  <2>1. seen[slot[p]] = IF p <= pos THEN 1 ELSE 0
    BY <1>1, <1>2, <1>4, <1>5, Zenon
  <2>2. p <= pos <=> p < pos + 1
    BY <1>3, <1>4
  <2> QED BY <2>1, <2>2, Zenon
<1>6. stayed' \subseteq content
  BY <1>1, <1>2, Zenon
<1>7. moved' \in BOOLEAN
  BY <1>1, <1>2, Zenon
<1>8. IterInv'
  BY <1>1, <1>2, <1>4, <1>5, <1>6, <1>7, ShowInv, Zenon
<1>9. TableInv'
  BY <1>1, <1>2, TableKept, Zenon
<1> QED BY <1>8, <1>9, Zenon DEF SetInv

\* and its end.
LEMMA LeaveInv ==
    ASSUME SetInv, Leave
    PROVE  SetInv'
<1>1. TableInv'
  BY TableKept, Zenon DEF SetInv, Leave
<1>2. pos' = -1 /\ moved' = FALSE /\ stayed' = {} /\ seen' = [x \in Items |-> 0]
  BY Zenon DEF Leave
<1>3. seen' \in [Items -> Nat] /\ (\A x \in Items : seen'[x] = 0) /\ pos' \in Nat \cup {-1}
  BY <1>2
<1>4. stayed' \subseteq content'
  BY <1>2
<1>5. IterInv'
  BY <1>2, <1>3, <1>4, Zenon DEF IterInv
<1> QED BY <1>1, <1>5, Zenon DEF SetInv

-----------------------------------------------------------------------------
(* The theorems.                                                           *)

\* An empty set has the invariant.
LEMMA InitInv ==
    ASSUME Init
    PROVE  SetInv
<1>1. PICK t : t = Empty(MinSize)
  OBVIOUS
<1>2. /\ slot = t /\ m_used_slots = 0 /\ m_count = 0 /\ content = {}
      /\ hash \in [Items -> Hashes]
      /\ pos = -1 /\ moved = FALSE /\ stayed = {} /\ seen = [x \in Items |-> 0]
  BY <1>1, Zenon DEF Init
<1>3. hash \in [Items -> Nat]
  BY <1>2, HashSetOK
<1>4. /\ t \in Tables(MinSize) /\ Reached(hash, t, MinSize)
      /\ Valid(t) = {} /\ Filled(t) = {}
      /\ \A x \in Items : ~Holds(t, x)
  BY <1>1, <1>3, MinSizeOK, EmptyTable
<1>5. IsFiniteSet({}) /\ Cardinality({}) = 0
  BY FS_EmptySet
<1>6. Sound(hash, t, MinSize, 0, 0, {})
  BY <1>4, <1>5, MinSizeOK DEF Sound
<1>7. Size(slot) = MinSize
  BY <1>2, <1>4, MinSizeOK, TableIs
<1>8. TableInv
  BY <1>2, <1>3, <1>6, <1>7, Zenon DEF TableInv
<1>9. seen \in [Items -> Nat] /\ (\A x \in Items : seen[x] = 0) /\ pos \in Nat \cup {-1}
  BY <1>2
<1>10. stayed \subseteq content
  BY <1>2
<1>11. IterInv
  BY <1>2, <1>9, <1>10, Zenon DEF IterInv
<1> QED BY <1>8, <1>11, Zenon DEF SetInv

\* Every step keeps it.
LEMMA NextInv ==
    ASSUME SetInv, [Next]_vars
    PROVE  SetInv'
<1>1. ASSUME NEW x \in Items, Add(x) PROVE SetInv'
  BY <1>1, AddInv
<1>2. ASSUME NEW x \in Items, Remove(x) PROVE SetInv'
  BY <1>2, RemoveInv
<1>3. CASE Copy
  BY <1>3, CopyInv
<1>4. CASE Reset
  BY <1>4, ResetInv
<1>5. CASE Begin
  BY <1>5, BeginInv
<1>6. CASE Advance
  BY <1>6, AdvanceInv
<1>7. CASE Leave
  BY <1>7, LeaveInv
<1>8. CASE UNCHANGED vars
  BY <1>8 DEF vars, tableVars, iterVars, SetInv, TableInv, IterInv, Sound, Reached,
              Filled, Valid, Holds, Tables, Size
<1> QED BY <1>1, <1>2, <1>3, <1>4, <1>5, <1>6, <1>7, <1>8, Zenon DEF Next

\* The tables and their counters, and what a loop over the set has shown, after
\* whatever was added, removed, copied and rehashed (set.h:113-315).
THEOREM SetInvariant == Spec => []SetInv
<1>1. Init => SetInv
  BY InitInv
<1>2. SetInv /\ [Next]_vars => SetInv'
  BY NextInv
<1> QED BY <1>1, <1>2, PTL DEF Spec

\* By it what is in the set is found,
LEMMA InvFindable ==
    ASSUME SetInv
    PROVE  Findable
<1>1. PICK n \in Nat \ {0} :
         /\ Size(slot) = n /\ DOMAIN slot = 0..(n - 1) /\ slot \in Tables(n)
         /\ hash \in [Items -> Nat] /\ Reached(hash, slot, n)
         /\ m_used_slots = Cardinality(Filled(slot)) /\ m_used_slots < n
         /\ m_count = Cardinality(Valid(slot))
         /\ m_used_slots \in Nat /\ m_count \in Nat /\ m_count <= m_used_slots
         /\ content \subseteq Items /\ (\A y \in Items : y \in content <=> Holds(slot, y))
         /\ IsFiniteSet(content) /\ Cardinality(content) = m_count
  BY InUse, Zenon DEF SetInv
<1>2. Cardinality(Filled(slot)) < n
  BY <1>1
<1>3. ASSUME NEW x \in Items PROVE Stops(slot, x, TRUE) # {}
  BY <1>1, <1>2, FreeSlot, StopsSomewhere
<1>4. ASSUME NEW x \in Items PROVE x \in content <=> FindPos(slot, x) # -1
  <2>1. /\ \A p \in 0..(n - 1) : slot[p] = x => FindPos(slot, x) = p
        /\ ~Holds(slot, x) => FindPos(slot, x) = -1
    BY <1>1, <1>2, FindPosIs
  <2>2. Holds(slot, x) => FindPos(slot, x) # -1
    BY <1>1, <2>1 DEF Holds
  <2> QED BY <1>1, <2>1, <2>2
<1>5. Cardinality(Valid(slot)) = Cardinality(content)
  BY <1>1
<1> QED BY <1>3, <1>4, <1>5, Zenon DEF Findable

\* and a loop shows what stays once.
LEMMA InvShownOnce ==
    ASSUME SetInv
    PROVE  ShownOnce
<1>1. PICK n \in Nat \ {0} :
         /\ DOMAIN slot = 0..(n - 1) /\ slot \in Tables(n)
         /\ hash \in [Items -> Nat] /\ Reached(hash, slot, n)
         /\ m_used_slots = Cardinality(Filled(slot)) /\ m_used_slots < n
         /\ content \subseteq Items /\ (\A y \in Items : y \in content <=> Holds(slot, y))
  BY InUse, Zenon DEF SetInv
<1>2. /\ stayed \subseteq content
      /\ pos # -1 => \A p \in DOMAIN slot : slot[p] \in stayed =>
                        seen[slot[p]] = IF p <= pos THEN 1 ELSE 0
  BY Zenon DEF SetInv, IterInv
<1>3. ASSUME pos # -1, NEW x \in stayed
      PROVE  seen[x] = (IF FindPos(slot, x) <= pos THEN 1 ELSE 0)
  <2>1. x \in Items /\ Holds(slot, x)
    BY <1>1, <1>2
  <2>2. PICK p \in 0..(n - 1) : slot[p] = x
    BY <1>1, <2>1 DEF Holds
  <2>3. Cardinality(Filled(slot)) < n
    BY <1>1
  <2>4. FindPos(slot, x) = p
    BY <1>1, <2>1, <2>2, <2>3, FindPosIs
  <2>5. seen[slot[p]] = IF p <= pos THEN 1 ELSE 0
    BY <1>1, <1>2, <1>3, <2>2, Zenon
  <2> QED BY <2>2, <2>4, <2>5, Zenon
<1> QED BY <1>3, Zenon DEF ShownOnce

\* A probe for any item ends, at the item if it is in the set, and the set has
\* no item twice (find_pos_full() and its callers, set.h:113-150).
THEOREM AlwaysFindable == Spec => []Findable
<1>1. SetInv => Findable
  BY InvFindable
<1> QED BY <1>1, SetInvariant, PTL

\* A loop over a set that changes on its way shows each item that stays once,
\* until a rehash (its iterator, set.h:279-315).
THEOREM AlwaysShownOnce == Spec => []ShownOnce
<1>1. SetInv => ShownOnce
  BY InvShownOnce
<1> QED BY <1>1, SetInvariant, PTL
=============================================================================

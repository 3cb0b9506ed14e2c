--------------------------- MODULE StaticmapProofs ---------------------------
(***************************************************************************)
(* Proofs about Staticmap, for any sets of keys and values, any sizes and  *)
(* any thresholds of the hashmap.                                          *)
(*                                                                         *)
(* Between two operations the file is Sound: the allocator left it (Whole: *)
(* objects tile it, and the free ones are in their lists) and the hashmap  *)
(* has the data (Tabled).  On the way it is Mendable: recover() can walk   *)
(* it (Torn), and at most one object is too many.  What a run leaves       *)
(* behind if the process ends in it is one of its past, and about the past *)
(* of each run there is a lemma: of the writes to links (CutIs, UnlinkIs), *)
(* of the allocator (UsedIs, DeallocIs), of each operation (RehashIs,      *)
(* InsertIs, RemoveIs, RecoverIs, CreateIs).                               *)
(***************************************************************************)
EXTENDS Staticmap, FiniteSetTheorems, WellFoundedInduction, TLAPS

------------------------------------------------------------------------------
(* Numbers, sizes and what they divide.                                    *)

\* A set of numbers that is not empty has a least one.
LEMMA LeastOfNat ==
    ASSUME NEW T \in SUBSET Nat, T # {}
    PROVE  \E m \in T : \A k \in T : m <= k
<1>1. \A j, k \in Nat : j < k => <<j, k>> \in OpToRel(<, Nat)
  BY Zenon DEF OpToRel
<1>2. PICK R : IsWellFoundedOn(R, Nat) /\ \A j, k \in Nat : j < k => <<j, k>> \in R
  BY <1>1, NatLessThanWellFounded, Zenon
<1>3. T \subseteq Nat /\ T # {} /\ IsWellFoundedOn(R, Nat)
  BY <1>2
<1>4. \E m \in T : \A k \in T : ~(<<k, m>> \in R)
  BY <1>3, WFMin, Zenon
<1>5. PICK m \in T : \A k \in T : ~(<<k, m>> \in R)
  BY <1>4
<1>6. \A k \in T : ~(k < m)
  BY <1>2, <1>5, Zenon
<1> QED BY <1>6

\* Sizes are positive numbers.
LEMMA SizeIs ==
    ASSUME NEW s \in Sizes
    PROVE  s \in Nat /\ s >= 1 /\ s <= MaxSize /\ MaxSize \in Nat
BY SizesOK

\* A set of sizes that is not empty has a greatest one.
LEMMA GreatestSize ==
    ASSUME NEW T \in SUBSET Sizes, T # {}
    PROVE  \E m \in T : \A k \in T : k <= m
<1> DEFINE U == {MaxSize - k : k \in T}
<1>1. U \in SUBSET Nat
  BY SizeIs
<1>2. U # {}
  OBVIOUS
<1>3. PICK m \in U : \A k \in U : m <= k
  <2> HIDE DEF U
  <2> QED BY <1>1, <1>2, LeastOfNat
<1>4. PICK n \in T : m = MaxSize - n
  OBVIOUS
<1>5. \A k \in T : MaxSize - n <= MaxSize - k
  BY <1>3, <1>4
<1> QED BY <1>5, SizeIs

\* And a least one.
LEMMA LeastSize ==
    ASSUME NEW T \in SUBSET Sizes, T # {}
    PROVE  \E m \in T : \A k \in T : m <= k
<1>1. T \in SUBSET Nat
  BY SizeIs
<1> QED BY <1>1, LeastOfNat

\* a is a place for an object of size s.
Mult(a, s) == a % s = 0

\* Quotient and remainder.
LEMMA Division ==
    ASSUME NEW s \in Nat, s > 0, NEW a \in Int, NEW d \in Int, d = a \div s,
           NEW r \in Int, r = a % s
    PROVE  a = d * s + r /\ 0 <= r /\ r < s
<1>1. a = d * s + r
  OBVIOUS
<1>2. 0 <= r /\ r < s
  OBVIOUS
<1> QED BY <1>1, <1>2

\* A multiple leaves no remainder.
LEMMA RemainderZero ==
    ASSUME NEW s \in Nat \ {0}, NEW a \in Int, NEW q \in Int, a = s * q
    PROVE  a % s = 0
OBVIOUS

\* What leaves no remainder is a multiple.
LEMMA ZeroRemainder ==
    ASSUME NEW s \in Nat \ {0}, NEW a \in Int, a % s = 0
    PROVE  \E q \in Int : a = s * q
OBVIOUS

\* The same two facts for places.
LEMMA MultOf ==
    ASSUME NEW s \in Nat \ {0}, NEW a \in Int, NEW q \in Int, a = s * q
    PROVE  Mult(a, s)
BY RemainderZero DEF Mult

\* A place for size s is s times a number.
LEMMA MultBy ==
    ASSUME NEW s \in Nat \ {0}, NEW a \in Int, Mult(a, s)
    PROVE  \E q \in Int : a = s * q
BY ZeroRemainder DEF Mult

\* Places for size s can be added and subtracted.
LEMMA MultSum ==
    ASSUME NEW s \in Nat \ {0}, NEW a \in Int, NEW b \in Int, Mult(a, s), Mult(b, s)
    PROVE  Mult(a + b, s) /\ Mult(a - b, s)
<1>1. PICK p \in Int : a = s * p
  BY MultBy
<1>2. PICK q \in Int : b = s * q
  BY MultBy
<1>3. a + b = s * (p + q) /\ a - b = s * (p - q)
  BY <1>1, <1>2
<1>4. PICK m \in Int, n \in Int, c \in Int, d \in Int :
          m = p + q /\ n = p - q /\ c = a + b /\ d = a - b
  OBVIOUS
<1>5. c = s * m /\ d = s * n
  BY <1>3, <1>4
<1>6. Mult(c, s) /\ Mult(d, s)
  BY <1>5, MultOf
<1> QED BY <1>4, <1>6

\* Two places for size s are at least s apart.
LEMMA MultApart ==
    ASSUME NEW s \in Nat \ {0}, NEW a \in Int, NEW b \in Int, Mult(a, s), Mult(b, s), a < b
    PROVE  a + s <= b
<1>1. PICK p \in Int : a = s * p
  BY MultBy
<1>2. PICK q \in Int : b = s * q
  BY MultBy
<1>3. p < q
  <2>1. ASSUME q <= p PROVE FALSE
    <3>1. s * q <= s * p
      BY <2>1
    <3> QED BY <1>1, <1>2, <3>1
  <2> QED BY <2>1
<1>4. s * (p + 1) <= s * q
  BY <1>3
<1>5. s * (p + 1) = s * p + s
  OBVIOUS
<1> QED BY <1>1, <1>2, <1>4, <1>5

\* A place for a multiple of s is one for s.
LEMMA MultTrans ==
    ASSUME NEW s \in Nat \ {0}, NEW t \in Nat \ {0}, NEW a \in Int, Mult(t, s), Mult(a, t)
    PROVE  Mult(a, s)
<1>1. PICK p \in Int : t = s * p
  BY MultBy
<1>2. PICK q \in Int : a = t * q
  BY MultBy
<1>3. a = s * (p * q)
  BY <1>1, <1>2
<1>4. PICK m \in Int : m = p * q
  OBVIOUS
<1>5. a = s * m
  BY <1>3, <1>4
<1> QED BY <1>5, MultOf

\* Zero, s and twice s are places for size s.
LEMMA MultSelf ==
    ASSUME NEW s \in Nat \ {0}
    PROVE  Mult(s, s) /\ Mult(0, s) /\ Mult(2 * s, s)
<1>1. s = s * 1 /\ 0 = s * 0
  OBVIOUS
<1>2. Mult(s, s)
  BY <1>1, MultOf
<1>3. Mult(0, s)
  BY <1>1, MultOf
<1>4. PICK a \in Int : a = s * 2 /\ a = 2 * s
  OBVIOUS
<1>5. Mult(a, s)
  BY <1>4, MultOf
<1> QED BY <1>2, <1>3, <1>4, <1>5

\* Sizes are the powers of two: a larger one is a multiple of twice a smaller.
LEMMA SizesDouble ==
    ASSUME NEW s \in Sizes, NEW t \in Sizes, s < t
    PROVE  2 * s \in Sizes /\ 2 * s <= t /\ Mult(t, 2 * s)
<1> DEFINE Good(u, v) == 2 * u \in Sizes /\ 2 * u <= v /\ Mult(v, 2 * u)
<1> DEFINE T == {v \in Sizes : \E u \in Sizes : u < v /\ ~Good(u, v)}
<1>1. ASSUME T # {} PROVE FALSE
  <2>1. T \in SUBSET Sizes
    OBVIOUS
  <2>2. PICK v \in T : \A k \in T : v <= k
    <3> HIDE DEF T
    <3> QED BY <1>1, <2>1, LeastSize
  <2>3. PICK u \in Sizes : v \in Sizes /\ u < v /\ ~Good(u, v)
    OBVIOUS
  <2>4. PICK w \in Sizes : v = 2 * w
    BY <2>3, SizesOK, SizeIs
  <2>5. u \in Nat /\ v \in Nat /\ w \in Nat /\ u >= 1 /\ w >= 1 /\ w < v
    BY <2>3, <2>4, SizeIs
  <2>6. \A x, y \in Sizes : x < y /\ y < v => Good(x, y)
    <3> HIDE DEF Good
    <3>1. \A y \in Sizes : y < v => y \notin T
      BY <2>2, <2>3, SizeIs
    <3> QED BY <3>1
  <2>7. CASE u = w
    <3>1. 2 * u = v /\ 2 * u \in Nat \ {0}
      BY <2>4, <2>5, <2>7
    <3>2. Mult(v, 2 * u)
      BY <3>1, MultSelf
    <3> QED BY <2>3, <2>5, <3>1, <3>2
  <2>8. CASE u < w
    <3>1. Good(u, w)
      <4> HIDE DEF Good
      <4> QED BY <2>5, <2>6, <2>8
    <3>2. Mult(v, w)
      BY <2>4, <2>5, MultSelf
    <3>3. 2 * u \in Nat \ {0} /\ w \in Nat \ {0} /\ v \in Int
      BY <2>5
    <3>4. Mult(v, 2 * u)
      BY <3>1, <3>2, <3>3, MultTrans
    <3> QED BY <2>3, <2>5, <3>1, <3>4
  <2>9. CASE w < u
    <3>1. Good(w, u)
      <4> HIDE DEF Good
      <4> QED BY <2>3, <2>5, <2>6, <2>9
    <3> QED BY <2>3, <2>4, <2>5, <3>1
  <2> QED BY <2>5, <2>7, <2>8, <2>9
<1>2. t \notin T
  BY <1>1
<1> QED BY <1>2

\* A place for a size is one for any smaller size.
LEMMA MultDown ==
    ASSUME NEW s \in Sizes, NEW t \in Sizes, s <= t, NEW a \in Int, Mult(a, t)
    PROVE  Mult(a, s)
<1>0. s \in Nat \ {0} /\ t \in Nat \ {0} /\ 2 * s \in Nat \ {0}
  BY SizeIs
<1>1. CASE s = t
  BY <1>1
<1>2. CASE s < t
  <2>1. Mult(t, 2 * s) /\ Mult(2 * s, s)
    BY <1>0, <1>2, SizesDouble, MultSelf
  <2>2. Mult(t, s)
    BY <1>0, <2>1, MultTrans
  <2> QED BY <1>0, <2>2, MultTrans
<1> QED BY <1>0, <1>1, <1>2

\* Floor(a, s) is the last place for size s up to a.
LEMMA FloorIs ==
    ASSUME NEW s \in Nat \ {0}, NEW a \in Nat
    PROVE  /\ Floor(a, s) \in Nat /\ Mult(Floor(a, s), s)
           /\ Floor(a, s) <= a /\ a < Floor(a, s) + s
<1>1. PICK d \in Int, r \in Int : d = a \div s /\ r = a % s
  OBVIOUS
<1>2. a = d * s + r /\ 0 <= r /\ r < s
  <2>1. s \in Nat /\ s > 0 /\ a \in Int
    OBVIOUS
  <2> QED BY <1>1, <2>1, Division
<1>3. PICK b \in Int : b = s * d /\ b = d * s
  OBVIOUS
<1>4. Mult(b, s)
  BY <1>3, MultOf
<1>5. a = b + r
  BY <1>2, <1>3
<1>6. Floor(a, s) = b
  <2>1. Floor(a, s) = a - r
    BY <1>1 DEF Floor
  <2> QED BY <1>5, <2>1
<1>7. ASSUME b < 0 PROVE FALSE
  <2>1. Mult(0, s)
    BY MultSelf
  <2>2. b + s <= 0
    BY <1>4, <1>7, <2>1, MultApart
  <2> QED BY <1>2, <1>5, <2>2
<1> QED BY <1>2, <1>4, <1>5, <1>6, <1>7

\* It is the only one that a is in.
LEMMA FloorOne ==
    ASSUME NEW s \in Nat \ {0}, NEW a \in Nat, NEW b \in Nat, Mult(b, s), b <= a, a < b + s
    PROVE  Floor(a, s) = b
<1>1. /\ Floor(a, s) \in Nat /\ Mult(Floor(a, s), s)
      /\ Floor(a, s) <= a /\ a < Floor(a, s) + s
  BY FloorIs
<1>2. ~(b < Floor(a, s))
  BY <1>1, MultApart
<1>3. ~(Floor(a, s) < b)
  BY <1>1, MultApart
<1> QED BY <1>1, <1>2, <1>3

\* The sibling of the object of size s at a, in the object of twice that size.
LEMMA SiblingIs ==
    ASSUME NEW s \in Nat \ {0}, NEW a \in Nat, Mult(a, s)
    PROVE  /\ Sibling(a, s) \in Nat /\ Mult(Sibling(a, s), s)
           /\ Mult(a, 2 * s) => Sibling(a, s) = a + s
           /\ ~Mult(a, 2 * s) => Sibling(a, s) = a - s /\ Mult(a - s, 2 * s)
<1>0. 2 * s \in Nat \ {0}
  OBVIOUS
<1>1. CASE Mult(a, 2 * s)
  <2>1. Sibling(a, s) = a + s
    BY <1>1 DEF Sibling, Mult
  <2>2. Mult(a + s, s)
    BY MultSelf, MultSum
  <2> QED BY <1>1, <2>1, <2>2
<1>2. CASE ~Mult(a, 2 * s)
  <2>1. Sibling(a, s) = a - s
    BY <1>2 DEF Sibling, Mult
  <2>2. Mult(a - s, s)
    BY MultSelf, MultSum
  <2>3. Mult(Floor(a, 2 * s), 2 * s) /\ Floor(a, 2 * s) \in Nat
        /\ Floor(a, 2 * s) <= a /\ a < Floor(a, 2 * s) + 2 * s
    BY <1>0, FloorIs
  <2>4. Mult(Floor(a, 2 * s), s)
    BY <1>0, <2>3, MultSelf, MultTrans
  <2>5. Floor(a, 2 * s) # a
    BY <1>2, <2>3
  <2>6. Floor(a, 2 * s) + s <= a
    BY <2>3, <2>4, <2>5, MultApart
  <2>7. Mult(Floor(a, 2 * s) + s, s)
    BY <2>3, <2>4, MultSelf, MultSum
  <2>8. ~(Floor(a, 2 * s) + s < a)
    BY <2>3, <2>7, MultApart
  <2>9. Floor(a, 2 * s) = a - s
    BY <2>3, <2>6, <2>8
  <2> QED BY <1>2, <2>1, <2>2, <2>3, <2>9
<1> QED BY <1>1, <1>2

\* A sibling's sibling is the object itself, and only one of the two is a place
\* for twice the size.
LEMMA SiblingBack ==
    ASSUME NEW s \in Nat \ {0}, NEW a \in Nat, Mult(a, s)
    PROVE  /\ Sibling(a, s) # a /\ Sibling(Sibling(a, s), s) = a
           /\ Mult(a, 2 * s) => ~Mult(a + s, 2 * s)
<1>0. 2 * s \in Nat \ {0}
  OBVIOUS
<1>1. ASSUME NEW b \in Nat, Mult(b, 2 * s), Mult(b + s, 2 * s) PROVE FALSE
  <2>1. b < b + s /\ ~(b + 2 * s <= b + s)
    OBVIOUS
  <2> QED BY <1>0, <1>1, <2>1, MultApart
<1>2. CASE Mult(a, 2 * s)
  <2>1. Sibling(a, s) = a + s /\ ~Mult(a + s, 2 * s) /\ Mult(a + s, s)
    BY <1>1, <1>2, SiblingIs
  <2>2. Sibling(a + s, s) = (a + s) - s
    BY <2>1, SiblingIs
  <2> QED BY <2>1, <2>2
<1>3. CASE ~Mult(a, 2 * s)
  <2>1. Sibling(a, s) = a - s /\ Mult(a - s, 2 * s) /\ Mult(a - s, s) /\ a - s \in Nat
    BY <1>3, SiblingIs
  <2>2. Sibling(a - s, s) = (a - s) + s
    BY <2>1, SiblingIs
  <2> QED BY <1>3, <2>1, <2>2
<1> QED BY <1>2, <1>3

\* The largest object that may be at s is of size s.
LEMMA LowestBitIs ==
    ASSUME NEW s \in Sizes
    PROVE  LowestBit(s) = s
<1>0. s \in Nat \ {0}
  BY SizeIs
<1>1. s % s = 0 /\ \A t \in Sizes : s % t = 0 => t <= s
  <2>1. s % s = 0
    BY <1>0, MultSelf DEF Mult
  <2>2. ASSUME NEW t \in Sizes, s % t = 0 PROVE t <= s
    <3>1. t \in Nat \ {0} /\ Mult(s, t) /\ Mult(0, t)
      BY <2>2, SizeIs, MultSelf DEF Mult
    <3>2. 0 + t <= s
      BY <1>0, <3>1, MultApart
    <3> QED BY <3>1, <3>2
  <2> QED BY <2>1, <2>2
<1>2. \A u, v \in Sizes : (/\ s % u = 0 /\ \A t \in Sizes : s % t = 0 => t <= u
                           /\ s % v = 0 /\ \A t \in Sizes : s % t = 0 => t <= v) => u = v
  BY SizeIs
<1> QED BY <1>1, <1>2 DEF LowestBit

------------------------------------------------------------------------------
(* Objects that tile a file.                                               *)

\* z says at which offsets of a file of size n there are objects, and of which
\* sizes.
Tiles(n, z) ==
    /\ DOMAIN z \subseteq 0..(n - 1)
    /\ \A a \in DOMAIN z : z[a] \in Sizes /\ Mult(a, z[a]) /\ a + z[a] <= n
    /\ \A a, b \in DOMAIN z : a < b => a + z[a] <= b
    /\ \A o \in 0..(n - 1) : \E a \in DOMAIN z : a <= o /\ o < a + z[a]

\* An object of a divided file is aligned and ends in the file.
LEMMA TileIs ==
    ASSUME NEW n \in Nat, NEW z, Tiles(n, z), NEW a \in DOMAIN z
    PROVE  a \in Nat /\ a < n /\ z[a] \in Sizes /\ z[a] \in Nat /\ z[a] >= 1
           /\ Mult(a, z[a]) /\ a + z[a] <= n
BY SizeIs DEF Tiles

\* Objects have no offset in common.
LEMMA OneTile ==
    ASSUME NEW n \in Nat, NEW z, Tiles(n, z), NEW a \in DOMAIN z, NEW b \in DOMAIN z,
           a <= b, b < a + z[a]
    PROVE  a = b
<1>1. a \in Nat /\ b \in Nat /\ z[a] \in Nat
  BY TileIs
<1>2. a < b => a + z[a] <= b
  BY DEF Tiles
<1> QED BY <1>1, <1>2

\* After an object comes the next one, or the end.
LEMMA NextTile ==
    ASSUME NEW n \in Nat, NEW z, Tiles(n, z), NEW a \in DOMAIN z
    PROVE  a + z[a] = n \/ a + z[a] \in DOMAIN z
<1>1. a \in Nat /\ z[a] \in Nat /\ z[a] >= 1 /\ a + z[a] <= n
  BY TileIs
<1>2. CASE a + z[a] < n
  <2>1. a + z[a] \in 0..(n - 1)
    BY <1>1, <1>2
  <2>2. PICK b \in DOMAIN z : b <= a + z[a] /\ a + z[a] < b + z[b]
    BY <2>1 DEF Tiles
  <2>3. b \in Nat /\ z[b] \in Nat
    BY TileIs
  <2>4. ~(a < b) => b <= a
    BY <1>1, <2>3
  <2>5. ~(b < a)
    <3>1. b < a => b + z[b] <= a
      BY DEF Tiles
    <3> QED BY <1>1, <2>2, <2>3, <3>1
  <2>6. b # a
    BY <1>1, <2>2, <2>3
  <2>7. a < b
    BY <1>1, <2>3, <2>5, <2>6
  <2>8. a + z[a] <= b
    BY <2>7 DEF Tiles
  <2> QED BY <1>1, <2>2, <2>3, <2>8
<1> QED BY <1>1, <1>2

\* Of two places for objects one is inside the other, or they are apart.
LEMMA Nested ==
    ASSUME NEW s \in Sizes, NEW t \in Sizes, s <= t, NEW a \in Nat, NEW b \in Nat,
           Mult(a, s), Mult(b, t)
    PROVE  /\ a < b => a + s <= b
           /\ a < b + t => a + s <= b + t
           /\ b < a => b + s <= a
<1>1. s \in Nat \ {0} /\ t \in Nat \ {0}
  BY SizeIs
<1>2. Mult(b, s) /\ Mult(t, s)
  <2>1. Mult(t, t)
    BY <1>1, MultSelf
  <2> QED BY <1>1, <2>1, MultDown
<1>3. Mult(b + t, s)
  BY <1>1, <1>2, MultSum
<1>4. a < b => a + s <= b
  BY <1>1, <1>2, MultApart
<1>5. a < b + t => a + s <= b + t
  BY <1>1, <1>3, MultApart
<1>6. b < a => b + s <= a
  BY <1>1, <1>2, MultApart
<1> QED BY <1>4, <1>5, <1>6

\* A file that doubles is divided as before, with one more object behind the
\* old end.
LEMMA TilesGrow ==
    ASSUME NEW n \in Sizes, NEW z, Tiles(n, z), NEW y, DOMAIN y = DOMAIN z \cup {n},
           y[n] = n, \A a \in DOMAIN z : y[a] = z[a]
    PROVE  Tiles(2 * n, y) /\ n \notin DOMAIN z
<1>1. n \in Nat /\ n >= 1 /\ 2 * n \in Nat
  BY SizeIs
<1>2. \A a \in DOMAIN z : a \in Nat /\ a < n /\ z[a] \in Nat /\ z[a] \in Sizes
                          /\ Mult(a, z[a]) /\ a + z[a] <= n
  BY <1>1, TileIs
<1>3. DOMAIN y \subseteq 0..(2 * n - 1)
  BY <1>1, <1>2
<1>4. \A a \in DOMAIN y : y[a] \in Sizes /\ Mult(a, y[a]) /\ a + y[a] <= 2 * n
  <2>1. Mult(n, n)
    BY <1>1, MultSelf
  <2> QED BY <1>1, <1>2, <2>1
<1>5. \A a, b \in DOMAIN y : a < b => a + y[a] <= b
  <2>1. \A a, b \in DOMAIN z : a < b => a + z[a] <= b
    BY DEF Tiles
  <2> QED BY <1>1, <1>2, <2>1
<1>6. ASSUME NEW o \in 0..(2 * n - 1) PROVE \E a \in DOMAIN y : a <= o /\ o < a + y[a]
  <2>1. CASE o < n
    <3>1. o \in 0..(n - 1)
      BY <1>1, <2>1
    <3>2. PICK a \in DOMAIN z : a <= o /\ o < a + z[a]
      BY <3>1 DEF Tiles
    <3> QED BY <3>2
  <2>2. CASE o >= n
    BY <1>1, <2>2
  <2> QED BY <1>1, <2>1, <2>2
<1>7. n \notin DOMAIN z
  BY <1>1, <1>2
<1> QED BY <1>3, <1>4, <1>5, <1>6, <1>7 DEF Tiles

\* What is left of an object at a, of size c, of which s is used.
Parts(a, s, c) == {a + u : u \in {v \in Sizes : s <= v /\ v < c}}

\* A part that is cut off is aligned, in the object, behind what is used and
\* apart from it.
LEMMA PartIs ==
    ASSUME NEW s \in Sizes, NEW c \in Sizes, s <= c, NEW a \in Nat, Mult(a, c),
           NEW b \in Parts(a, s, c)
    PROVE  /\ b \in Nat /\ b - a \in Sizes /\ a + s <= b /\ b + (b - a) <= a + c
           /\ Mult(b, b - a) /\ a < b /\ b < a + c
           /\ Mult(a, 2 * (b - a))
<1>1. PICK u \in Sizes : b = a + u /\ s <= u /\ u < c
  BY DEF Parts
<1>2. s \in Nat /\ c \in Nat /\ u \in Nat /\ s >= 1 /\ u >= 1 /\ u \in Nat \ {0}
  BY SizeIs
<1>3. 2 * u \in Sizes /\ 2 * u <= c
  BY <1>1, SizesDouble
<1>4. Mult(a, u) /\ Mult(u, u)
  BY <1>1, <1>2, MultDown, MultSelf
<1>5. Mult(a + u, u)
  BY <1>2, <1>4, MultSum
<1>6. Mult(a, 2 * u)
  BY <1>3, MultDown
<1>7. b - a = u
  BY <1>1, <1>2
<1> QED BY <1>1, <1>2, <1>3, <1>5, <1>6, <1>7

\* Behind the s in use the parts leave nothing out.
LEMMA PartsCover ==
    ASSUME NEW s \in Sizes, NEW c \in Sizes, s <= c, NEW a \in Nat, NEW o \in Nat,
           a + s <= o, o < a + c
    PROVE  \E b \in Parts(a, s, c) : b <= o /\ o < b + (b - a)
<1> DEFINE T == {v \in Sizes : a + v <= o}
<1>1. s \in T /\ T \in SUBSET Sizes
  OBVIOUS
<1>2. PICK u \in T : \A k \in T : k <= u
  <2> HIDE DEF T
  <2> QED BY <1>1, GreatestSize
<1>3. u \in Sizes /\ a + u <= o /\ s <= u
  BY <1>1, <1>2
<1>4. u \in Nat /\ c \in Nat /\ u >= 1
  BY <1>3, SizeIs
<1>5. u < c
  BY <1>3, <1>4
<1>6. 2 * u \in Sizes /\ 2 * u \in Nat
  BY <1>3, <1>4, <1>5, SizesDouble
<1>7. ~(a + 2 * u <= o)
  <2>1. 2 * u \notin T
    <3> HIDE DEF T
    <3> QED BY <1>2, <1>4, <1>6
  <2> QED BY <1>6, <2>1
<1>8. a + u \in Parts(a, s, c)
  BY <1>3, <1>5 DEF Parts
<1> QED BY <1>3, <1>4, <1>7, <1>8

\* Parts do not overlap.
LEMMA PartsApart ==
    ASSUME NEW s \in Sizes, NEW c \in Sizes, s <= c, NEW a \in Nat, Mult(a, c),
           NEW b \in Parts(a, s, c), NEW d \in Parts(a, s, c), b < d
    PROVE  b + (b - a) <= d
<1>1. b \in Nat /\ d \in Nat /\ b - a \in Sizes /\ d - a \in Sizes
  BY PartIs
<1>2. b - a < d - a
  BY <1>1
<1>3. 2 * (b - a) <= d - a
  BY <1>1, <1>2, SizesDouble
<1> QED BY <1>1, <1>3

\* An object and the parts cut off it tile what the object did: alloc() leaves
\* a divided file.
LEMMA TilesCut ==
    ASSUME NEW n \in Nat, NEW z, Tiles(n, z), NEW a \in DOMAIN z, NEW s \in Sizes, s <= z[a],
           NEW y, DOMAIN y = DOMAIN z \cup Parts(a, s, z[a]), y[a] = s,
           \A b \in Parts(a, s, z[a]) : y[b] = b - a,
           \A b \in DOMAIN z : b # a => y[b] = z[b]
    PROVE  Tiles(n, y) /\ Parts(a, s, z[a]) \cap DOMAIN z = {}
<1> DEFINE P == Parts(a, s, z[a])
<1>1. \A b \in DOMAIN z : b \in Nat /\ b < n /\ z[b] \in Nat /\ z[b] \in Sizes /\ z[b] >= 1
                          /\ Mult(b, z[b]) /\ b + z[b] <= n
  BY TileIs
<1>2. \A b \in P : /\ b \in Nat /\ b - a \in Sizes /\ a + s <= b /\ b + (b - a) <= a + z[a]
                   /\ Mult(b, b - a) /\ a < b /\ b < a + z[a]
  BY <1>1, PartIs
<1>3. s \in Nat /\ s >= 1 /\ Mult(a, s)
  BY <1>1, SizeIs, MultDown
<1>4. \A b, d \in DOMAIN z : b < d => b + z[b] <= d
  BY DEF Tiles
<1>5. P \cap DOMAIN z = {}
  BY <1>1, <1>2, <1>4
<1>6. DOMAIN y = DOMAIN z \cup P /\ \A b \in P : y[b] = b - a
  OBVIOUS
<1> HIDE DEF P
<1>7. DOMAIN y \subseteq 0..(n - 1)
  BY <1>1, <1>2, <1>6
<1>8. ASSUME NEW b \in DOMAIN y PROVE y[b] \in Sizes /\ Mult(b, y[b]) /\ b + y[b] <= n
  <2>1. CASE b \in P
    BY <1>1, <1>2, <1>6, <2>1
  <2>2. CASE b = a
    BY <1>1, <1>3, <2>2
  <2>3. CASE b \in DOMAIN z /\ b # a
    BY <1>1, <2>3
  <2> QED BY <1>6, <2>1, <2>2, <2>3
<1>9. ASSUME NEW b \in DOMAIN y, NEW d \in DOMAIN y, b < d PROVE b + y[b] <= d
  <2>1. CASE b \in P /\ d \in P
    <3>1. b + (b - a) <= d
      BY <1>1, <1>9, <2>1, PartsApart DEF P
    <3> QED BY <1>6, <2>1, <3>1
  <2>2. CASE b \in P /\ d \in DOMAIN z
    <3>1. a < d
      BY <1>1, <1>2, <1>9, <2>2
    <3>2. a + z[a] <= d
      BY <1>4, <2>2, <3>1
    <3> QED BY <1>1, <1>2, <1>6, <2>2, <3>2
  <2>3. CASE b = a /\ d \in P
    BY <1>2, <2>3
  <2>4. CASE b \in DOMAIN z /\ b # a /\ d \in P
    <3>1. b < a
      <4>1. ~(a < b)
        <5>1. a < b => a + z[a] <= b
          BY <1>4, <2>4
        <5> QED BY <1>1, <1>2, <1>9, <2>4, <5>1
      <4> QED BY <1>1, <2>4, <4>1
    <3>2. b + z[b] <= a
      BY <1>4, <2>4, <3>1
    <3> QED BY <1>1, <1>2, <2>4, <3>2
  <2>5. CASE b = a /\ d \in DOMAIN z
    BY <1>1, <1>3, <1>4, <1>9, <2>5
  <2>6. CASE b \in DOMAIN z /\ b # a /\ d \in DOMAIN z
    BY <1>4, <1>9, <2>6
  <2> QED BY <1>6, <2>1, <2>2, <2>3, <2>4, <2>5, <2>6
<1>10. ASSUME NEW o \in 0..(n - 1) PROVE \E b \in DOMAIN y : b <= o /\ o < b + y[b]
  <2>1. PICK b \in DOMAIN z : b <= o /\ o < b + z[b]
    BY DEF Tiles
  <2>2. CASE b # a
    BY <1>6, <2>1, <2>2
  <2>3. CASE b = a /\ o < a + s
    BY <1>6, <2>1, <2>3
  <2>4. CASE b = a /\ a + s <= o
    <3>1. o \in Nat /\ o < a + z[a]
      BY <2>1, <2>4
    <3>2. PICK d \in P : d <= o /\ o < d + (d - a)
      BY <1>1, <2>4, <3>1, PartsCover DEF P
    <3> QED BY <1>6, <3>2
  <2> QED BY <1>1, <1>3, <2>2, <2>3, <2>4
<1> QED BY <1>5, <1>7, <1>8, <1>9, <1>10 DEF Tiles, P

\* An aligned block in place of all the objects in it tiles the file too: so
\* does dealloc().
LEMMA TilesJoin ==
    ASSUME NEW n \in Nat, NEW z, Tiles(n, z), NEW a \in DOMAIN z, NEW t \in Sizes,
           z[a] <= t, NEW b \in Nat, Mult(b, t), b <= a, a < b + t, b + t <= n,
           NEW y, DOMAIN y = {o \in DOMAIN z : o < b \/ o >= b + t} \cup {b}, y[b] = t,
           \A o \in DOMAIN z : o < b \/ o >= b + t => y[o] = z[o]
    PROVE  /\ Tiles(n, y)
           /\ \A o \in DOMAIN z : o < b => o + z[o] <= b
<1>1. \A o \in DOMAIN z : o \in Nat /\ o < n /\ z[o] \in Nat /\ z[o] \in Sizes /\ z[o] >= 1
                          /\ Mult(o, z[o]) /\ o + z[o] <= n
  BY TileIs
<1>2. \A o, p \in DOMAIN z : o < p => o + z[o] <= p
  BY DEF Tiles
<1>3. t \in Nat /\ t >= 1
  BY SizeIs
<1>4. ASSUME NEW o \in DOMAIN z, o < b PROVE o + z[o] <= b
  <2>1. CASE z[o] <= t
    BY <1>1, <1>4, <2>1, Nested
  <2>2. CASE t < z[o]
    <3>1. o + z[o] <= a
      BY <1>1, <1>2, <1>4
    <3>2. b < o + z[o] => b + t <= o + z[o]
      BY <1>1, <1>3, <2>2, Nested
    <3> QED BY <1>1, <1>3, <3>1, <3>2
  <2> QED BY <1>1, <1>3, <2>1, <2>2
<1>5. DOMAIN y \subseteq 0..(n - 1)
  BY <1>1, <1>3
<1>6. \A o \in DOMAIN y : y[o] \in Sizes /\ Mult(o, y[o]) /\ o + y[o] <= n
  BY <1>1
<1>7. ASSUME NEW o \in DOMAIN y, NEW p \in DOMAIN y, o < p PROVE o + y[o] <= p
  <2>1. CASE o = b
    <3>1. p \in DOMAIN z /\ p >= b + t
      BY <1>1, <1>3, <1>7, <2>1
    <3> QED BY <2>1, <3>1
  <2>2. CASE o # b
    <3>1. o \in DOMAIN z /\ y[o] = z[o]
      BY <2>2
    <3>2. p = b \/ p \in DOMAIN z
      OBVIOUS
    <3> QED BY <1>2, <1>4, <1>7, <3>1, <3>2
  <2> QED BY <2>1, <2>2
<1>8. ASSUME NEW o \in 0..(n - 1) PROVE \E p \in DOMAIN y : p <= o /\ o < p + y[p]
  <2>1. CASE b <= o /\ o < b + t
    BY <2>1
  <2>2. CASE o < b
    <3>1. PICK p \in DOMAIN z : p <= o /\ o < p + z[p]
      BY DEF Tiles
    <3>2. p < b /\ p \in DOMAIN y /\ y[p] = z[p]
      BY <1>1, <2>2, <3>1
    <3> QED BY <3>1, <3>2
  <2>3. CASE b + t <= o
    <3>1. PICK p \in DOMAIN z : p <= o /\ o < p + z[p]
      BY DEF Tiles
    <3>2. ~(p < b)
      BY <1>1, <1>3, <1>4, <2>3, <3>1
    <3>3. ASSUME p < b + t PROVE FALSE
      <4>1. CASE z[p] <= t
        <5>1. p + z[p] <= b + t
          BY <1>1, <3>3, <4>1, Nested
        <5> QED BY <1>1, <1>3, <2>3, <3>1, <5>1
      <4>2. CASE t < z[p]
        <5>1. ~(b < p)
          <6>1. p \in Nat /\ z[p] \in Sizes /\ Mult(p, z[p]) /\ t <= z[p]
            BY <1>1, <1>3, <4>2
          <6>2. b < p => b + t <= p
            BY <6>1, Nested
          <6> QED BY <1>1, <1>3, <3>3, <6>2
        <5>2. p <= a /\ a < p + z[p]
          BY <1>1, <1>3, <2>3, <3>1, <5>1
        <5>3. p = a
          BY <5>2, OneTile
        <5> QED BY <1>1, <1>3, <4>2, <5>3
      <4> QED BY <1>1, <1>3, <4>1, <4>2
    <3>4. p \in DOMAIN y /\ y[p] = z[p]
      BY <1>1, <1>3, <3>2, <3>3
    <3> QED BY <3>1, <3>4
  <2> QED BY <1>3, <2>1, <2>2, <2>3
<1> QED BY <1>4, <1>5, <1>6, <1>7, <1>8 DEF Tiles

------------------------------------------------------------------------------
(* Freelists.                                                              *)

\* The lists that begin at free have the objects F, and each of them once.
Lists(free, obj, F) ==
    /\ F \subseteq Offsets \ {0}
    /\ \A s \in Sizes : free[s] \notin {0, End} =>
          free[s] \in F /\ obj[free[s]].size = s /\ obj[free[s]].prev = Root(s)
    /\ \A a \in F :
          /\ obj[a].size \in Sizes
          /\ obj[a].next # 0 => /\ obj[a].next \in F /\ obj[obj[a].next].prev = a
                                /\ obj[obj[a].next].size = obj[a].size
          /\ \/ obj[a].prev = Root(obj[a].size) /\ free[obj[a].size] = a
             \/ obj[a].prev \in F /\ obj[obj[a].prev].next = a
    /\ \A S \in SUBSET F : S # {} => \E a \in S : obj[a].prev \notin S

\* The root's pointers are told apart from the places of objects.
LEMMA RootIs ==
    ASSUME NEW s \in Sizes
    PROVE  Root(s) \in Int /\ Root(s) < 0 /\ Root(s) \notin Offsets /\ Root(s) # 0
           /\ -Root(s) = s /\ End \notin Offsets
BY SizeIs DEF Root, Offsets, End

\* a becomes the first of the list for size s, before n if there is one.
Pushes(free, obj, F, s, a, n, free2, obj2) ==
    /\ s \in Sizes /\ a \in Offsets /\ a # 0 /\ a \notin F
    /\ free[s] \in {0, End} => n = 0
    /\ free[s] \notin {0, End} => n = free[s]
    /\ free2[s] = a /\ \A t \in Sizes : t # s => free2[t] = free[t]
    /\ obj2[a].size = s /\ obj2[a].next = n /\ obj2[a].prev = Root(s)
    /\ \A o \in F : obj2[o].size = obj[o].size /\ obj2[o].next = obj[o].next
    /\ \A o \in F : o # n => obj2[o].prev = obj[o].prev
    /\ n \in F => obj2[n].prev = a

\* A new first object makes the lists those of one object more.
LEMMA ListsPush ==
    ASSUME NEW free, NEW obj, NEW F, Lists(free, obj, F),
           NEW s, NEW a, NEW n, NEW free2, NEW obj2, Pushes(free, obj, F, s, a, n, free2, obj2)
    PROVE  Lists(free2, obj2, F \cup {a})
<1> s \in Sizes /\ a \in Offsets /\ a # 0 /\ a \notin F
    /\ (free[s] \in {0, End} => n = 0) /\ (free[s] \notin {0, End} => n = free[s])
    /\ free2[s] = a /\ (\A t \in Sizes : t # s => free2[t] = free[t])
    /\ obj2[a].size = s /\ obj2[a].next = n /\ obj2[a].prev = Root(s)
    /\ (\A o \in F : obj2[o].size = obj[o].size /\ obj2[o].next = obj[o].next)
    /\ (\A o \in F : o # n => obj2[o].prev = obj[o].prev)
    /\ (n \in F => obj2[n].prev = a)
  BY DEF Pushes
<1>1. /\ F \subseteq Offsets \ {0}
      /\ \A t \in Sizes : free[t] \notin {0, End} =>
            free[t] \in F /\ obj[free[t]].size = t /\ obj[free[t]].prev = Root(t)
      /\ \A o \in F :
            /\ obj[o].size \in Sizes
            /\ obj[o].next # 0 => /\ obj[o].next \in F /\ obj[obj[o].next].prev = o
                                  /\ obj[obj[o].next].size = obj[o].size
            /\ \/ obj[o].prev = Root(obj[o].size) /\ free[obj[o].size] = o
               \/ obj[o].prev \in F /\ obj[obj[o].prev].next = o
      /\ \A S \in SUBSET F : S # {} => \E o \in S : obj[o].prev \notin S
  BY DEF Lists
<1>2. \A t \in Sizes : Root(t) \notin Offsets
  BY RootIs
<1>3. n # 0 => n \in F /\ n = free[s] /\ obj[n].size = s /\ obj[n].prev = Root(s)
  BY <1>1
<1>4. n \in F => obj2[n].size = s /\ n # 0
  BY <1>1, <1>3
<1>5. F \cup {a} \subseteq Offsets \ {0}
  BY <1>1
<1>6. ASSUME NEW t \in Sizes, free2[t] \notin {0, End}
      PROVE  free2[t] \in F \cup {a} /\ obj2[free2[t]].size = t /\ obj2[free2[t]].prev = Root(t)
  <2>1. CASE t = s
    BY <2>1
  <2>2. CASE t # s
    <3>1. free2[t] = free[t] /\ free[t] \in F /\ obj[free[t]].size = t
          /\ obj[free[t]].prev = Root(t)
      BY <1>1, <1>6, <2>2
    <3>2. free[t] # n
      BY <1>3, <1>4, <2>2, <3>1
    <3> QED BY <3>1, <3>2
  <2> QED BY <2>1, <2>2
<1>7. ASSUME NEW o \in F \cup {a}
      PROVE  /\ obj2[o].size \in Sizes
             /\ obj2[o].next # 0 => /\ obj2[o].next \in F \cup {a}
                                    /\ obj2[obj2[o].next].prev = o
                                    /\ obj2[obj2[o].next].size = obj2[o].size
             /\ \/ obj2[o].prev = Root(obj2[o].size) /\ free2[obj2[o].size] = o
                \/ obj2[o].prev \in F \cup {a} /\ obj2[obj2[o].prev].next = o
  <2>1. CASE o = a
    BY <1>3, <1>4, <2>1
  <2>2. CASE o \in F
    <3>1. o # a
      BY <2>2
    <3>2. obj2[o].size = obj[o].size /\ obj2[o].next = obj[o].next /\ obj[o].size \in Sizes
      BY <1>1, <2>2
    <3>3. obj[o].next # 0 => /\ obj[o].next \in F /\ obj2[obj[o].next].prev = o
                             /\ obj2[obj[o].next].size = obj2[o].size
      <4>1. ASSUME obj[o].next # 0 PROVE obj[o].next # n
        <5>1. obj[o].next \in F /\ obj[obj[o].next].prev = o
          BY <1>1, <2>2, <4>1
        <5>2. o \in Offsets
          BY <1>1, <2>2
        <5>3. n = obj[o].next => obj[n].prev = Root(s) /\ obj[n].prev = o
          BY <1>3, <4>1, <5>1
        <5> QED BY <1>2, <5>2, <5>3
      <4> QED BY <1>1, <2>2, <3>2, <4>1
    <3>4. CASE o = n
      BY <2>2, <3>2, <3>3, <3>4
    <3>5. CASE o # n
      <4>1. obj2[o].prev = obj[o].prev
        BY <2>2, <3>5
      <4>2. CASE obj[o].prev = Root(obj[o].size) /\ free[obj[o].size] = o
        <5>1. obj[o].size # s
          <6>1. o \notin {0, End}
            BY <1>1, <2>2, RootIs, SizesOK
          <6> QED BY <3>5, <4>2, <6>1
        <5> QED BY <3>2, <3>3, <4>1, <4>2, <5>1
      <4>3. CASE obj[o].prev \in F /\ obj[obj[o].prev].next = o
        BY <3>2, <3>3, <4>1, <4>3
      <4> QED BY <1>1, <2>2, <4>2, <4>3
    <3> QED BY <3>2, <3>3, <3>4, <3>5
  <2> QED BY <2>1, <2>2
<1>8. ASSUME NEW S \in SUBSET (F \cup {a}), S # {} PROVE \E o \in S : obj2[o].prev \notin S
  <2>1. CASE a \in S
    <3>1. Root(s) \notin S
      BY <1>2, <1>5
    <3> QED BY <2>1, <3>1
  <2>2. CASE a \notin S
    <3>1. S \in SUBSET F
      BY <2>2
    <3>2. PICK o \in S : obj[o].prev \notin S
      BY <1>1, <1>8, <3>1
    <3> QED BY <2>2, <3>1, <3>2
  <2> QED BY <2>1, <2>2
<1> QED BY <1>5, <1>6, <1>7, <1>8 DEF Lists

\* An object of a list is neither its own neighbour nor twice that of another.
LEMMA ListsApart ==
    ASSUME NEW free, NEW obj, NEW F, Lists(free, obj, F), NEW x \in F,
           NEW n, n = obj[x].next, NEW p, p = obj[x].prev
    PROVE  n # x /\ p # x /\ (n # 0 => n # p)
<1>1. F \subseteq Offsets \ {0} /\ \A S \in SUBSET F : S # {} => \E o \in S : obj[o].prev \notin S
  BY DEF Lists
<1>2. p # x
  <2>1. {x} \in SUBSET F /\ {x} # {}
    OBVIOUS
  <2>2. \E o \in {x} : obj[o].prev \notin {x}
    BY <1>1, <2>1
  <2> QED BY <2>2
<1>3. n # 0 => n \in F /\ obj[n].prev = x
  BY DEF Lists
<1>4. n # x
  <2>1. x # 0
    BY <1>1
  <2> QED BY <1>2, <1>3, <2>1
<1>5. ASSUME n # 0, n = p PROVE FALSE
  <2>1. {n, x} \in SUBSET F /\ {n, x} # {}
    BY <1>3, <1>5
  <2>2. \E o \in {n, x} : obj[o].prev \notin {n, x}
    BY <1>1, <2>1
  <2> QED BY <1>3, <1>5, <2>2
<1> QED BY <1>2, <1>4, <1>5

\* x leaves its list, between n and what points to it.
Pops(free, obj, F, x, n, p, free2, obj2) ==
    /\ n = obj[x].next /\ p = obj[x].prev
    /\ \A t \in Sizes : p = Root(t) => free2[t] = n
    /\ \A t \in Sizes : p # Root(t) => free2[t] = free[t]
    /\ \A o \in F : o # x => obj2[o].size = obj[o].size
    /\ \A o \in F : o # x /\ o # n => obj2[o].prev = obj[o].prev
    /\ \A o \in F : o # x /\ o # p => obj2[o].next = obj[o].next
    /\ n \in F => obj2[n].prev = p
    /\ p \in F => obj2[p].next = n

\* An object between its neighbours can be taken out: the lists are those of
\* the others.
LEMMA ListsPop ==
    ASSUME NEW free, NEW obj, NEW F, Lists(free, obj, F), NEW x \in F, NEW n, NEW p,
           NEW free2, NEW obj2, Pops(free, obj, F, x, n, p, free2, obj2)
    PROVE  Lists(free2, obj2, F \ {x})
<1> /\ n = obj[x].next /\ p = obj[x].prev
    /\ \A t \in Sizes : p = Root(t) => free2[t] = n
    /\ \A t \in Sizes : p # Root(t) => free2[t] = free[t]
    /\ \A o \in F : o # x => obj2[o].size = obj[o].size
    /\ \A o \in F : o # x /\ o # n => obj2[o].prev = obj[o].prev
    /\ \A o \in F : o # x /\ o # p => obj2[o].next = obj[o].next
    /\ n \in F => obj2[n].prev = p
    /\ p \in F => obj2[p].next = n
  BY DEF Pops
<1>1. /\ F \subseteq Offsets \ {0}
      /\ \A t \in Sizes : free[t] \notin {0, End} =>
            free[t] \in F /\ obj[free[t]].size = t /\ obj[free[t]].prev = Root(t)
      /\ \A o \in F :
            /\ obj[o].size \in Sizes
            /\ obj[o].next # 0 => /\ obj[o].next \in F /\ obj[obj[o].next].prev = o
                                  /\ obj[obj[o].next].size = obj[o].size
            /\ \/ obj[o].prev = Root(obj[o].size) /\ free[obj[o].size] = o
               \/ obj[o].prev \in F /\ obj[obj[o].prev].next = o
      /\ \A S \in SUBSET F : S # {} => \E o \in S : obj[o].prev \notin S
  BY DEF Lists
<1>2. \A t \in Sizes : Root(t) \notin Offsets
  BY RootIs
<1>3. \A t, u \in Sizes : Root(t) = Root(u) => t = u
  BY RootIs
<1>4. p # x
  BY ListsApart
<1>5. n # 0 => n \in F /\ obj[n].prev = x /\ obj[n].size = obj[x].size
  BY <1>1
<1>6. n # x
  BY ListsApart
<1>8. /\ obj[x].size \in Sizes
      /\ \/ p = Root(obj[x].size) /\ free[obj[x].size] = x
         \/ p \in F /\ obj[p].next = x /\ obj[p].size = obj[x].size
  <2>1. x # 0
    BY <1>1
  <2> QED BY <1>1, <2>1
<1>9. p \in F => \A t \in Sizes : p # Root(t)
  BY <1>1, <1>2
<1>10. F \ {x} \subseteq Offsets \ {0}
  BY <1>1
<1>11. \A t \in Sizes : free[t] = x => t = obj[x].size /\ p = Root(t)
  <2>1. x \notin {0, End}
    BY <1>1, RootIs, SizesOK
  <2> QED BY <1>1, <2>1
<1>12. ASSUME NEW t \in Sizes, free2[t] \notin {0, End}
       PROVE  free2[t] \in F \ {x} /\ obj2[free2[t]].size = t /\ obj2[free2[t]].prev = Root(t)
  <2>1. CASE p = Root(t)
    <3>1. free2[t] = n /\ n # 0
      BY <1>12, <2>1
    <3>2. obj[x].size = t
      BY <1>3, <1>8, <1>9, <2>1
    <3> QED BY <1>5, <1>6, <2>1, <3>1, <3>2
  <2>2. CASE p # Root(t)
    <3>1. free2[t] = free[t] /\ free[t] \in F /\ obj[free[t]].size = t
          /\ obj[free[t]].prev = Root(t)
      BY <1>1, <1>12, <2>2
    <3>2. free[t] # x
      BY <1>11, <2>2
    <3>3. free[t] # n
      <4>1. x \in Offsets
        BY <1>1
      <4>2. x # 0 /\ free[t] # 0
        BY <1>1, <3>1
      <4> QED BY <1>2, <1>5, <3>1, <4>1, <4>2
    <3> QED BY <3>1, <3>2, <3>3
  <2> QED BY <2>1, <2>2
<1>13. ASSUME NEW o \in F \ {x}
       PROVE  /\ obj2[o].size \in Sizes
              /\ obj2[o].next # 0 => /\ obj2[o].next \in F \ {x}
                                     /\ obj2[obj2[o].next].prev = o
                                     /\ obj2[obj2[o].next].size = obj2[o].size
              /\ \/ obj2[o].prev = Root(obj2[o].size) /\ free2[obj2[o].size] = o
                 \/ obj2[o].prev \in F \ {x} /\ obj2[obj2[o].prev].next = o
  <2>1. obj2[o].size = obj[o].size /\ obj[o].size \in Sizes /\ o # 0
    BY <1>1
  <2>2. obj2[o].next # 0 => /\ obj2[o].next \in F \ {x}
                            /\ obj2[obj2[o].next].prev = o
                            /\ obj2[obj2[o].next].size = obj2[o].size
    <3>1. CASE o = p
      <4>1. obj2[o].next = n
        BY <3>1
      <4>2. obj[p].size = obj[x].size
        BY <1>1, <1>2, <1>8, <3>1
      <4> QED BY <1>5, <1>6, <2>1, <3>1, <4>1, <4>2
    <3>2. CASE o # p
      <4>1. obj2[o].next = obj[o].next
        BY <3>2
      <4>2. ASSUME obj[o].next # 0 PROVE obj[o].next # x /\ obj[o].next # n
        <5>1. obj[o].next \in F /\ obj[obj[o].next].prev = o
          BY <1>1, <4>2
        <5> QED BY <1>5, <3>2, <4>2, <5>1
      <4> QED BY <1>1, <2>1, <4>1, <4>2
    <3> QED BY <3>1, <3>2
  <2>3. CASE o = n
    <3>1. obj2[o].prev = p /\ obj2[o].size = obj[x].size
      BY <1>5, <2>1, <2>3
    <3>2. CASE p = Root(obj[x].size)
      BY <1>8, <2>1, <2>2, <2>3, <3>1, <3>2
    <3>3. CASE p \in F
      BY <1>4, <2>1, <2>2, <2>3, <3>1, <3>3
    <3> QED BY <1>8, <3>2, <3>3
  <2>4. CASE o # n
    <3>1. obj2[o].prev = obj[o].prev
      BY <2>4
    <3>2. CASE obj[o].prev = Root(obj[o].size) /\ free[obj[o].size] = o
      <4>1. p # Root(obj[o].size)
        <5>1. ASSUME p = Root(obj[o].size) PROVE FALSE
          <6>1. obj[x].size = obj[o].size
            BY <1>3, <1>8, <1>9, <2>1, <5>1
          <6>2. free[obj[x].size] = x
            BY <1>8, <1>9, <2>1, <5>1
          <6> QED BY <3>2, <6>1, <6>2
        <5> QED BY <5>1
      <4> QED BY <2>1, <2>2, <3>1, <3>2, <4>1
    <3>3. CASE obj[o].prev \in F /\ obj[obj[o].prev].next = o
      <4>1. obj[o].prev # x
        BY <2>4, <3>3
      <4>2. obj[o].prev # p
        <5>1. obj[o].prev = p => obj[p].next = o /\ p \in F
          BY <3>3
        <5>2. p \in F => obj[p].next = x
          BY <1>1, <1>2, <1>8
        <5> QED BY <5>1, <5>2
      <4> QED BY <2>1, <2>2, <3>1, <3>3, <4>1, <4>2
    <3> QED BY <1>1, <3>2, <3>3
  <2> QED BY <2>1, <2>2, <2>3, <2>4
<1>14. ASSUME NEW S \in SUBSET (F \ {x}), S # {} PROVE \E o \in S : obj2[o].prev \notin S
  <2>1. CASE n \in S
    <3>1. S \cup {x} \in SUBSET F /\ S \cup {x} # {}
      OBVIOUS
    <3>2. PICK o \in S \cup {x} : obj[o].prev \notin S \cup {x}
      BY <1>1, <3>1
    <3>3. CASE o = x
      BY <2>1, <3>2, <3>3
    <3>4. CASE o # x
      <4>1. n \in F /\ n # 0 /\ obj[n].prev = x
        BY <1>5, <1>10, <2>1
      <4>2. o # n
        BY <3>2, <4>1
      <4> QED BY <3>2, <3>4, <4>2
    <3> QED BY <3>3, <3>4
  <2>2. CASE n \notin S
    <3>1. S \in SUBSET F
      OBVIOUS
    <3>2. PICK o \in S : obj[o].prev \notin S
      BY <1>1, <1>14, <3>1
    <3> QED BY <2>2, <3>2
  <2> QED BY <2>1, <2>2
<1> QED BY <1>10, <1>12, <1>13, <1>14 DEF Lists

------------------------------------------------------------------------------
(* Writes.                                                                 *)

\* f is a record of the fields of a file.
IsFile(f) ==
    /\ f = [size |-> f.size, active |-> f.active, hm |-> f.hm, load |-> f.load,
            entries |-> f.entries, free |-> f.free, obj |-> f.obj]
    /\ f.free = [s \in Sizes |-> f.free[s]] /\ f.obj = [o \in Offsets |-> f.obj[o]]

\* The root says the same, but of the lists.
SameRoot(f, g) ==
    /\ g.size = f.size /\ g.active = f.active /\ g.hm = f.hm
    /\ g.load = f.load /\ g.entries = f.entries

\* The headers are the same, and all of an object that is not free.
SameObj(x, y) == y.type = x.type /\ y.size = x.size /\ (x.type # "free" => y = x)

\* Only links differ.
Alike(f, g) ==
    /\ IsFile(g) /\ SameRoot(f, g) /\ g.free[MaxSize] = f.free[MaxSize]
    /\ \A o \in Offsets : SameObj(f.obj[o], g.obj[o])

\* There is a free object of size s at a, and what differs elsewhere are links.
Placed(f, g, a, s) ==
    /\ IsFile(g) /\ SameRoot(f, g) /\ g.free[MaxSize] = f.free[MaxSize]
    /\ \A o \in Offsets : o < a \/ o >= a + s => SameObj(f.obj[o], g.obj[o])
    /\ g.obj[a].type = "free" /\ g.obj[a].size = s
    /\ \A o \in Offsets : a < o /\ o < a + s => g.obj[o] = Junk

\* What a write of objects leaves alone.
LEMMA SetObj ==
    ASSUME NEW f, IsFile(f), NEW x, x = [o \in Offsets |-> x[o]],
           NEW g, g = [f EXCEPT !.obj = x]
    PROVE  IsFile(g) /\ SameRoot(f, g) /\ g.free = f.free /\ g.obj = x
<1>1. g = [size |-> f.size, active |-> f.active, hm |-> f.hm, load |-> f.load,
            entries |-> f.entries, free |-> f.free, obj |-> x]
  BY DEF IsFile
<1>2. g.size = f.size /\ g.active = f.active /\ g.hm = f.hm /\ g.load = f.load
      /\ g.entries = f.entries /\ g.free = f.free /\ g.obj = x
  BY <1>1
<1>3. IsFile(g)
  BY <1>1, <1>2 DEF IsFile
<1> QED BY <1>2, <1>3 DEF SameRoot

\* What a write of the lists' heads leaves alone.
LEMMA SetFree ==
    ASSUME NEW f, IsFile(f), NEW x, x = [s \in Sizes |-> x[s]],
           NEW g, g = [f EXCEPT !.free = x]
    PROVE  IsFile(g) /\ SameRoot(f, g) /\ g.free = x /\ g.obj = f.obj
<1>1. g = [size |-> f.size, active |-> f.active, hm |-> f.hm, load |-> f.load,
            entries |-> f.entries, free |-> x, obj |-> f.obj]
  BY DEF IsFile
<1>2. g.size = f.size /\ g.active = f.active /\ g.hm = f.hm /\ g.load = f.load
      /\ g.entries = f.entries /\ g.free = x /\ g.obj = f.obj
  BY <1>1
<1>3. IsFile(g)
  BY <1>1, <1>2 DEF IsFile
<1> QED BY <1>2, <1>3 DEF SameRoot

\* What a write of a list's head in the root changes.
LEMMA WriteRoot ==
    ASSUME NEW r, IsFile(r.file), NEW s \in Sizes, NEW a,
           NEW q, q = WriteNext(r, Root(s), a)
    PROVE  /\ IsFile(q.file) /\ SameRoot(r.file, q.file) /\ q.file.obj = r.file.obj
           /\ q.file.free[s] = a
           /\ \A t \in Sizes : t # s => q.file.free[t] = r.file.free[t]
           /\ q.past = r.past \cup {q.file}
<1>1. PICK x : x = [r.file.free EXCEPT ![s] = a]
  OBVIOUS
<1>2. r.file.free = [t \in Sizes |-> r.file.free[t]]
  BY DEF IsFile
<1>3. x = [t \in Sizes |-> x[t]] /\ x[s] = a /\ \A t \in Sizes : t # s => x[t] = r.file.free[t]
  BY <1>1, <1>2
<1>4. q = Write(r, [r.file EXCEPT !.free = x])
  <2>1. Root(s) < 0 /\ -Root(s) = s
    BY RootIs
  <2>2. q = Write(r, [r.file EXCEPT !.free[-Root(s)] = a])
    BY <2>1 DEF WriteNext
  <2> QED BY <1>1, <2>1, <2>2
<1>5. q.file = [r.file EXCEPT !.free = x] /\ q.past = r.past \cup {q.file}
  BY <1>4 DEF Write
<1>6. IsFile(q.file) /\ SameRoot(r.file, q.file) /\ q.file.free = x /\ q.file.obj = r.file.obj
  BY <1>3, <1>5, SetFree
<1> QED BY <1>3, <1>5, <1>6

\* What a write of an object's next pointer changes.
LEMMA WriteLink ==
    ASSUME NEW r, IsFile(r.file), NEW p \in Offsets, NEW a,
           NEW q, q = WriteNext(r, p, a)
    PROVE  /\ IsFile(q.file) /\ SameRoot(r.file, q.file) /\ q.file.free = r.file.free
           /\ q.file.obj[p] = FreeObj(r.file.obj[p].size, a, r.file.obj[p].prev)
           /\ \A o \in Offsets : o # p => q.file.obj[o] = r.file.obj[o]
           /\ q.past = r.past \cup {q.file}
<1>1. PICK x : x = [r.file.obj EXCEPT ![p] = FreeObj(r.file.obj[p].size, a, r.file.obj[p].prev)]
  OBVIOUS
<1>2. r.file.obj = [o \in Offsets |-> r.file.obj[o]]
  BY DEF IsFile
<1>3. /\ x = [o \in Offsets |-> x[o]]
      /\ x[p] = FreeObj(r.file.obj[p].size, a, r.file.obj[p].prev)
      /\ \A o \in Offsets : o # p => x[o] = r.file.obj[o]
  BY <1>1, <1>2
<1>4. q = Write(r, [r.file EXCEPT !.obj = x])
  <2>1. ~(p < 0)
    BY SizesOK DEF Offsets
  <2>2. q = Write(r, [r.file EXCEPT !.obj[p] =
                          FreeObj(r.file.obj[p].size, a, r.file.obj[p].prev)])
    BY <2>1 DEF WriteNext
  <2> QED BY <1>1, <2>2
<1>5. q.file = [r.file EXCEPT !.obj = x] /\ q.past = r.past \cup {q.file}
  BY <1>4 DEF Write
<1>6. IsFile(q.file) /\ SameRoot(r.file, q.file) /\ q.file.free = r.file.free /\ q.file.obj = x
  BY <1>3, <1>5, SetObj
<1> QED BY <1>3, <1>5, <1>6

\* What a write of an object's previous pointer changes; there is none if there
\* is no object.
LEMMA WritePrevIs ==
    ASSUME NEW r, IsFile(r.file), NEW n, n = 0 \/ n \in Offsets, NEW place,
           NEW q, q = WritePrev(r, n, place)
    PROVE  /\ IsFile(q.file) /\ SameRoot(r.file, q.file) /\ q.file.free = r.file.free
           /\ n # 0 => q.file.obj[n] = FreeObj(r.file.obj[n].size, r.file.obj[n].next, place)
           /\ \A o \in Offsets : n = 0 \/ o # n => q.file.obj[o] = r.file.obj[o]
           /\ q.past \subseteq r.past \cup {q.file}
<1>1. CASE n = 0
  <2>1. q = r
    BY <1>1 DEF WritePrev
  <2> QED BY <1>1, <2>1 DEF SameRoot
<1>2. CASE n # 0
  <2>1. PICK x : x = [r.file.obj EXCEPT ![n] =
                          FreeObj(r.file.obj[n].size, r.file.obj[n].next, place)]
    OBVIOUS
  <2>2. r.file.obj = [o \in Offsets |-> r.file.obj[o]]
    BY DEF IsFile
  <2>3. /\ x = [o \in Offsets |-> x[o]]
        /\ x[n] = FreeObj(r.file.obj[n].size, r.file.obj[n].next, place)
        /\ \A o \in Offsets : o # n => x[o] = r.file.obj[o]
    BY <1>2, <2>1, <2>2
  <2>4. q = Write(r, [r.file EXCEPT !.obj = x])
    <3>1. q = Write(r, [r.file EXCEPT !.obj[n] =
                            FreeObj(r.file.obj[n].size, r.file.obj[n].next, place)])
      BY <1>2 DEF WritePrev
    <3> QED BY <2>1, <3>1
  <2>5. q.file = [r.file EXCEPT !.obj = x] /\ q.past = r.past \cup {q.file}
    BY <2>4 DEF Write
  <2>6. IsFile(q.file) /\ SameRoot(r.file, q.file) /\ q.file.free = r.file.free /\ q.file.obj = x
    BY <2>3, <2>5, SetObj
  <2> QED BY <1>2, <2>3, <2>5, <2>6
<1> QED BY <1>1, <1>2

\* The object x is written at a, from r to q.
Writes(r, a, x, q) ==
    IsFile(r.file) /\ a \in Offsets /\ x.size \in Nat /\ q = WriteObject(r, a, x)

\* What that changes: what is inside the object no longer counts.
Written(r, a, x, q) ==
    /\ IsFile(q.file) /\ SameRoot(r.file, q.file) /\ q.file.free = r.file.free
    /\ q.file.obj[a] = x
    /\ \A o \in Offsets : a < o /\ o < a + x.size => q.file.obj[o] = Junk
    /\ \A o \in Offsets : o # a /\ ~(a < o /\ o < a + x.size) => q.file.obj[o] = r.file.obj[o]
    /\ q.past = r.past \cup {q.file}

\* A write of an object is one.
LEMMA WriteObjectIs ==
    ASSUME NEW r, NEW a, NEW x, NEW q, Writes(r, a, x, q)
    PROVE  Written(r, a, x, q)
<1> USE DEF Writes, Written
<1>1. PICK y : y = [o \in Offsets |-> IF o = a THEN x
                                      ELSE IF a < o /\ o < a + x.size THEN Junk
                                      ELSE r.file.obj[o]]
  OBVIOUS
<1>2. /\ y = [o \in Offsets |-> y[o]] /\ y[a] = x
      /\ \A o \in Offsets : a < o /\ o < a + x.size => y[o] = Junk
      /\ \A o \in Offsets : o # a /\ ~(a < o /\ o < a + x.size) => y[o] = r.file.obj[o]
  <2>1. \A o \in Offsets : y[o] = IF o = a THEN x
                                  ELSE IF a < o /\ o < a + x.size THEN Junk
                                  ELSE r.file.obj[o]
    BY <1>1
  <2>2. \A o \in Offsets : a < o => o # a
    BY SizesOK DEF Offsets
  <2> QED BY <1>1, <2>1, <2>2
<1>3. q = Write(r, [r.file EXCEPT !.obj = y])
  BY <1>1 DEF WriteObject
<1>4. q.file = [r.file EXCEPT !.obj = y] /\ q.past = r.past \cup {q.file}
  BY <1>3 DEF Write
<1>5. IsFile(q.file) /\ SameRoot(r.file, q.file) /\ q.file.free = r.file.free /\ q.file.obj = y
  BY <1>2, <1>4, SetObj
<1> QED BY <1>2, <1>4, <1>5


\* The same, for an object whose size has a name.
LEMMA WriteSized ==
    ASSUME NEW r, IsFile(r.file), NEW a \in Offsets, NEW x, NEW s \in Nat, x.size = s,
           NEW q, q = WriteObject(r, a, x)
    PROVE  /\ IsFile(q.file) /\ SameRoot(r.file, q.file) /\ q.file.free = r.file.free
           /\ q.file.obj[a] = x
           /\ \A o \in Offsets : a < o /\ o < a + s => q.file.obj[o] = Junk
           /\ \A o \in Offsets : o # a /\ ~(a < o /\ o < a + s) => q.file.obj[o] = r.file.obj[o]
           /\ q.past = r.past \cup {q.file}
<1>1. Writes(r, a, x, q) /\ x.size = s
  BY DEF Writes
<1>2. Written(r, a, x, q)
  BY ONLY <1>1, WriteObjectIs
<1> QED BY ONLY <1>1, <1>2 DEF Written
------------------------------------------------------------------------------
(* Freelists of a file.                                                    *)

\* The lists of the file have the objects F, which are free.
Linked(f, F) ==
    IsFile(f) /\ Lists(f.free, f.obj, F) /\ \A o \in F : f.obj[o].type = "free"

\* What a free object's header says.
LEMMA FreeObjIs ==
    ASSUME NEW s, NEW n, NEW p
    PROVE  /\ FreeObj(s, n, p).type = "free" /\ FreeObj(s, n, p).size = s
           /\ FreeObj(s, n, p).next = n /\ FreeObj(s, n, p).prev = p
BY DEF FreeObj

\* Links may be rewritten twice.
LEMMA AlikeTrans ==
    ASSUME NEW f, NEW g, NEW h, Alike(f, g), Alike(g, h)
    PROVE  Alike(f, h)
BY DEF Alike, SameRoot, SameObj

\* Or not at all.
LEMMA AlikeSelf ==
    ASSUME NEW f, IsFile(f)
    PROVE  Alike(f, f)
BY DEF Alike, SameRoot, SameObj

\* Or before an object becomes free.
LEMMA AlikePlaced ==
    ASSUME NEW f, NEW g, NEW h, NEW a, NEW s, Alike(f, g), Placed(g, h, a, s)
    PROVE  Placed(f, h, a, s)
<1>1. \A o \in Offsets : SameObj(f.obj[o], g.obj[o])
  BY DEF Alike
<1>2. \A o \in Offsets : o < a \/ o >= a + s => SameObj(g.obj[o], h.obj[o])
  BY DEF Placed
<1>3. \A o \in Offsets : o < a \/ o >= a + s => SameObj(f.obj[o], h.obj[o])
  BY <1>1, <1>2 DEF SameObj
<1> QED BY <1>3 DEF Alike, Placed, SameRoot

\* What is pushed is the first of its list.
LEMMA PushFreeIs ==
    ASSUME NEW r, NEW F, Linked(r.file, F), NEW s \in Sizes, s # MaxSize,
           NEW a \in Offsets, a # 0, \A o \in F : o < a \/ o >= a + s,
           NEW q, q = PushFree(r, a, s)
    PROVE  /\ Linked(q.file, F \cup {a}) /\ Placed(r.file, q.file, a, s)
           /\ \A g \in q.past : g \in r.past \/ Alike(r.file, g) \/ Placed(r.file, g, a, s)
<1> DEFINE f == r.file
<1>1. PICK n : n = IF f.free[s] = End THEN 0 ELSE f.free[s]
  OBVIOUS
<1>2. IsFile(f) /\ Lists(f.free, f.obj, F) /\ F \subseteq Offsets \ {0}
      /\ \A o \in F : f.obj[o].type = "free"
  BY DEF Linked, Lists
<1>3. f.free[s] \in {0, End} => n = 0
  BY <1>1
<1>4. f.free[s] \notin {0, End} => n = f.free[s] /\ n \in F
  <2>1. \A t \in Sizes : f.free[t] \notin {0, End} => f.free[t] \in F
    BY <1>2 DEF Lists
  <2> QED BY <1>1, <2>1
<1>5. n = 0 \/ (n \in Offsets /\ n \in F)
  BY <1>2, <1>3, <1>4
<1>6. a \in Int /\ s \in Int /\ s >= 1 /\ a > 0 /\ MaxSize \in Sizes
  BY SizeIs, SizesOK DEF Offsets
<1>7. PICK w1 : w1 = WritePrev(r, n, NextOf(a))
  OBVIOUS
<1>8. PICK x : x = FreeObj(s, n, Root(s))
  OBVIOUS
<1>9. x.type = "free" /\ x.size = s /\ x.next = n /\ x.prev = Root(s)
  BY <1>8, FreeObjIs
<1>10. PICK w2 : w2 = WriteObject(w1, a, x)
  OBVIOUS
<1>11. q = WriteNext(w2, Root(s), a)
  BY <1>1, <1>7, <1>8, <1>10 DEF PushFree
<1>12. /\ IsFile(w1.file) /\ SameRoot(f, w1.file) /\ w1.file.free = f.free
       /\ n # 0 => w1.file.obj[n] = FreeObj(f.obj[n].size, f.obj[n].next, a)
       /\ \A o \in Offsets : n = 0 \/ o # n => w1.file.obj[o] = f.obj[o]
       /\ w1.past \subseteq r.past \cup {w1.file}
  <2>1. NextOf(a) = a
    BY DEF NextOf
  <2> QED BY <1>2, <1>5, <1>7, <2>1, WritePrevIs
<1>13. n # 0 => /\ w1.file.obj[n].type = "free" /\ w1.file.obj[n].size = f.obj[n].size
                /\ w1.file.obj[n].next = f.obj[n].next /\ w1.file.obj[n].prev = a
                /\ f.obj[n].type = "free"
  BY <1>2, <1>5, <1>12, FreeObjIs
<1>14. \A o \in Offsets : SameObj(f.obj[o], w1.file.obj[o])
  BY <1>12, <1>13 DEF SameObj
<1>15. Alike(f, w1.file)
  BY <1>6, <1>12, <1>14 DEF Alike
<1>16. /\ IsFile(w2.file) /\ SameRoot(w1.file, w2.file) /\ w2.file.free = w1.file.free
       /\ w2.file.obj[a] = x
       /\ \A o \in Offsets : a < o /\ o < a + s => w2.file.obj[o] = Junk
       /\ \A o \in Offsets : o # a /\ ~(a < o /\ o < a + s) => w2.file.obj[o] = w1.file.obj[o]
       /\ w2.past = w1.past \cup {w2.file}
  <2>1. Writes(w1, a, x, w2) /\ x.size = s
    BY <1>6, <1>9, <1>10, <1>12 DEF Writes
  <2>2. Written(w1, a, x, w2)
    BY ONLY <2>1, WriteObjectIs
  <2> QED BY ONLY <2>1, <2>2 DEF Written
<1>17. SameRoot(f, w2.file) /\ w2.file.free = f.free
  BY <1>12, <1>16 DEF SameRoot
<1>18. \A o \in Offsets : o < a \/ o >= a + s => o # a /\ ~(a < o /\ o < a + s)
  BY <1>6 DEF Offsets
<1>19. \A o \in Offsets : o < a \/ o >= a + s => SameObj(f.obj[o], w2.file.obj[o])
  BY <1>14, <1>16, <1>18
<1>20. Placed(f, w2.file, a, s)
  BY <1>6, <1>9, <1>16, <1>17, <1>19 DEF Placed
<1>21. /\ IsFile(q.file) /\ SameRoot(w2.file, q.file) /\ q.file.obj = w2.file.obj
       /\ q.file.free[s] = a
       /\ \A t \in Sizes : t # s => q.file.free[t] = w2.file.free[t]
       /\ q.past = w2.past \cup {q.file}
  BY <1>11, <1>16, WriteRoot
<1>22. SameRoot(f, q.file) /\ \A t \in Sizes : t # s => q.file.free[t] = f.free[t]
  BY <1>17, <1>21 DEF SameRoot
<1>23. Placed(f, q.file, a, s)
  BY <1>6, <1>20, <1>21, <1>22 DEF Placed
<1>24. \A o \in F : o # a /\ q.file.obj[o] = w1.file.obj[o]
  <2>1. \A o \in F : o \in Offsets /\ (o < a \/ o >= a + s)
    BY <1>2
  <2> QED BY <1>16, <1>18, <1>21, <2>1
<1>25. \A o \in F : q.file.obj[o].size = f.obj[o].size /\ q.file.obj[o].next = f.obj[o].next
                    /\ q.file.obj[o].type = "free"
  BY <1>2, <1>12, <1>13, <1>24
<1>26. \A o \in F : o # n => q.file.obj[o].prev = f.obj[o].prev
  BY <1>2, <1>12, <1>24
<1>27. n \in F => q.file.obj[n].prev = a
  BY <1>2, <1>13, <1>24
<1>28. q.file.obj[a] = x
  BY <1>16, <1>21
<1>29. Lists(q.file.free, q.file.obj, F \cup {a})
  <2>1. a \notin F
    BY <1>24
  <2>2. f.free[s] \notin {0, End} => n = f.free[s]
    BY <1>4
  <2>3. Lists(f.free, f.obj, F)
    BY <1>2
  <2>4. q.file.obj[a].size = s /\ q.file.obj[a].next = n /\ q.file.obj[a].prev = Root(s)
    BY <1>9, <1>28
  <2>5. q.file.free[s] = a
    BY <1>21
  <2> HIDE DEF f
  <2>6. PICK fr, ob, fr2, ob2 :
            fr = f.free /\ ob = f.obj /\ fr2 = q.file.free /\ ob2 = q.file.obj
    OBVIOUS
  <2>7. /\ fr[s] \in {0, End} => n = 0
        /\ fr[s] \notin {0, End} => n = fr[s]
        /\ fr2[s] = a /\ \A t \in Sizes : t # s => fr2[t] = fr[t]
    BY <1>3, <1>22, <2>2, <2>5, <2>6
  <2>8. /\ ob2[a].size = s /\ ob2[a].next = n /\ ob2[a].prev = Root(s)
        /\ \A o \in F : ob2[o].size = ob[o].size /\ ob2[o].next = ob[o].next
        /\ \A o \in F : o # n => ob2[o].prev = ob[o].prev
        /\ n \in F => ob2[n].prev = a
    BY <1>25, <1>26, <1>27, <2>4, <2>6
  <2>9. Lists(fr, ob, F)
    BY <2>3, <2>6
  <2>10. Pushes(fr, ob, F, s, a, n, fr2, ob2)
    BY <2>1, <2>7, <2>8 DEF Pushes
  <2>11. Lists(fr2, ob2, F \cup {a})
    BY <2>9, <2>10, ListsPush
  <2> QED BY <2>6, <2>11
<1>30. Linked(q.file, F \cup {a})
  BY <1>9, <1>21, <1>25, <1>28, <1>29 DEF Linked
<1>31. \A g \in q.past : g \in r.past \/ Alike(f, g) \/ Placed(f, g, a, s)
  BY <1>12, <1>15, <1>16, <1>20, <1>21, <1>23
<1> QED BY <1>23, <1>30, <1>31

\* g is f with the object at x taken out of its list: the two writes, in either
\* order.
Unlinked(f, g, x, n, p) ==
    /\ n = f.obj[x].next /\ p = f.obj[x].prev /\ f.obj[x].size # MaxSize
    /\ IsFile(g) /\ SameRoot(f, g)
    /\ \A t \in Sizes : p = Root(t) => g.free[t] = n
    /\ \A t \in Sizes : p # Root(t) => g.free[t] = f.free[t]
    /\ \A o \in Offsets : (n = 0 \/ o # n) /\ o # p => g.obj[o] = f.obj[o]
    /\ n # 0 => g.obj[n] = FreeObj(f.obj[n].size, f.obj[n].next, p)
    /\ p \in Offsets => g.obj[p] = FreeObj(f.obj[p].size, n, f.obj[p].prev)

\* After the two writes that take an object out of its list, the lists have the
\* others.
LEMMA UnlinkedIs ==
    ASSUME NEW f, NEW F, Linked(f, F), NEW x \in F, NEW g, NEW n, NEW p, Unlinked(f, g, x, n, p)
    PROVE  Linked(g, F \ {x}) /\ Alike(f, g)
<1> /\ n = f.obj[x].next /\ p = f.obj[x].prev /\ f.obj[x].size # MaxSize
    /\ IsFile(g) /\ SameRoot(f, g)
    /\ \A t \in Sizes : p = Root(t) => g.free[t] = n
    /\ \A t \in Sizes : p # Root(t) => g.free[t] = f.free[t]
    /\ \A o \in Offsets : (n = 0 \/ o # n) /\ o # p => g.obj[o] = f.obj[o]
    /\ n # 0 => g.obj[n] = FreeObj(f.obj[n].size, f.obj[n].next, p)
    /\ p \in Offsets => g.obj[p] = FreeObj(f.obj[p].size, n, f.obj[p].prev)
  BY DEF Unlinked
<1>1. IsFile(f) /\ Lists(f.free, f.obj, F) /\ F \subseteq Offsets \ {0}
      /\ \A o \in F : f.obj[o].type = "free"
  BY DEF Linked, Lists
<1>2. n # 0 => n \in F
  BY <1>1 DEF Lists
<1>3. p \in F \/ p = Root(f.obj[x].size)
  BY <1>1 DEF Lists
<1>4. n # x /\ p # x /\ (n # 0 => n # p)
  BY <1>1, ListsApart
<1>5. 0 \in Offsets /\ 0 \notin F
  BY <1>1, SizesOK DEF Offsets
<1>6. \A t \in Sizes : Root(t) \notin Offsets
  BY RootIs
<1>7. f.obj[x].size \in Sizes
  BY <1>1 DEF Lists
<1>8. p # 0
  BY <1>3, <1>5, <1>6, <1>7
<1>9. n # 0 => g.obj[n].type = "free" /\ g.obj[n].size = f.obj[n].size
               /\ g.obj[n].next = f.obj[n].next /\ g.obj[n].prev = p
  BY FreeObjIs
<1>10. p \in Offsets => /\ g.obj[p].type = "free" /\ g.obj[p].size = f.obj[p].size
                        /\ g.obj[p].next = n /\ g.obj[p].prev = f.obj[p].prev /\ p \in F
  BY <1>3, <1>6, <1>7, FreeObjIs
<1>11. \A o \in F : o # n /\ o # p => g.obj[o] = f.obj[o]
  <2>1. \A o \in F : o \in Offsets
    BY <1>1
  <2> QED BY <2>1
<1>12. /\ \A o \in F : o # x => g.obj[o].size = f.obj[o].size
       /\ \A o \in F : o # x /\ o # n => g.obj[o].prev = f.obj[o].prev
       /\ \A o \in F : o # x /\ o # p => g.obj[o].next = f.obj[o].next
       /\ n \in F => g.obj[n].prev = p
       /\ p \in F => g.obj[p].next = n
       /\ \A o \in F : g.obj[o].type = "free"
  BY <1>1, <1>5, <1>9, <1>10, <1>11
<1>13. Lists(g.free, g.obj, F \ {x})
  <2>1. Pops(f.free, f.obj, F, x, n, p, g.free, g.obj)
    BY <1>12 DEF Pops
  <2> QED BY <1>1, <2>1, ListsPop
<1>14. \A o \in Offsets : SameObj(f.obj[o], g.obj[o])
  <2>1. ASSUME NEW o \in Offsets PROVE SameObj(f.obj[o], g.obj[o])
    <3>1. CASE o = n /\ n # 0
      BY <1>1, <1>2, <1>9, <3>1 DEF SameObj
    <3>2. CASE o = p
      BY <1>1, <1>10, <3>2 DEF SameObj
    <3>3. CASE o # p /\ (n = 0 \/ o # n)
      BY <3>3 DEF SameObj
    <3> QED BY <3>1, <3>2, <3>3
  <2> QED BY <2>1
<1>15. g.free[MaxSize] = f.free[MaxSize]
  <2>1. MaxSize \in Sizes
    BY SizesOK
  <2>2. p # Root(MaxSize)
    <3>1. Root(MaxSize) \notin Offsets /\ -Root(MaxSize) = MaxSize
      BY <2>1, RootIs
    <3>2. -Root(f.obj[x].size) = f.obj[x].size
      BY <1>7, RootIs
    <3> QED BY <1>1, <1>3, <3>1, <3>2
  <2> QED BY <2>1, <2>2
<1>16. Alike(f, g)
  BY <1>14, <1>15 DEF Alike
<1> QED BY <1>12, <1>13, <1>16 DEF Linked

------------------------------------------------------------------------------
(* What a file is divided into.                                            *)

\* An object that is not in use, or has never been.
Vacant(x) == x.type \in {"free", "blank"}
\* One that is.
InUse(x) == x.type \in {"data", "meta"}

\* recover() can walk the file: the objects z are where it finds them.
Divided(f, z) ==
    /\ IsFile(f) /\ f.size \in Sizes /\ f.size >= StartSize /\ Tiles(f.size, z)
    /\ 0 \in DOMAIN z /\ z[0] = 1 /\ f.obj[0].type = "meta"
    /\ \A a \in DOMAIN z : \/ f.obj[a].type \in {"free", "data", "meta"} /\ f.obj[a].size = z[a]
                           \/ f.obj[a].type = "blank" /\ 2 * a = f.size /\ z[a] = a
    /\ \A o \in Offsets \ DOMAIN z : ~InUse(f.obj[o])
    /\ \A a \in DOMAIN z, o \in Offsets :
          InUse(f.obj[a]) /\ a < o /\ o < a + z[a] => f.obj[o] = Junk
    /\ \A o \in Offsets : o >= f.size => f.obj[o].type = "blank"
    /\ \A a \in DOMAIN z, b \in DOMAIN z :
          Vacant(f.obj[a]) /\ Vacant(f.obj[b]) /\ z[a] = z[b] => b # Sibling(a, z[a])

\* The same objects are in use.
SameUse(f, g) ==
    \A o \in Offsets : InUse(f.obj[o]) \/ InUse(g.obj[o]) => g.obj[o] = f.obj[o]

\* Only links differ, and what is inside an object that is not in use.
Near(f, g, a, b) ==
    /\ IsFile(g) /\ SameRoot(f, g) /\ g.free[MaxSize] = f.free[MaxSize]
    /\ \A o \in Offsets : \/ SameObj(f.obj[o], g.obj[o])
                          \/ a < o /\ o < b /\ g.obj[o].type \in {"free", "junk"}

\* The free objects.
FreeIn(f, z) == {a \in DOMAIN z : f.obj[a].type = "free"}

\* The file between two operations of the allocator.
Tidy(f, z) ==
    /\ Divided(f, z)
    /\ \A a \in DOMAIN z : f.obj[a].type # "blank"
    /\ \A o \in Offsets \ DOMAIN z : o < f.size => f.obj[o] = Junk
    /\ Linked(f, FreeIn(f, z)) /\ f.free[MaxSize] = End

\* The sizes and places of a divided file are numbers in range.
LEMMA DividedSize ==
    ASSUME NEW f, NEW z, Divided(f, z)
    PROVE  /\ f.size \in Nat /\ f.size >= 4 /\ f.size <= MaxSize /\ MaxSize \in Nat
           /\ \A a \in DOMAIN z : /\ a \in Offsets /\ a \in Nat /\ a < f.size /\ a + z[a] <= f.size
                                  /\ z[a] \in Sizes /\ z[a] \in Nat /\ z[a] >= 1 /\ Mult(a, z[a])
<1>1. f.size \in Sizes /\ f.size >= StartSize /\ Tiles(f.size, z)
  BY DEF Divided
<1>2. f.size \in Nat /\ f.size <= MaxSize /\ MaxSize \in Nat
  BY <1>1, SizeIs
<1>3. StartSize \in Nat /\ StartSize >= 4
  BY SizeIs, StaticmapOK
<1>4. ASSUME NEW a \in DOMAIN z
      PROVE  /\ a \in Nat /\ a < f.size /\ a + z[a] <= f.size
             /\ z[a] \in Sizes /\ z[a] \in Nat /\ z[a] >= 1 /\ Mult(a, z[a])
  BY <1>1, <1>2, TileIs
<1>5. \A a \in DOMAIN z : a \in Offsets
  BY <1>2, <1>4 DEF Offsets
<1> QED BY <1>1, <1>2, <1>3, <1>4, <1>5

\* No object begins inside another.
LEMMA AloneInTile ==
    ASSUME NEW f, NEW z, Divided(f, z), NEW a \in DOMAIN z, NEW b \in DOMAIN z,
           a <= b, b < a + z[a]
    PROVE  a = b
<1>1. f.size \in Nat /\ Tiles(f.size, z)
  BY DividedSize DEF Divided
<1> QED BY <1>1, OneTile

\* A file stays divided as it is if its objects keep their headers, whatever is
\* inside those that are not in use.
LEMMA OtherDivided ==
    ASSUME NEW f, NEW z, Divided(f, z), NEW g, IsFile(g), g.size = f.size,
           \A o \in Offsets :
              \/ SameObj(f.obj[o], g.obj[o])
              \/ /\ o \notin DOMAIN z /\ ~InUse(g.obj[o]) /\ o < f.size
                 /\ \A c \in DOMAIN z : InUse(f.obj[c]) => ~(c < o /\ o < c + z[c])
    PROVE  Divided(g, z) /\ SameUse(f, g)
<1>1. \A a \in DOMAIN z : a \in Offsets
  BY DividedSize
<1>2. \A a \in DOMAIN z : SameObj(f.obj[a], g.obj[a])
  BY <1>1
<1>3. \A a \in DOMAIN z : g.obj[a].type = f.obj[a].type /\ g.obj[a].size = f.obj[a].size
  BY <1>2 DEF SameObj
<1>4. \A o \in Offsets : SameObj(f.obj[o], g.obj[o]) /\ InUse(g.obj[o]) =>
                             g.obj[o] = f.obj[o]
  BY DEF SameObj, InUse
<1>5. \A o \in Offsets \ DOMAIN z : ~InUse(g.obj[o])
  <2>1. \A o \in Offsets \ DOMAIN z : ~InUse(f.obj[o])
    BY DEF Divided
  <2> QED BY <1>4, <2>1
<1>6. ASSUME NEW a \in DOMAIN z, NEW o \in Offsets, InUse(g.obj[a]), a < o, o < a + z[a]
      PROVE  g.obj[o] = Junk
  <2>1. InUse(f.obj[a])
    BY <1>3, <1>6 DEF InUse
  <2>2. f.obj[o] = Junk
    BY <1>6, <2>1 DEF Divided
  <2>3. SameObj(f.obj[o], g.obj[o])
    BY <1>6, <2>1
  <2> QED BY <2>2, <2>3 DEF SameObj, Junk
<1>7. \A o \in Offsets : o >= g.size => g.obj[o].type = "blank"
  <2>1. \A o \in Offsets : o >= f.size => f.obj[o].type = "blank"
    BY DEF Divided
  <2>2. \A o \in Offsets : o >= f.size => ~(o < f.size)
    BY DividedSize DEF Offsets
  <2>3. \A o \in Offsets : o >= f.size => SameObj(f.obj[o], g.obj[o])
    BY <2>2
  <2> QED BY <2>1, <2>3 DEF SameObj
<1>8. \A a \in DOMAIN z, b \in DOMAIN z :
          Vacant(g.obj[a]) /\ Vacant(g.obj[b]) /\ z[a] = z[b] => b # Sibling(a, z[a])
  <2>1. \A a \in DOMAIN z : Vacant(g.obj[a]) => Vacant(f.obj[a])
    BY <1>3 DEF Vacant
  <2> QED BY <2>1 DEF Divided
<1>9. \A a \in DOMAIN z : \/ g.obj[a].type \in {"free", "data", "meta"} /\ g.obj[a].size = z[a]
                          \/ g.obj[a].type = "blank" /\ 2 * a = g.size /\ z[a] = a
  BY <1>3 DEF Divided
<1>10. SameUse(f, g)
  <2>1. ASSUME NEW o \in Offsets, InUse(f.obj[o]) \/ InUse(g.obj[o]) PROVE g.obj[o] = f.obj[o]
    <3>1. SameObj(f.obj[o], g.obj[o])
      <4>1. InUse(f.obj[o]) => o \in DOMAIN z
        BY DEF Divided
      <4> QED BY <2>1, <4>1
    <3> QED BY <2>1, <3>1 DEF SameObj, InUse
  <2> QED BY <2>1 DEF SameUse
<1>11. /\ g.size \in Sizes /\ g.size >= StartSize /\ Tiles(g.size, z)
       /\ 0 \in DOMAIN z /\ z[0] = 1 /\ g.obj[0].type = "meta"
  BY <1>3 DEF Divided
<1> QED BY <1>5, <1>6, <1>7, <1>8, <1>9, <1>10, <1>11 DEF Divided

\* So it does when links are rewritten,
LEMMA AlikeDivided ==
    ASSUME NEW f, NEW z, Divided(f, z), NEW g, Alike(f, g)
    PROVE  Divided(g, z) /\ SameUse(f, g)
<1>1. IsFile(g) /\ g.size = f.size /\ \A o \in Offsets : SameObj(f.obj[o], g.obj[o])
  BY DEF Alike, SameRoot
<1> QED BY <1>1, OtherDivided

\* and when headers are written inside an object that is not in use.
LEMMA NearDivided ==
    ASSUME NEW f, NEW z, Divided(f, z), NEW a \in DOMAIN z, Vacant(f.obj[a]), NEW g,
           Near(f, g, a, a + z[a])
    PROVE  Divided(g, z) /\ SameUse(f, g)
<1>1. IsFile(g) /\ g.size = f.size
  BY DEF Near, SameRoot
<1>2. ASSUME NEW o \in Offsets, a < o, o < a + z[a], g.obj[o].type \in {"free", "junk"}
      PROVE  /\ o \notin DOMAIN z /\ ~InUse(g.obj[o]) /\ o < f.size
             /\ \A c \in DOMAIN z : InUse(f.obj[c]) => ~(c < o /\ o < c + z[c])
  <2>1. /\ a \in Nat /\ a + z[a] <= f.size /\ z[a] \in Nat /\ f.size \in Nat /\ o \in Nat
        /\ \A c \in DOMAIN z : c \in Nat /\ z[c] \in Nat
    BY DividedSize DEF Offsets
  <2>2. o \notin DOMAIN z
    <3>1. a <= o /\ a # o
      BY <1>2, <2>1
    <3> QED BY <1>2, <3>1, AloneInTile
  <2>3. ~InUse(g.obj[o])
    BY <1>2 DEF InUse
  <2>4. o < f.size
    BY <1>2, <2>1
  <2>5. ASSUME NEW c \in DOMAIN z, InUse(f.obj[c]), c < o, o < c + z[c] PROVE FALSE
    <3>1. c # a
      BY <2>5 DEF InUse, Vacant
    <3>2. CASE c < a
      <4>1. c <= a /\ a < c + z[c]
        BY <1>2, <2>1, <2>5, <3>2
      <4> QED BY <3>1, <4>1, AloneInTile
    <3>3. CASE a < c
      <4>1. a <= c /\ c < a + z[a]
        BY <1>2, <2>1, <2>5, <3>3
      <4> QED BY <3>1, <4>1, AloneInTile
    <3> QED BY <2>1, <3>1, <3>2, <3>3
  <2> QED BY <2>2, <2>3, <2>4, <2>5
<1>3. \A o \in Offsets :
              \/ SameObj(f.obj[o], g.obj[o])
              \/ /\ o \notin DOMAIN z /\ ~InUse(g.obj[o]) /\ o < f.size
                 /\ \A c \in DOMAIN z : InUse(f.obj[c]) => ~(c < o /\ o < c + z[c])
  BY <1>2 DEF Near
<1> QED BY <1>1, <1>3, OtherDivided

\* The objects in use may stay twice.
LEMMA SameUseTrans ==
    ASSUME NEW f, NEW g, NEW h, SameUse(f, g), SameUse(g, h)
    PROVE  SameUse(f, h)
BY DEF SameUse

\* They are what they are.
LEMMA SameUseSelf ==
    ASSUME NEW f
    PROVE  SameUse(f, f)
BY DEF SameUse
------------------------------------------------------------------------------
(* alloc(): the rest of an object goes to the lists.                       *)

\* One turn of the loop of alloc(): the part is in its list, and at each write
\* before that nothing but links differs.
LEMMA CutIs ==
    ASSUME NEW r, NEW F, Linked(r.file, F), NEW s \in Sizes, s # MaxSize,
           NEW a, NEW p \in Offsets, p = a + s, p # 0, \A o \in F : o < p \/ o >= p + s,
           NEW q, q = Cut(r, a, s)
    PROVE  /\ Linked(q.file, F \cup {p}) /\ Placed(r.file, q.file, p, s)
           /\ \A g \in q.past : g \in r.past \/ Alike(r.file, g) \/ Placed(r.file, g, p, s)
<1> DEFINE f == r.file
<1>1. PICK w : w = IF f.free[s] = End THEN WriteNext(r, Root(s), 0) ELSE r
  OBVIOUS
<1>2. q = PushFree(w, p, s)
  BY <1>1 DEF Cut
<1>3. IsFile(f) /\ Lists(f.free, f.obj, F) /\ \A o \in F : f.obj[o].type = "free"
  BY DEF Linked
<1>4. /\ Linked(w.file, F) /\ Alike(f, w.file)
      /\ \A g \in w.past : g \in r.past \/ Alike(f, g)
  <2>1. CASE f.free[s] = End
    <3>1. w = WriteNext(r, Root(s), 0)
      BY <1>1, <2>1
    <3>2. /\ IsFile(w.file) /\ SameRoot(f, w.file) /\ w.file.obj = f.obj
          /\ w.file.free[s] = 0
          /\ \A t \in Sizes : t # s => w.file.free[t] = f.free[t]
          /\ w.past = r.past \cup {w.file}
      BY <1>3, <3>1, WriteRoot
    <3>3. \A o \in Offsets : SameObj(f.obj[o], w.file.obj[o])
      BY <3>2 DEF SameObj
    <3>4. MaxSize \in Sizes
      BY SizesOK
    <3>5. Alike(f, w.file)
      BY <3>2, <3>3, <3>4 DEF Alike
    <3>6. Lists(w.file.free, w.file.obj, F)
      <4>1. \A o \in F : o \in Offsets /\ o # 0
        BY <1>3 DEF Lists
      <4>2. \A t \in Sizes : w.file.free[t] \notin {0, End} => w.file.free[t] = f.free[t]
        BY <3>2
      <4>3. \A o \in F : f.free[s] # o
        BY <2>1, <4>1, RootIs, SizesOK
      <4>4. \A t \in Sizes, o \in F : f.free[t] = o => w.file.free[t] = o
        BY <3>2, <4>3
      <4>5. Lists(f.free, f.obj, F) /\ w.file.obj = f.obj
        BY <1>3, <3>2
      <4>6. /\ F \subseteq Offsets \ {0}
            /\ \A S \in SUBSET F : S # {} => \E o \in S : f.obj[o].prev \notin S
        BY ONLY <4>5 DEF Lists
      <4>7. \A t \in Sizes : w.file.free[t] \notin {0, End} =>
                /\ w.file.free[t] \in F /\ f.obj[w.file.free[t]].size = t
                /\ f.obj[w.file.free[t]].prev = Root(t)
        <5>1. \A t \in Sizes : f.free[t] \notin {0, End} =>
                  f.free[t] \in F /\ f.obj[f.free[t]].size = t /\ f.obj[f.free[t]].prev = Root(t)
          BY ONLY <4>5 DEF Lists
        <5> QED BY ONLY <4>2, <5>1
      <4>8. \A o \in F :
                /\ f.obj[o].size \in Sizes
                /\ f.obj[o].next # 0 => /\ f.obj[o].next \in F /\ f.obj[f.obj[o].next].prev = o
                                        /\ f.obj[f.obj[o].next].size = f.obj[o].size
                /\ \/ f.obj[o].prev = Root(f.obj[o].size) /\ f.free[f.obj[o].size] = o
                   \/ f.obj[o].prev \in F /\ f.obj[f.obj[o].prev].next = o
        BY ONLY <4>5 DEF Lists
      <4>9. \A o \in F :
                \/ f.obj[o].prev = Root(f.obj[o].size) /\ w.file.free[f.obj[o].size] = o
                \/ f.obj[o].prev \in F /\ f.obj[f.obj[o].prev].next = o
        BY ONLY <4>4, <4>8
      <4>10. Lists(w.file.free, f.obj, F)
        BY ONLY <4>6, <4>7, <4>8, <4>9 DEF Lists
      <4>11. w.file.obj = f.obj
        BY <3>2
      <4> QED BY ONLY <4>10, <4>11
    <3> QED BY <1>3, <3>2, <3>5, <3>6 DEF Linked
  <2>2. CASE f.free[s] # End
    <3>1. w = r
      BY <1>1, <2>2
    <3> QED BY <1>3, <3>1, AlikeSelf
  <2> QED BY <2>1, <2>2
<1>5. /\ Linked(q.file, F \cup {p}) /\ Placed(w.file, q.file, p, s)
      /\ \A g \in q.past : g \in w.past \/ Alike(w.file, g) \/ Placed(w.file, g, p, s)
  BY <1>2, <1>4, PushFreeIs
<1>6. Placed(f, q.file, p, s)
  BY <1>4, <1>5, AlikePlaced
<1>7. ASSUME NEW g \in q.past PROVE g \in r.past \/ Alike(f, g) \/ Placed(f, g, p, s)
  <2>1. CASE g \in w.past
    BY <1>4, <2>1
  <2>2. CASE Alike(w.file, g)
    BY <1>4, <2>2, AlikeTrans
  <2>3. CASE Placed(w.file, g, p, s)
    BY <1>4, <2>3, AlikePlaced
  <2> QED BY <1>5, <2>1, <2>2, <2>3
<1> QED BY <1>5, <1>6, <1>7

\* What is between a + s and a + t has become free parts.
Halved(r, q, F, a, s, t) ==
    /\ Linked(q.file, F \cup Parts(a, s, t)) /\ SameRoot(r.file, q.file)
    /\ q.file.free[MaxSize] = r.file.free[MaxSize]
    /\ \A o \in Offsets : o < a + s \/ o >= a + t => SameObj(r.file.obj[o], q.file.obj[o])
    /\ \A b \in Parts(a, s, t) : q.file.obj[b].type = "free" /\ q.file.obj[b].size = b - a
    /\ \A o \in Offsets : a + s <= o /\ o < a + t /\ o \notin Parts(a, s, t) =>
                              q.file.obj[o] = Junk
    /\ \A g \in q.past : g \in r.past \/ Near(r.file, g, a, a + t)

\* The parts cut off are inside the object.
LEMMA HalvedNear ==
    ASSUME NEW r, NEW q, NEW F, NEW a \in Nat, NEW s \in Sizes, NEW t \in Sizes, s <= t,
           Halved(r, q, F, a, s, t)
    PROVE  Near(r.file, q.file, a, a + t)
<1>1. s \in Nat /\ s >= 1 /\ t \in Nat
  BY SizeIs
<1>2. ASSUME NEW o \in Offsets
      PROVE  \/ SameObj(r.file.obj[o], q.file.obj[o])
             \/ a < o /\ o < a + t /\ q.file.obj[o].type \in {"free", "junk"}
  <2>1. CASE o < a + s \/ o >= a + t
    BY <2>1 DEF Halved
  <2>2. CASE a + s <= o /\ o < a + t
    <3>1. a < o
      BY <1>1, <2>2 DEF Offsets
    <3>2. q.file.obj[o].type \in {"free", "junk"}
      BY <2>2 DEF Halved, Junk
    <3> QED BY <2>2, <3>1, <3>2
  <2> QED BY <1>1, <2>1, <2>2 DEF Offsets
<1>3. IsFile(q.file) /\ SameRoot(r.file, q.file) /\ q.file.free[MaxSize] = r.file.free[MaxSize]
  BY DEF Halved, Linked
<1> QED BY <1>2, <1>3 DEF Near

\* Links may be rewritten after that,
LEMMA NearAlike ==
    ASSUME NEW f, NEW g, NEW h, NEW a, NEW b, Near(f, g, a, b), Alike(g, h)
    PROVE  Near(f, h, a, b)
<1>1. SameRoot(f, h) /\ h.free[MaxSize] = f.free[MaxSize] /\ IsFile(h)
  BY DEF Near, Alike, SameRoot
<1>2. ASSUME NEW o \in Offsets
      PROVE  SameObj(f.obj[o], h.obj[o]) \/ (a < o /\ o < b /\ h.obj[o].type \in {"free", "junk"})
  <2>1. SameObj(g.obj[o], h.obj[o])
    BY DEF Alike
  <2>2. SameObj(f.obj[o], g.obj[o]) \/ (a < o /\ o < b /\ g.obj[o].type \in {"free", "junk"})
    BY DEF Near
  <2> QED BY <2>1, <2>2 DEF SameObj
<1> QED BY <1>1, <1>2 DEF Near

\* another part may be cut off,
LEMMA NearPlaced ==
    ASSUME NEW f, NEW g, NEW h, NEW a \in Nat, NEW b \in Nat, Near(f, g, a, b),
           NEW p \in Nat, NEW s \in Nat, Placed(g, h, p, s), a < p, p + s <= b, s >= 1
    PROVE  Near(f, h, a, b)
<1>1. SameRoot(f, h) /\ h.free[MaxSize] = f.free[MaxSize] /\ IsFile(h)
  BY DEF Near, Placed, SameRoot
<1>2. ASSUME NEW o \in Offsets
      PROVE  SameObj(f.obj[o], h.obj[o]) \/ (a < o /\ o < b /\ h.obj[o].type \in {"free", "junk"})
  <2>1. CASE o < p \/ o >= p + s
    <3>1. SameObj(g.obj[o], h.obj[o])
      BY <2>1 DEF Placed
    <3>2. SameObj(f.obj[o], g.obj[o]) \/ (a < o /\ o < b /\ g.obj[o].type \in {"free", "junk"})
      BY DEF Near
    <3> QED BY <3>1, <3>2 DEF SameObj
  <2>2. CASE p <= o /\ o < p + s
    <3>1. a < o /\ o < b
      BY <2>2 DEF Offsets
    <3>2. h.obj[o].type \in {"free", "junk"}
      <4>1. o = p \/ p < o
        BY <2>2 DEF Offsets
      <4> QED BY <2>2, <4>1 DEF Placed, Junk
    <3> QED BY <3>1, <3>2
  <2> QED BY <2>1, <2>2 DEF Offsets
<1> QED BY <1>1, <1>2 DEF Near

\* and the object may be said to be larger.
LEMMA NearWider ==
    ASSUME NEW f, NEW g, NEW a, NEW b \in Int, NEW c \in Int, b <= c, Near(f, g, a, b)
    PROVE  Near(f, g, a, c)
<1>1. \A o \in Offsets : o < b => o < c
  BY DEF Offsets
<1> QED BY <1>1 DEF Near

\* The parts up to twice a size are those up to that size and the one of that
\* size.
LEMMA PartsTwice ==
    ASSUME NEW s \in Sizes, NEW u \in Sizes, s <= u, NEW a \in Nat, NEW p, p = a + u
    PROVE  Parts(a, s, 2 * u) = Parts(a, s, u) \cup {p}
<1>1. \A v \in Sizes : v < 2 * u <=> v < u \/ v = u
  <2>1. ASSUME NEW v \in Sizes, v < 2 * u, ~(v < u), v # u PROVE FALSE
    <3>1. v \in Nat /\ u \in Nat
      BY SizeIs
    <3>2. u < v
      BY <2>1, <3>1
    <3>3. 2 * u <= v
      BY <3>2, SizesDouble
    <3> QED BY <2>1, <3>1, <3>3
  <2>2. \A v \in Sizes : v \in Nat /\ u \in Nat /\ u >= 1
    BY SizeIs
  <2> QED BY <2>1, <2>2
<1>2. {v \in Sizes : s <= v /\ v < 2 * u} = {v \in Sizes : s <= v /\ v < u} \cup {u}
  BY <1>1
<1> QED BY <1>2 DEF Parts

\* A turn of the loop of alloc() cuts one part more.
LEMMA HalvedOnce ==
    ASSUME NEW r, NEW q, NEW F, NEW a \in Nat, NEW s \in Sizes, NEW u \in Sizes, s <= u,
           Halved(r, q, F, a, s, u), NEW t \in Sizes, t = 2 * u, a + t <= MaxSize,
           \A o \in F : o < a \/ o >= a + t,
           NEW x, x = Cut(q, a, u)
    PROVE  Halved(r, x, F, a, s, t)
<1>1. /\ s \in Nat /\ s >= 1 /\ u \in Nat /\ u >= 1 /\ t \in Nat /\ MaxSize \in Nat
      /\ u # MaxSize
  BY SizeIs
<1>2. PICK p : p = a + u
  OBVIOUS
<1>3. p \in Nat /\ p \in Offsets /\ p # 0 /\ a < p /\ p + u = a + t
  BY <1>1, <1>2 DEF Offsets
<1>4. PICK P : P = Parts(a, s, u)
  OBVIOUS
<1>5. \A b \in P : b \in Nat /\ b < p /\ b >= a + s
  <2>1. \A v \in Sizes : v \in Nat
    BY SizeIs
  <2>2. \A b \in P : \E v \in Sizes : b = a + v /\ s <= v /\ v < u
    BY <1>4 DEF Parts
  <2> QED BY <1>1, <1>2, <2>1, <2>2
<1>6. Parts(a, s, t) = P \cup {p}
  BY <1>2, <1>4, PartsTwice
<1>7. Linked(q.file, F \cup P)
  BY <1>4 DEF Halved
<1>8. \A o \in F \cup P : o < p \/ o >= p + u
  <2>1. \A o \in F : o \in Nat
    BY <1>7 DEF Linked, Lists, Offsets
  <2> QED BY <1>1, <1>3, <1>5, <2>1
<1>9. /\ Linked(x.file, (F \cup P) \cup {p}) /\ Placed(q.file, x.file, p, u)
      /\ \A g \in x.past : g \in q.past \/ Alike(q.file, g) \/ Placed(q.file, g, p, u)
  BY <1>1, <1>2, <1>3, <1>7, <1>8, CutIs
<1>10. Linked(x.file, F \cup Parts(a, s, t))
  <2>1. (F \cup P) \cup {p} = F \cup Parts(a, s, t)
    BY <1>6
  <2> QED BY <1>9, <2>1
<1>11. SameRoot(r.file, x.file) /\ x.file.free[MaxSize] = r.file.free[MaxSize]
  BY <1>9 DEF Halved, Placed, SameRoot
<1>12. \A o \in Offsets : o < p \/ o >= p + u => SameObj(q.file.obj[o], x.file.obj[o])
  BY <1>9 DEF Placed
<1>13. ASSUME NEW o \in Offsets, o < a + s \/ o >= a + t
       PROVE  SameObj(r.file.obj[o], x.file.obj[o])
  <2>1. o < a + s \/ o >= a + u
    BY <1>1, <1>13 DEF Offsets
  <2>2. SameObj(r.file.obj[o], q.file.obj[o])
    BY <2>1 DEF Halved
  <2>3. o < p \/ o >= p + u
    BY <1>1, <1>2, <1>13 DEF Offsets
  <2>4. SameObj(q.file.obj[o], x.file.obj[o])
    BY <1>12, <2>3
  <2> QED BY <2>2, <2>4 DEF SameObj
<1>14. \A b \in P \cup {p} : x.file.obj[b].type = "free" /\ x.file.obj[b].size = b - a
  <2>1. x.file.obj[p].type = "free" /\ x.file.obj[p].size = p - a
    BY <1>1, <1>2, <1>9 DEF Placed
  <2>2. \A b \in P : q.file.obj[b].type = "free" /\ q.file.obj[b].size = b - a
    BY <1>4 DEF Halved
  <2>3. \A b \in P : b \in Offsets
    BY <1>7 DEF Linked, Lists
  <2>4. \A b \in P : SameObj(q.file.obj[b], x.file.obj[b])
    BY <1>5, <1>12, <2>3
  <2> QED BY <2>1, <2>2, <2>4 DEF SameObj
<1>15. ASSUME NEW o \in Offsets, a + s <= o, o < a + t, o \notin P \cup {p}
       PROVE  x.file.obj[o] = Junk
  <2>1. CASE o < p
    <3>1. q.file.obj[o] = Junk
      BY <1>2, <1>4, <1>15, <2>1 DEF Halved
    <3>2. SameObj(q.file.obj[o], x.file.obj[o])
      BY <1>12, <2>1
    <3> QED BY <3>1, <3>2 DEF SameObj, Junk
  <2>2. CASE o > p
    BY <1>3, <1>9, <1>15, <2>2 DEF Placed
  <2> QED BY <1>3, <1>15, <2>1, <2>2 DEF Offsets
<1>16. Near(r.file, q.file, a, a + t)
  <2>1. Near(r.file, q.file, a, a + u)
    BY HalvedNear
  <2>2. a + u \in Int /\ a + t \in Int /\ a + u <= a + t
    BY <1>1
  <2> QED BY <2>1, <2>2, NearWider
<1>17. ASSUME NEW g \in x.past PROVE g \in r.past \/ Near(r.file, g, a, a + t)
  <2>1. CASE g \in q.past
    <3>1. g \in r.past \/ Near(r.file, g, a, a + u)
      BY <2>1 DEF Halved
    <3>2. a + u \in Int /\ a + t \in Int /\ a + u <= a + t
      BY <1>1
    <3> QED BY <3>1, <3>2, NearWider
  <2>2. CASE Alike(q.file, g)
    BY <1>16, <2>2, NearAlike
  <2>3. CASE Placed(q.file, g, p, u)
    <3>1. PICK e : e = a + t
      OBVIOUS
    <3>2. e \in Nat /\ p + u <= e /\ Near(r.file, q.file, a, e)
      BY <1>1, <1>3, <1>16, <3>1
    <3>3. Near(r.file, g, a, e)
      BY <1>1, <1>3, <2>3, <3>2, NearPlaced
    <3> QED BY <3>1, <3>3
  <2> QED BY <1>9, <2>1, <2>2, <2>3
<1> QED BY <1>6, <1>10, <1>11, <1>13, <1>14, <1>15, <1>17 DEF Halved
\* One turn of the loop of alloc(), or of that of dealloc().
Turn(cuts, q, a, u) == IF cuts THEN Cut(q, a, u) ELSE Unlink(q, Sibling(Floor(a, u), u))

\* The loop, up to size t.
Turns(cuts, e, r, a, s, t) ==
    /\ e = [u \in Sizes |-> e[u]]
    /\ \A u \in Sizes : u <= t =>
          e[u] = IF u <= s THEN r ELSE Turn(cuts, e[u \div 2], a, u \div 2)

\* Half of a size is a size, and not below the smaller ones.
LEMMA HalfIs ==
    ASSUME NEW s \in Sizes, NEW t \in Sizes, s < t
    PROVE  /\ t \div 2 \in Sizes /\ t = 2 * (t \div 2) /\ s <= t \div 2 /\ t \div 2 < t
<1>1. s \in Nat /\ s >= 1 /\ t \in Nat
  BY SizeIs
<1>2. t \in Sizes \ {1}
  BY <1>1
<1>3. PICK u \in Sizes : t = 2 * u
  BY <1>2, SizesOK
<1>4. u \in Nat /\ u >= 1
  BY SizeIs
<1>5. t \div 2 = u
  BY <1>3, <1>4
<1>6. s <= u
  <2>1. ASSUME u < s PROVE FALSE
    <3>1. 2 * u <= s
      BY <2>1, SizesDouble
    <3> QED BY <1>1, <1>3, <1>4, <3>1
  <2> QED BY <1>1, <1>4, <2>1
<1> QED BY <1>3, <1>4, <1>5, <1>6

\* The loops' results are those of as many turns as there are sizes.
LEMMA TurnsExist ==
    ASSUME NEW cuts, NEW r, NEW a, NEW s \in Sizes, NEW t \in Sizes
    PROVE  \E e : Turns(cuts, e, r, a, s, t)
<1> DEFINE T == {u \in Sizes : ~ \E e : Turns(cuts, e, r, a, s, u)}
<1>1. ASSUME T # {} PROVE FALSE
  <2>1. T \in SUBSET Sizes
    OBVIOUS
  <2>2. PICK u \in T : \A v \in T : u <= v
    <3> HIDE DEF T
    <3> QED BY <1>1, <2>1, LeastSize
  <2>3. u \in Sizes /\ ~ \E e : Turns(cuts, e, r, a, s, u)
    OBVIOUS
  <2>4. \A v \in Sizes : v \in Nat
    BY SizeIs
  <2>5. CASE u <= s
    <3>1. PICK e : e = [v \in Sizes |-> r]
      OBVIOUS
    <3>2. e = [v \in Sizes |-> e[v]] /\ \A v \in Sizes : e[v] = r
      BY <3>1
    <3>3. \A v \in Sizes : v <= u => v <= s
      BY <2>3, <2>4, <2>5
    <3>4. Turns(cuts, e, r, a, s, u)
      BY <3>2, <3>3 DEF Turns
    <3> QED BY <2>3, <3>4
  <2>6. CASE s < u
    <3>1. PICK h : h = u \div 2
      OBVIOUS
    <3>2. h \in Sizes /\ u = 2 * h /\ s <= h /\ h < u /\ h \notin T
      <4>1. h \in Sizes /\ u = 2 * h /\ s <= h /\ h < u
        BY <2>3, <2>6, <3>1, HalfIs
      <4>2. ~(u <= h)
        BY <2>3, <2>4, <4>1
      <4> QED BY <2>2, <4>1, <4>2
    <3>3. PICK e : Turns(cuts, e, r, a, s, h)
      BY <3>2
    <3>4. PICK g : g = [e EXCEPT ![u] = Turn(cuts, e[h], a, h)]
      OBVIOUS
    <3>5. /\ g = [v \in Sizes |-> g[v]]
          /\ g[u] = Turn(cuts, e[h], a, h) /\ \A v \in Sizes : v # u => g[v] = e[v]
      <4>1. e = [v \in Sizes |-> e[v]]
        BY <3>3 DEF Turns
      <4> QED BY <2>3, <3>4, <4>1
    <3>6. ASSUME NEW v \in Sizes, v <= u
          PROVE  g[v] = IF v <= s THEN r ELSE Turn(cuts, g[v \div 2], a, v \div 2)
      <4>1. CASE v = u
        <5>1. g[h] = e[h]
          BY <2>3, <2>4, <3>2, <3>5
        <5>2. ~(v <= s)
          BY <2>3, <2>4, <2>6, <4>1
        <5>3. v \div 2 = h
          BY <3>1, <4>1
        <5> QED BY <3>5, <4>1, <5>1, <5>2, <5>3
      <4>2. CASE v # u
        <5>1. v <= h
          <6>1. ASSUME h < v PROVE FALSE
            <7>1. 2 * h <= v
              BY <3>2, <6>1, SizesDouble
            <7> QED BY <2>3, <2>4, <3>2, <3>6, <4>2, <7>1
          <6> QED BY <2>4, <3>2, <6>1
        <5>2. e[v] = IF v <= s THEN r ELSE Turn(cuts, e[v \div 2], a, v \div 2)
          BY <3>3, <5>1 DEF Turns
        <5>3. CASE v <= s
          BY <3>5, <4>2, <5>2, <5>3
        <5>4. CASE s < v
          <6>1. v \div 2 \in Sizes /\ v \div 2 < v
            BY <5>4, HalfIs
          <6>2. v \div 2 # u
            BY <2>3, <2>4, <3>6, <6>1
          <6>3. g[v \div 2] = e[v \div 2]
            BY <3>5, <6>1, <6>2
          <6>4. ~(v <= s)
            BY <2>4, <5>4
          <6> QED BY <3>5, <4>2, <5>2, <6>3, <6>4
        <5> QED BY <2>4, <5>3, <5>4
      <4> QED BY <4>1, <4>2
    <3>7. Turns(cuts, g, r, a, s, u)
      BY <3>5, <3>6 DEF Turns
    <3> QED BY <2>3, <3>7
  <2> QED BY <2>3, <2>4, <2>5, <2>6
<1> QED BY <1>1

\* The loop of alloc() in turns.
LEMMA SplitIs ==
    ASSUME NEW r, NEW a, NEW s \in Sizes, NEW c \in Sizes
    PROVE  \E e : Split(r, a, s, c) = e[c] /\ Turns(TRUE, e, r, a, s, MaxSize)
<1> DEFINE Loop(e) == e = [t \in Sizes |-> IF t <= s THEN r ELSE Cut(e[t \div 2], a, t \div 2)]
<1>1. MaxSize \in Sizes /\ \A u \in Sizes : u <= MaxSize
  BY SizesOK, SizeIs
<1>2. PICK e : Turns(TRUE, e, r, a, s, MaxSize)
  BY <1>1, TurnsExist
<1>3. Loop(e)
  <2>1. /\ e = [u \in Sizes |-> e[u]]
        /\ \A u \in Sizes : e[u] = IF u <= s THEN r ELSE Cut(e[u \div 2], a, u \div 2)
    BY <1>1, <1>2 DEF Turns, Turn
  <2> QED BY <2>1
<1>4. PICK g : g = CHOOSE h : Loop(h)
  OBVIOUS
<1>5. Loop(g)
  <2> HIDE DEF Loop
  <2> QED BY <1>3, <1>4
<1>6. Split(r, a, s, c) = g[c]
  BY <1>4 DEF Split
<1>7. Turns(TRUE, g, r, a, s, MaxSize)
  <2>1. g = [t \in Sizes |-> IF t <= s THEN r ELSE Cut(g[t \div 2], a, t \div 2)]
    BY <1>5
  <2>2. \A u \in Sizes : g[u] = IF u <= s THEN r ELSE Cut(g[u \div 2], a, u \div 2)
    BY <2>1
  <2>3. g = [u \in Sizes |-> g[u]]
    BY <2>1, <2>2
  <2> QED BY <2>2, <2>3 DEF Turns, Turn
<1> QED BY <1>6, <1>7

\* The loop of dealloc() in turns.
LEMMA UnlinkSiblingsIs ==
    ASSUME NEW r, NEW a, NEW s \in Sizes, NEW c \in Sizes
    PROVE  \E e : UnlinkSiblings(r, a, s, c) = e[c] /\ Turns(FALSE, e, r, a, s, MaxSize)
<1> DEFINE Loop(e) == e = [t \in Sizes |-> IF t <= s THEN r
                                           ELSE Unlink(e[t \div 2], Sibling(Floor(a, t \div 2), t \div 2))]
<1>1. MaxSize \in Sizes /\ \A u \in Sizes : u <= MaxSize
  BY SizesOK, SizeIs
<1>2. PICK e : Turns(FALSE, e, r, a, s, MaxSize)
  BY <1>1, TurnsExist
<1>3. Loop(e)
  <2>1. /\ e = [u \in Sizes |-> e[u]]
        /\ \A u \in Sizes : e[u] = IF u <= s THEN r
                                   ELSE Unlink(e[u \div 2], Sibling(Floor(a, u \div 2), u \div 2))
    BY <1>1, <1>2 DEF Turns, Turn
  <2> QED BY <2>1
<1>4. PICK g : g = CHOOSE h : Loop(h)
  OBVIOUS
<1>5. Loop(g)
  <2> HIDE DEF Loop
  <2> QED BY <1>3, <1>4
<1>6. UnlinkSiblings(r, a, s, c) = g[c]
  BY <1>4 DEF UnlinkSiblings
<1>7. Turns(FALSE, g, r, a, s, MaxSize)
  <2>1. g = [t \in Sizes |-> IF t <= s THEN r
                             ELSE Unlink(g[t \div 2], Sibling(Floor(a, t \div 2), t \div 2))]
    BY <1>5
  <2>2. \A u \in Sizes : g[u] = IF u <= s THEN r
                                ELSE Unlink(g[u \div 2], Sibling(Floor(a, u \div 2), u \div 2))
    BY <2>1
  <2>3. g = [u \in Sizes |-> g[u]]
    BY <2>1, <2>2
  <2> QED BY <2>2, <2>3 DEF Turns, Turn
<1> QED BY <1>6, <1>7

\* Before its first turn nothing is cut.
LEMMA HalvedNone ==
    ASSUME NEW r, NEW F, Linked(r.file, F), NEW a \in Nat, NEW s \in Sizes, r.file \in r.past
    PROVE  Halved(r, r, F, a, s, s)
<1>1. Parts(a, s, s) = {}
  <2>1. \A v \in Sizes : ~(s <= v /\ v < s)
    BY SizeIs
  <2> QED BY <2>1 DEF Parts
<1>2. F \cup {} = F
  OBVIOUS
<1>3. \A o \in Offsets : ~(a + s <= o /\ o < a + s)
  BY SizeIs DEF Offsets
<1>4. \A o \in Offsets : SameObj(r.file.obj[o], r.file.obj[o])
  BY DEF SameObj
<1> QED BY <1>1, <1>2, <1>3, <1>4 DEF Halved, SameRoot

\* After its last, all parts are cut off and in their lists.
LEMMA SplitHalved ==
    ASSUME NEW r, NEW F, Linked(r.file, F), r.file \in r.past, NEW a \in Nat,
           NEW s \in Sizes, NEW c \in Sizes, s <= c, a + c <= MaxSize,
           \A o \in F : o < a \/ o >= a + c,
           NEW q, q = Split(r, a, s, c)
    PROVE  Halved(r, q, F, a, s, c)
<1>1. PICK e : Split(r, a, s, c) = e[c] /\ Turns(TRUE, e, r, a, s, MaxSize)
  BY SplitIs
<1>2. \A u \in Sizes : u <= MaxSize /\ u \in Nat
  BY SizeIs
<1>3. \A u \in Sizes : e[u] = IF u <= s THEN r ELSE Cut(e[u \div 2], a, u \div 2)
  BY <1>1, <1>2 DEF Turns, Turn
<1>4. a + s \in Nat /\ a + c \in Nat /\ MaxSize \in Nat
  BY SizeIs
<1>5. \A o \in F : o \in Nat
  BY DEF Linked, Lists, Offsets
<1> DEFINE T == {u \in Sizes : s <= u /\ u <= c /\ ~Halved(r, e[u], F, a, s, u)}
<1>6. ASSUME T # {} PROVE FALSE
  <2>1. T \in SUBSET Sizes
    OBVIOUS
  <2>2. PICK u \in T : \A v \in T : u <= v
    <3> HIDE DEF T
    <3> QED BY <1>6, <2>1, LeastSize
  <2>3. u \in Sizes /\ s <= u /\ u <= c /\ ~Halved(r, e[u], F, a, s, u)
    OBVIOUS
  <2>4. CASE u = s
    <3>1. e[u] = r
      BY <1>2, <1>3, <2>4
    <3>2. Halved(r, r, F, a, s, s)
      BY HalvedNone
    <3> QED BY <2>3, <2>4, <3>1, <3>2
  <2>5. CASE s < u
    <3>1. PICK h : h = u \div 2
      OBVIOUS
    <3>2. h \in Sizes /\ u = 2 * h /\ s <= h /\ h < u
      BY <2>3, <2>5, <3>1, HalfIs
    <3>3. ~(u <= h) /\ h <= c
      BY <1>2, <2>3, <3>2
    <3>4. Halved(r, e[h], F, a, s, h)
      BY <2>2, <3>2, <3>3
    <3>5. ~(u <= s)
      BY <1>2, <2>3, <2>5
    <3>6. e[u] = Cut(e[h], a, h)
      BY <1>3, <2>3, <3>1, <3>5
    <3>7. a + u <= MaxSize /\ \A o \in F : o < a \/ o >= a + u
      BY <1>2, <1>4, <1>5, <2>3
    <3>8. Halved(r, e[u], F, a, s, u)
      BY <2>3, <3>2, <3>4, <3>6, <3>7, HalvedOnce
    <3> QED BY <2>3, <3>8
  <2> QED BY <1>2, <2>3, <2>4, <2>5
<1>7. c \notin T
  BY <1>6
<1>8. c <= c
  BY <1>2
<1> QED BY <1>1, <1>7, <1>8
\* The object at a is in use now, and what was behind it is free parts.
LEMMA PartsInside ==
    ASSUME NEW f, NEW z, Divided(f, z), NEW a \in DOMAIN z, NEW c, c = z[a],
           NEW s \in Sizes, s <= c, NEW P, P = Parts(a, s, c)
    PROVE  /\ P \cap DOMAIN z = {}
           /\ \A b \in P : /\ b \in Offsets /\ b \in Nat /\ b - a \in Sizes /\ a + s <= b /\ a < b
                           /\ b < a + c /\ Mult(b, b - a) /\ Sibling(b, b - a) = a
<1>1. /\ f.size \in Nat /\ f.size <= MaxSize /\ MaxSize \in Nat
      /\ a \in Nat /\ c \in Sizes /\ Mult(a, c) /\ a + c <= f.size /\ c \in Nat
  BY DividedSize
<1>3. ASSUME NEW b \in P
      PROVE  /\ b \in Nat /\ b - a \in Sizes /\ a + s <= b /\ a < b
             /\ b < a + c /\ Mult(b, b - a) /\ Mult(a, 2 * (b - a))
  BY <1>1, PartIs
<1>6. P \cap DOMAIN z = {}
  <2>1. ASSUME NEW b \in P, b \in DOMAIN z PROVE FALSE
    <3>1. a <= b /\ b < a + z[a] /\ a # b
      BY <1>1, <1>3
    <3>2. a = b
      BY <2>1, <3>1, AloneInTile
    <3> QED BY <3>1, <3>2
  <2> QED BY <2>1
<1>9. ASSUME NEW b \in P PROVE Sibling(b, b - a) = a
  <2>1. PICK v : v = b - a
    OBVIOUS
  <2>2. v \in Sizes /\ b \in Nat /\ Mult(b, v) /\ Mult(a, 2 * v)
    BY <1>3, <1>9, <2>1
  <2>3. v \in Nat \ {0} /\ b = a + v /\ b - v = a
    <3>1. v \in Nat /\ v >= 1
      BY <2>2, SizeIs
    <3> QED BY <1>1, <2>1, <2>2, <3>1
  <2>4. Mult(a, v)
    <3>1. Mult(b - v, v)
      BY <2>2, <2>3, MultSum, MultSelf
    <3> QED BY <2>3, <3>1
  <2>5. ~Mult(b, 2 * v)
    BY <1>1, <2>2, <2>3, <2>4, SiblingBack
  <2>6. Sibling(b, v) = b - v
    BY <2>2, <2>3, <2>5, SiblingIs
  <2> QED BY <2>1, <2>3, <2>6
<1>10. \A b \in P : b \in Offsets
  BY <1>1, <1>3 DEF Offsets
<1> QED BY <1>3, <1>6, <1>9, <1>10

\* z, after the object at a is cut down to size s.
Recut(z, a, s, c, P, y) ==
    /\ c = z[a] /\ s \in Sizes /\ s <= c /\ P = Parts(a, s, c)
    /\ DOMAIN y = DOMAIN z \cup P /\ y[a] = s
    /\ \A b \in P : y[b] = b - a
    /\ \A b \in DOMAIN z : b # a => y[b] = z[b]

\* What the loop of alloc() leaves tiles the file.
LEMMA TilesRecut ==
    ASSUME NEW n \in Nat, NEW z, Tiles(n, z), NEW a \in DOMAIN z, NEW s, NEW c, NEW P, NEW y,
           Recut(z, a, s, c, P, y)
    PROVE  Tiles(n, y)
<1>1. /\ s \in Sizes /\ s <= z[a] /\ DOMAIN y = DOMAIN z \cup Parts(a, s, z[a]) /\ y[a] = s
      /\ \A b \in Parts(a, s, z[a]) : y[b] = b - a
      /\ \A b \in DOMAIN z : b # a => y[b] = z[b]
  BY DEF Recut
<1> QED BY <1>1, TilesCut

\* There is such a division.
LEMMA RecutExists ==
    ASSUME NEW z, NEW a \in DOMAIN z, NEW c, c = z[a], NEW s \in Sizes, s <= c,
           NEW P, P = Parts(a, s, c), P \cap DOMAIN z = {}
    PROVE  \E y : Recut(z, a, s, c, P, y)
<1>1. PICK y : y = [b \in DOMAIN z \cup P |-> IF b = a THEN s ELSE
                                                   IF b \in P THEN b - a ELSE z[b]]
  OBVIOUS
<1>2. DOMAIN y = DOMAIN z \cup P /\ y[a] = s
  BY <1>1
<1>3. \A b \in P : y[b] = b - a
  BY <1>1
<1>4. \A b \in DOMAIN z : b # a => y[b] = z[b]
  BY <1>1
<1> QED BY <1>2, <1>3, <1>4 DEF Recut

\* The file g is the file f, divided as z, but for the object at a, which is cut:
\* its first s bytes are x, and its other parts are free.
Cuts(f, z, a, c, s, P, g, x) ==
    /\ Divided(f, z) /\ a \in DOMAIN z /\ Vacant(f.obj[a])
    /\ c = z[a] /\ s \in Sizes /\ s <= c /\ P = Parts(a, s, c)
    /\ \A o \in DOMAIN z : o # a => f.obj[o].type # "blank"
    /\ \A o \in Offsets \ DOMAIN z :
           o < f.size /\ (o < a \/ o >= a + c) => f.obj[o] = Junk
    /\ IsFile(g) /\ g.size = f.size /\ InUse(x) /\ x.size = s /\ g.obj[a] = x
    /\ \A o \in Offsets : o < a \/ o >= a + c => SameObj(f.obj[o], g.obj[o])
    /\ \A b \in P : g.obj[b].type = "free" /\ g.obj[b].size = b - a
    /\ \A o \in Offsets : a < o /\ o < a + c /\ o \notin P => g.obj[o] = Junk

\* The file after alloc() and the write of the object is divided, and its free
\* objects are those it had, without the one that was taken and with its parts.
LEMMA TakenDivided ==
    ASSUME NEW f, NEW z, NEW a, NEW c, NEW s, NEW P, NEW g, NEW x, Cuts(f, z, a, c, s, P, g, x)
    PROVE  \E y : /\ Divided(g, y) /\ \A b \in DOMAIN y : g.obj[b].type # "blank"
                  /\ \A o \in Offsets \ DOMAIN y : o < g.size => g.obj[o] = Junk
                  /\ FreeIn(g, y) = (FreeIn(f, z) \ {a}) \cup P
<1> USE DEF Cuts
<1>1. /\ P \cap DOMAIN z = {}
      /\ \A b \in P : /\ b \in Offsets /\ b \in Nat /\ b - a \in Sizes /\ a + s <= b /\ a < b
                      /\ b < a + c /\ Mult(b, b - a) /\ Sibling(b, b - a) = a
  BY PartsInside
<1> PICK y : Recut(z, a, s, c, P, y)
  BY <1>1, RecutExists
<1>15. Tiles(f.size, y)
  <2>1. f.size \in Nat /\ Tiles(f.size, z)
    BY DividedSize DEF Divided
  <2> QED BY <2>1, TilesRecut
<1>16. a # 0
  BY DEF Divided, Vacant
<1>2. /\ Tiles(f.size, y) /\ P \cap DOMAIN z = {} /\ DOMAIN y = DOMAIN z \cup P
      /\ y[a] = s /\ a # 0
      /\ \A b \in P : y[b] = b - a /\ b # a
      /\ \A b \in DOMAIN z : b # a => y[b] = z[b]
      /\ \A b \in P : /\ b \in Offsets /\ b \in Nat /\ b - a \in Sizes /\ a + s <= b /\ a < b
                      /\ b < a + c /\ Mult(b, b - a) /\ Sibling(b, b - a) = a
  <2>1. \A b \in P : b # a
    BY <1>1
  <2> QED BY <1>1, <1>15, <1>16, <2>1 DEF Recut
<1>3. /\ f.size \in Nat /\ a \in Nat /\ c \in Nat /\ a + c <= f.size
      /\ \A b \in DOMAIN z : /\ b \in Nat /\ z[b] \in Sizes /\ z[b] \in Nat /\ b \in Offsets
                             /\ z[b] >= 1 /\ Mult(b, z[b])
  BY DividedSize
<1>4. ASSUME NEW b \in DOMAIN z, b # a
      PROVE  /\ b < a => b + z[b] <= a
             /\ b < a \/ b >= a + c
  <2>1. ~(a <= b /\ b < a + z[a])
    BY <1>4, AloneInTile
  <2>2. ~(b <= a /\ a < b + z[b])
    BY <1>4, AloneInTile
  <2> QED BY <1>3, <2>1, <2>2
<1>5. ASSUME NEW b \in DOMAIN z, b # a
      PROVE  /\ SameObj(f.obj[b], g.obj[b]) /\ f.obj[b].type # "blank"
             /\ f.obj[b].type \in {"free", "data", "meta"} /\ f.obj[b].size = z[b]
  <2>1. SameObj(f.obj[b], g.obj[b])
    BY <1>3, <1>4, <1>5
  <2> QED BY <1>5, <2>1 DEF Divided
<1>6. ASSUME NEW o \in Offsets, o \notin DOMAIN y PROVE ~InUse(g.obj[o])
  <2>1. CASE a < o /\ o < a + c
    BY <1>2, <1>6, <2>1 DEF InUse, Junk
  <2>2. CASE ~(a < o /\ o < a + c)
    <3>1. o # a /\ o \notin DOMAIN z
      BY <1>2, <1>6
    <3>2. o < a \/ o >= a + c
      BY <1>3, <2>2, <3>1 DEF Offsets
    <3>3. SameObj(f.obj[o], g.obj[o]) /\ ~InUse(f.obj[o])
      BY <3>1, <3>2 DEF Divided
    <3> QED BY <3>3 DEF SameObj, InUse
  <2> QED BY <2>1, <2>2
<1>7. ASSUME NEW b \in DOMAIN y, NEW o \in Offsets, InUse(g.obj[b]), b < o, o < b + y[b]
      PROVE  g.obj[o] = Junk
  <2>1. CASE b = a
    <3>1. a < o /\ o < a + s /\ o < a + c
      BY <1>2, <1>3, <1>7, <2>1, SizeIs DEF Offsets
    <3>2. o \notin P
      BY <1>2, <1>3, <3>1, SizeIs
    <3> QED BY <3>1, <3>2
  <2>2. CASE b # a
    <3>1. b \notin P
      BY <1>7 DEF InUse
    <3>2. b \in DOMAIN z /\ y[b] = z[b]
      BY <1>2, <2>2, <3>1
    <3>3. SameObj(f.obj[b], g.obj[b])
      BY <1>5, <2>2, <3>2
    <3>4. InUse(f.obj[b])
      BY <1>7, <3>3 DEF InUse, SameObj
    <3>5. f.obj[o] = Junk
      BY <1>7, <3>2, <3>4 DEF Divided
    <3>6. o < a \/ o >= a + c
      BY <1>3, <1>4, <1>7, <2>2, <3>2 DEF Offsets
    <3>7. SameObj(f.obj[o], g.obj[o])
      BY <3>6
    <3> QED BY <3>5, <3>7 DEF SameObj, Junk
  <2> QED BY <2>1, <2>2
<1>8. ASSUME NEW o \in Offsets, o >= g.size PROVE g.obj[o].type = "blank"
  <2>1. o >= a + c /\ f.obj[o].type = "blank"
    BY <1>3, <1>8 DEF Divided, Offsets
  <2> QED BY <2>1 DEF SameObj
<1>9. ASSUME NEW b \in DOMAIN y, NEW d \in DOMAIN y, Vacant(g.obj[b]), Vacant(g.obj[d]),
             y[b] = y[d], d = Sibling(b, y[b])
      PROVE  FALSE
  <2>1. b # a /\ d # a
    BY <1>9 DEF Vacant, InUse
  <2>2. CASE b \in P
    BY <1>2, <1>9, <2>1, <2>2
  <2>3. CASE d \in P
    <3>1. b = Sibling(d, y[b])
      <4>1. y[b] \in Nat \ {0} /\ b \in Nat /\ Mult(b, y[b])
        <5>1. y[b] \in Sizes /\ b \in Nat /\ Mult(b, y[b])
          BY <1>2, <1>3, <2>1
        <5> QED BY <5>1, SizeIs
      <4> QED BY <1>9, <4>1, SiblingBack
    <3> QED BY <1>2, <1>9, <2>1, <2>3, <3>1
  <2>4. CASE b \notin P /\ d \notin P
    <3>1. b \in DOMAIN z /\ d \in DOMAIN z /\ y[b] = z[b] /\ y[d] = z[d]
      BY <1>2, <2>1, <2>4
    <3>2. Vacant(f.obj[b]) /\ Vacant(f.obj[d])
      BY <1>5, <1>9, <2>1, <3>1 DEF Vacant, SameObj
    <3>3. z[b] = z[d] /\ d = Sibling(b, z[b])
      BY <1>9, <3>1
    <3>4. \A e \in DOMAIN z, h \in DOMAIN z :
              Vacant(f.obj[e]) /\ Vacant(f.obj[h]) /\ z[e] = z[h] => h # Sibling(e, z[e])
      BY DEF Divided
    <3> QED BY <3>1, <3>2, <3>3, <3>4
  <2> QED BY <2>2, <2>3, <2>4
<1>10. \A b \in DOMAIN y : /\ g.obj[b].type \in {"free", "data", "meta"} /\ g.obj[b].size = y[b]
                           /\ g.obj[b].type # "blank"
  <2>1. g.obj[a].type \in {"free", "data", "meta"} /\ g.obj[a].size = y[a]
    BY <1>2 DEF InUse
  <2>2. \A b \in P : g.obj[b].type \in {"free", "data", "meta"} /\ g.obj[b].size = y[b]
    BY <1>2
  <2>3. \A b \in DOMAIN z : b # a => g.obj[b].type \in {"free", "data", "meta"}
                                     /\ g.obj[b].size = y[b]
    BY <1>2, <1>5 DEF SameObj
  <2> QED BY <1>2, <2>1, <2>2, <2>3
<1>11. /\ g.size \in Sizes /\ g.size >= StartSize /\ Tiles(g.size, y)
       /\ 0 \in DOMAIN y /\ y[0] = 1 /\ g.obj[0].type = "meta"
  <2>1. 0 \in DOMAIN z /\ z[0] = 1 /\ f.obj[0].type = "meta" /\ f.size \in Sizes
        /\ f.size >= StartSize
    BY DEF Divided
  <2>2. SameObj(f.obj[0], g.obj[0])
    BY <1>2, <1>5, <2>1
  <2> QED BY <1>2, <2>1, <2>2 DEF SameObj
<1>12. Divided(g, y)
  BY <1>6, <1>7, <1>8, <1>9, <1>10, <1>11 DEF Divided
<1>13. ASSUME NEW o \in Offsets, o \notin DOMAIN y, o < g.size PROVE g.obj[o] = Junk
  <2>1. CASE a < o /\ o < a + c
    BY <1>2, <1>13, <2>1
  <2>2. CASE ~(a < o /\ o < a + c)
    <3>1. o # a /\ o \notin DOMAIN z
      BY <1>2, <1>13
    <3>2. o < a \/ o >= a + c
      BY <1>3, <2>2, <3>1 DEF Offsets
    <3>3. SameObj(f.obj[o], g.obj[o]) /\ f.obj[o] = Junk
      BY <1>13, <3>1, <3>2
    <3> QED BY <3>3 DEF SameObj, Junk
  <2> QED BY <2>1, <2>2
<1>14. FreeIn(g, y) = (FreeIn(f, z) \ {a}) \cup P
  <2>1. \A b \in DOMAIN z : b # a => (g.obj[b].type = "free" <=> f.obj[b].type = "free")
    BY <1>5 DEF SameObj
  <2>2. g.obj[a].type # "free"
    BY DEF InUse
  <2> QED BY <1>2, <2>1, <2>2 DEF FreeIn
<1> QED BY <1>10, <1>12, <1>13, <1>14
------------------------------------------------------------------------------
(* alloc().                                                                *)

\* recover() can walk the file.
Torn(f) == \E z : Divided(f, z)
\* The allocator has left the file.
Whole(f) == \E z : Tidy(f, z)

\* The root says the same of the map.
SameHead(f, g) ==
    g.active = f.active /\ g.hm = f.hm /\ g.load = f.load /\ g.entries = f.entries

\* The file may be torn, but holds the same.
Kin(f, g) == SameHead(f, g) /\ SameUse(f, g) /\ Torn(g)

\* And x at a in addition.
Takes(f, g, a, x) ==
    /\ SameHead(f, g) /\ a \in Offsets /\ a # 0 /\ ~InUse(f.obj[a]) /\ g.obj[a] = x
    /\ \A o \in Offsets : o # a /\ (InUse(f.obj[o]) \/ InUse(g.obj[o])) => g.obj[o] = f.obj[o]

\* The lists are the same if their objects are.
LEMMA ListsSame ==
    ASSUME NEW free, NEW obj, NEW F, Lists(free, obj, F), NEW obj2,
           \A o \in F : obj2[o] = obj[o]
    PROVE  Lists(free, obj2, F)
BY DEF Lists

\* Where there may be an object, taken out of its list or behind the old end.
Opened(f, z, a) ==
    /\ Divided(f, z) /\ a \in DOMAIN z /\ Vacant(f.obj[a])
    /\ \A o \in DOMAIN z : o # a => f.obj[o].type # "blank"
    /\ \A o \in Offsets \ DOMAIN z : o < f.size /\ (o < a \/ o >= a + z[a]) => f.obj[o] = Junk
    /\ Linked(f, FreeIn(f, z) \ {a}) /\ f.free[MaxSize] = End

\* The loop of alloc() and the write of the object, in an object that is in no
\* list: the file is whole again, has the object in addition, and on the way
\* holds what it held.
LEMMA UsedIs ==
    ASSUME NEW r, r.file \in r.past, NEW z, NEW a, Opened(r.file, z, a),
           NEW c, c = z[a], NEW s \in Sizes, s <= c, NEW x, InUse(x), x.size = s,
           NEW q, q = WriteObject(Split(r, a, s, c), a, x)
    PROVE  /\ Whole(q.file) /\ Takes(r.file, q.file, a, x) /\ q.file.size = r.file.size
           /\ q.file \in q.past /\ \A g \in q.past : g \in r.past \/ Kin(r.file, g) \/ g = q.file
           /\ \A g \in q.past : g \in r.past \/ g.size = q.file.size
<1> DEFINE f == r.file
<1>1. PICK F, P, w : F = FreeIn(f, z) \ {a} /\ P = Parts(a, s, c) /\ w = Split(r, a, s, c)
  OBVIOUS
<1>2. /\ Divided(f, z) /\ a \in DOMAIN z /\ Vacant(f.obj[a])
      /\ \A o \in DOMAIN z : o # a => f.obj[o].type # "blank"
      /\ \A o \in Offsets \ DOMAIN z : o < f.size /\ (o < a \/ o >= a + c) => f.obj[o] = Junk
      /\ Linked(f, F) /\ f.free[MaxSize] = End
  BY <1>1 DEF Opened
<1>3. /\ a \in Nat /\ a \in Offsets /\ c \in Sizes /\ c \in Nat /\ a + c <= f.size
      /\ f.size <= MaxSize /\ f.size \in Nat /\ MaxSize \in Nat /\ s \in Nat /\ s >= 1
      /\ \A o \in DOMAIN z : o \in Nat
  BY <1>2, DividedSize, SizeIs
<1>4. a # 0
  BY <1>2 DEF Divided, Vacant
<1>5. \A o \in F : o < a \/ o >= a + c
  <2>1. ASSUME NEW o \in F PROVE ~(a <= o /\ o < a + z[a])
    <3>1. o \in DOMAIN z /\ o # a
      BY <1>1 DEF FreeIn
    <3> QED BY <1>2, <3>1, AloneInTile
  <2>2. F \subseteq DOMAIN z
    BY <1>1 DEF FreeIn
  <2> QED BY <1>3, <2>1, <2>2
<1>6. Halved(r, w, F, a, s, c)
  <2>1. a + c <= MaxSize
    BY <1>3
  <2> QED BY <1>1, <1>2, <1>3, <1>5, <2>1, SplitHalved
<1>7. IsFile(w.file) /\ Linked(w.file, F \cup P) /\ SameRoot(f, w.file)
      /\ w.file.free[MaxSize] = f.free[MaxSize]
  BY <1>1, <1>6 DEF Halved, Linked
<1>8. /\ IsFile(q.file) /\ SameRoot(w.file, q.file) /\ q.file.free = w.file.free
      /\ q.file.obj[a] = x
      /\ \A o \in Offsets : a < o /\ o < a + s => q.file.obj[o] = Junk
      /\ \A o \in Offsets : o # a /\ ~(a < o /\ o < a + s) => q.file.obj[o] = w.file.obj[o]
      /\ q.past = w.past \cup {q.file}
  <2>1. q = WriteObject(w, a, x)
    BY <1>1
  <2>2. IsFile(w.file) /\ a \in Offsets /\ s \in Nat
    BY <1>3, <1>7
  <2> QED BY <2>1, <2>2, WriteSized
<1>9. SameRoot(f, q.file)
  BY <1>7, <1>8 DEF SameRoot
<1>10. /\ P \cap DOMAIN z = {}
       /\ \A b \in P : b \in Offsets /\ b \in Nat /\ a + s <= b /\ a < b /\ b < a + c
  BY <1>1, <1>2, PartsInside
<1>11. \A o \in Offsets : o < a \/ o >= a + s => q.file.obj[o] = w.file.obj[o]
  BY <1>3, <1>8 DEF Offsets
<1>12. \A o \in Offsets : o < a \/ o >= a + c => SameObj(f.obj[o], q.file.obj[o])
  <2>1. ASSUME NEW o \in Offsets, o < a \/ o >= a + c PROVE SameObj(f.obj[o], q.file.obj[o])
    <3>1. o < a + s \/ o >= a + c
      BY <1>3, <2>1 DEF Offsets
    <3>2. o < a \/ o >= a + s
      BY <1>3, <2>1 DEF Offsets
    <3> QED BY <1>6, <1>11, <3>1, <3>2 DEF Halved
  <2> QED BY <2>1
<1>13. \A b \in P : q.file.obj[b].type = "free" /\ q.file.obj[b].size = b - a
  BY <1>1, <1>6, <1>10, <1>11 DEF Halved
<1>14. \A o \in Offsets : a < o /\ o < a + c /\ o \notin P => q.file.obj[o] = Junk
  <2>1. ASSUME NEW o \in Offsets, a < o, o < a + c, o \notin P PROVE q.file.obj[o] = Junk
    <3>1. CASE o < a + s
      BY <1>8, <2>1, <3>1
    <3>2. CASE o >= a + s
      <4>1. w.file.obj[o] = Junk
        BY <1>1, <1>6, <2>1, <3>2 DEF Halved
      <4> QED BY <1>11, <3>2, <4>1
    <3> QED BY <1>3, <3>1, <3>2 DEF Offsets
  <2> QED BY <2>1
<1>15. q.file.size = f.size
  BY <1>9 DEF SameRoot
<1>16. PICK y : /\ Divided(q.file, y) /\ \A b \in DOMAIN y : q.file.obj[b].type # "blank"
                /\ \A o \in Offsets \ DOMAIN y : o < q.file.size => q.file.obj[o] = Junk
                /\ FreeIn(q.file, y) = (FreeIn(f, z) \ {a}) \cup P
  <2>1. /\ Divided(f, z) /\ a \in DOMAIN z /\ Vacant(f.obj[a])
        /\ c = z[a] /\ s \in Sizes /\ s <= c /\ P = Parts(a, s, c)
        /\ \A o \in DOMAIN z : o # a => f.obj[o].type # "blank"
        /\ \A o \in Offsets \ DOMAIN z :
               o < f.size /\ (o < a \/ o >= a + c) => f.obj[o] = Junk
    BY <1>1, <1>2
  <2>2. /\ IsFile(q.file) /\ q.file.size = f.size /\ InUse(x) /\ x.size = s /\ q.file.obj[a] = x
        /\ \A o \in Offsets : o < a \/ o >= a + c => SameObj(f.obj[o], q.file.obj[o])
        /\ \A b \in P : q.file.obj[b].type = "free" /\ q.file.obj[b].size = b - a
        /\ \A o \in Offsets : a < o /\ o < a + c /\ o \notin P => q.file.obj[o] = Junk
    BY <1>8, <1>12, <1>13, <1>14, <1>15
  <2>3. Cuts(f, z, a, c, s, P, q.file, x)
    BY ONLY <2>1, <2>2 DEF Cuts
  <2> QED BY ONLY <2>3, TakenDivided
<1>17. Linked(q.file, F \cup P)
  <2>1. F \cup P \subseteq Offsets
    BY <1>7 DEF Linked, Lists
  <2>2. \A o \in F \cup P : o < a \/ o >= a + s
    <3>1. \A o \in F : o \in Nat
      BY <2>1 DEF Offsets
    <3> QED BY <1>3, <1>5, <1>10, <3>1
  <2>3. \A o \in F \cup P : q.file.obj[o] = w.file.obj[o]
    BY <1>11, <2>1, <2>2
  <2>4. Lists(w.file.free, w.file.obj, F \cup P) /\ \A o \in F \cup P : w.file.obj[o].type = "free"
    BY <1>7 DEF Linked
  <2>5. Lists(w.file.free, q.file.obj, F \cup P)
    BY <2>3, <2>4, ListsSame
  <2> QED BY <1>8, <2>3, <2>4, <2>5 DEF Linked
<1>18. Whole(q.file)
  <2>1. Linked(q.file, FreeIn(q.file, y))
    BY <1>1, <1>16, <1>17
  <2>2. q.file.free[MaxSize] = End
    BY <1>2, <1>7, <1>8
  <2> QED BY <1>16, <2>1, <2>2 DEF Tidy, Whole
<1>19. Takes(f, q.file, a, x)
  <2>1. ASSUME NEW o \in Offsets, o # a, InUse(f.obj[o]) \/ InUse(q.file.obj[o])
        PROVE  q.file.obj[o] = f.obj[o]
    <3>1. CASE o < a \/ o >= a + c
      <4>1. SameObj(f.obj[o], q.file.obj[o])
        BY <1>12, <3>1
      <4> QED BY <2>1, <4>1 DEF SameObj, InUse
    <3>2. CASE a < o /\ o < a + c
      <4>1. ~InUse(q.file.obj[o])
        BY <1>13, <1>14, <3>2 DEF InUse, Junk
      <4>2. o \notin DOMAIN z
        <5>1. a <= o /\ o < a + z[a] /\ a # o
          BY <1>3, <3>2 DEF Offsets
        <5> QED BY <1>2, <5>1, AloneInTile
      <4>3. ~InUse(f.obj[o])
        BY <1>2, <4>2 DEF Divided
      <4> QED BY <2>1, <4>1, <4>3
    <3> QED BY <1>3, <2>1, <3>1, <3>2 DEF Offsets
  <2>2. ~InUse(f.obj[a])
    BY <1>2 DEF InUse, Vacant
  <2>3. SameHead(f, q.file)
    BY <1>9 DEF SameHead, SameRoot
  <2> QED BY <1>3, <1>4, <1>8, <2>1, <2>2, <2>3 DEF Takes
<1>20. ASSUME NEW g \in q.past PROVE g \in r.past \/ Kin(f, g) \/ g = q.file
  <2>1. CASE Near(f, g, a, a + c)
    <3>1. Near(f, g, a, a + z[a])
      BY <2>1
    <3>2. Divided(g, z) /\ SameUse(f, g)
      BY <1>2, <3>1, NearDivided
    <3>3. SameHead(f, g)
      BY <2>1 DEF Near, SameRoot, SameHead
    <3> QED BY <3>2, <3>3 DEF Kin, Torn
  <2>2. g \in w.past => g \in r.past \/ Near(f, g, a, a + c)
    BY <1>6 DEF Halved
  <2> QED BY <1>8, <2>1, <2>2
<1>21. \A g \in q.past : g \in r.past \/ g.size = q.file.size
  <2>1. \A g \in w.past : g \in r.past \/ g.size = f.size
    BY <1>6 DEF Halved, Near, SameRoot
  <2> QED BY <1>8, <1>15, <2>1
<1> QED BY <1>8, <1>15, <1>18, <1>19, <1>20, <1>21
\* What is on the way from a file that says the same is on the way from this
\* one.
LEMMA KinTrans ==
    ASSUME NEW f, NEW g, NEW h, SameHead(f, g), SameUse(f, g), Kin(g, h)
    PROVE  Kin(f, h)
BY SameUseTrans DEF Kin, SameHead

\* And what it takes this one takes.
LEMMA TakesTrans ==
    ASSUME NEW f, NEW g, NEW h, NEW a, NEW x, SameHead(f, g), SameUse(f, g), Takes(g, h, a, x)
    PROVE  Takes(f, h, a, x)
<1>1. SameHead(f, h) /\ a \in Offsets /\ a # 0 /\ ~InUse(g.obj[a]) /\ h.obj[a] = x
  BY DEF Takes, SameHead
<1>2. ~InUse(f.obj[a])
  BY <1>1 DEF SameUse
<1>3. ASSUME NEW o \in Offsets, o # a, InUse(f.obj[o]) \/ InUse(h.obj[o])
      PROVE  h.obj[o] = f.obj[o]
  <2>1. InUse(g.obj[o]) \/ InUse(h.obj[o]) => h.obj[o] = g.obj[o]
    BY <1>3 DEF Takes
  <2>2. InUse(f.obj[o]) \/ InUse(g.obj[o]) => g.obj[o] = f.obj[o]
    BY DEF SameUse
  <2> QED BY <1>3, <2>1, <2>2
<1> QED BY <1>1, <1>2, <1>3 DEF Takes

\* Some list from that for size s on is not empty, or says that no larger
\* object is free.
LEMMA BucketIs ==
    ASSUME NEW f, f.free[MaxSize] = End, NEW s \in Sizes
    PROVE  /\ Bucket(f, s) \in Sizes /\ s <= Bucket(f, s) /\ f.free[Bucket(f, s)] # 0
<1> DEFINE T == {c \in Sizes : c >= s /\ f.free[c] # 0}
<1>1. MaxSize \in T
  <2>1. MaxSize \in Sizes /\ MaxSize >= s
    BY SizesOK, SizeIs
  <2> QED BY <2>1 DEF End
<1>2. T \in SUBSET Sizes /\ T # {}
  BY <1>1
<1>3. PICK c \in T : \A d \in T : c <= d
  <2> HIDE DEF T
  <2> QED BY <1>2, LeastSize
<1>4. c \in Sizes /\ c >= s /\ f.free[c] # 0
  BY <1>3
<1>5. \A d \in Sizes : s <= d /\ d < c => f.free[d] = 0
  <2>1. ASSUME NEW d \in Sizes, s <= d, d < c, f.free[d] # 0 PROVE FALSE
    <3>1. d \in Nat /\ s \in Nat /\ c \in Nat
      BY <1>4, SizeIs
    <3>2. d \in T
      BY <2>1, <3>1
    <3> QED BY <1>3, <2>1, <3>1, <3>2
  <2> QED BY <2>1
<1>6. \A d \in Sizes : d >= s => s <= d
  BY SizeIs
<1> QED BY <1>4, <1>5, <1>6 DEF Bucket

\* The first object of a list is taken out.
FirstOf(f, s, a, n) == a = f.free[s] /\ a # 0 /\ a # End /\ n = f.obj[a].next
\* The two writes for that.
Shifts(r, s, n, q) == q = WriteNext(WritePrev(r, n, Root(s)), Root(s), n)

\* The first object of a list leaves it.
LEMMA FirstTaken ==
    ASSUME NEW r, NEW F, Linked(r.file, F), r.file.free[MaxSize] = End,
           NEW s \in Sizes, NEW a, NEW n, FirstOf(r.file, s, a, n), NEW q, Shifts(r, s, n, q)
    PROVE  /\ Linked(q.file, F \ {a}) /\ Alike(r.file, q.file) /\ a \in F
           /\ r.file.obj[a].size = s /\ q.file \in q.past
           /\ \A g \in q.past : g \in r.past \/ Alike(r.file, g)
<1> DEFINE f == r.file
<1>1. IsFile(f) /\ Lists(f.free, f.obj, F) /\ F \subseteq Offsets \ {0}
      /\ \A o \in F : f.obj[o].type = "free"
  BY DEF Linked, Lists
<1>2. a \in F /\ f.obj[a].size = s /\ f.obj[a].prev = Root(s)
  <2>1. \A t \in Sizes : f.free[t] \notin {0, End} =>
            f.free[t] \in F /\ f.obj[f.free[t]].size = t /\ f.obj[f.free[t]].prev = Root(t)
    BY <1>1 DEF Lists
  <2>2. a = f.free[s] /\ f.free[s] \notin {0, End}
    BY DEF FirstOf
  <2> QED BY <2>1, <2>2
<1>3. n # 0 => n \in F
  BY <1>1, <1>2 DEF Lists, FirstOf
<1>4. PICK w : w = WritePrev(r, n, Root(s)) /\ q = WriteNext(w, Root(s), n)
  BY DEF Shifts
<1>5. n = 0 \/ n \in Offsets
  BY <1>1, <1>3
<1>6. /\ IsFile(w.file) /\ SameRoot(f, w.file) /\ w.file.free = f.free
      /\ n # 0 => w.file.obj[n] = FreeObj(f.obj[n].size, f.obj[n].next, Root(s))
      /\ \A o \in Offsets : n = 0 \/ o # n => w.file.obj[o] = f.obj[o]
      /\ w.past \subseteq r.past \cup {w.file}
  BY <1>1, <1>4, <1>5, WritePrevIs
<1>7. \A o \in Offsets : SameObj(f.obj[o], w.file.obj[o])
  <2>1. n # 0 => SameObj(f.obj[n], w.file.obj[n])
    BY <1>1, <1>3, <1>6, FreeObjIs DEF SameObj
  <2> QED BY <1>6, <2>1 DEF SameObj
<1>8. Alike(f, w.file)
  BY <1>6, <1>7 DEF Alike
<1>9. /\ IsFile(q.file) /\ SameRoot(w.file, q.file) /\ q.file.obj = w.file.obj
      /\ q.file.free[s] = n
      /\ \A t \in Sizes : t # s => q.file.free[t] = w.file.free[t]
      /\ q.past = w.past \cup {q.file}
  BY <1>4, <1>6, WriteRoot
<1>10. SameRoot(f, q.file)
  BY <1>6, <1>9 DEF SameRoot
<1>11. \A t \in Sizes : Root(s) = Root(t) <=> t = s
  BY RootIs
<1>12. s # MaxSize
  <2>1. f.free[s] # End
    BY DEF FirstOf
  <2> QED BY <2>1
<1>13. Linked(q.file, F \ {a}) /\ Alike(f, q.file)
  <2>1. PICK p : p = Root(s)
    OBVIOUS
  <2>2. p = f.obj[a].prev /\ f.obj[a].size # MaxSize /\ n = f.obj[a].next
    BY <1>2, <1>12, <2>1 DEF FirstOf
  <2>3. /\ \A t \in Sizes : p = Root(t) => q.file.free[t] = n
        /\ \A t \in Sizes : p # Root(t) => q.file.free[t] = f.free[t]
    BY <1>6, <1>9, <1>11, <2>1
  <2>4. p \notin Offsets
    BY <2>1, RootIs
  <2>5. /\ \A o \in Offsets : (n = 0 \/ o # n) /\ o # p => q.file.obj[o] = f.obj[o]
        /\ n # 0 => q.file.obj[n] = FreeObj(f.obj[n].size, f.obj[n].next, p)
        /\ p \in Offsets => q.file.obj[p] = FreeObj(f.obj[p].size, n, f.obj[p].prev)
    BY <1>6, <1>9, <2>1, <2>4
  <2>6. Unlinked(f, q.file, a, n, p)
    BY <1>9, <1>10, <2>2, <2>3, <2>5 DEF Unlinked
  <2> QED BY <1>2, <2>6, UnlinkedIs
<1> QED BY <1>2, <1>6, <1>8, <1>9, <1>13

\* The file is twice as large, and has an object behind the old end.
LEMMA GrownIs ==
    ASSUME NEW f, NEW z, Tidy(f, z), NEW n, n = f.size, n < MaxSize,
           NEW g, g = [f EXCEPT !.size = 2 * @]
    PROVE  \E y : Opened(g, y, n) /\ y[n] = n
<1>1. Divided(f, z) /\ IsFile(f) /\ n \in Sizes /\ n \in Nat /\ n >= 4 /\ MaxSize \in Nat
  BY DividedSize DEF Tidy, Divided
<1>2. /\ g.size = 2 * n /\ g.active = f.active /\ g.hm = f.hm /\ g.load = f.load
      /\ g.entries = f.entries /\ g.free = f.free /\ g.obj = f.obj /\ IsFile(g)
  <2>1. g = [size |-> 2 * n, active |-> f.active, hm |-> f.hm, load |-> f.load,
            entries |-> f.entries, free |-> f.free, obj |-> f.obj]
    BY <1>1 DEF IsFile
  <2>2. /\ g.size = 2 * n /\ g.active = f.active /\ g.hm = f.hm /\ g.load = f.load
        /\ g.entries = f.entries /\ g.free = f.free /\ g.obj = f.obj
    BY <2>1
  <2> QED BY <1>1, <2>1, <2>2 DEF IsFile
<1>3. \A a \in DOMAIN z : /\ a \in Nat /\ a < n /\ a + z[a] <= n /\ a \in Offsets
                          /\ z[a] \in Sizes /\ z[a] \in Nat /\ z[a] >= 1 /\ Mult(a, z[a])
  BY <1>1, DividedSize
<1>4. PICK y : y = [a \in DOMAIN z \cup {n} |-> IF a = n THEN n ELSE z[a]]
  OBVIOUS
<1>5. DOMAIN y = DOMAIN z \cup {n} /\ y[n] = n /\ \A a \in DOMAIN z : y[a] = z[a] /\ a # n
  <2>1. \A a \in DOMAIN z : a # n
    BY <1>1, <1>3
  <2> QED BY <1>4, <2>1
<1>6. Tiles(g.size, y)
  <2>1. Tiles(n, z)
    BY <1>1 DEF Divided
  <2>2. PICK m : m = n
    OBVIOUS
  <2>3. m \in Sizes /\ Tiles(m, z) /\ DOMAIN y = DOMAIN z \cup {m} /\ y[m] = m
        /\ \A b \in DOMAIN z : y[b] = z[b]
    BY <1>1, <1>5, <2>1, <2>2
  <2>4. Tiles(2 * m, y)
    BY <2>3, TilesGrow
  <2> QED BY <1>2, <2>2, <2>4
<1>7. n \in Offsets /\ f.obj[n].type = "blank"
  <2>1. n \in Offsets /\ n >= f.size
    BY <1>1 DEF Offsets
  <2> QED BY <1>1, <2>1 DEF Divided
<1>8. 2 * n \in Sizes /\ 2 * n >= StartSize
  <2>1. MaxSize \in Sizes /\ StartSize \in Nat /\ n >= StartSize
    BY <1>1, SizesOK, StaticmapOK, SizeIs DEF Divided
  <2> QED BY <1>1, <2>1, SizesDouble
<1>9. 0 \in DOMAIN z /\ z[0] = 1 /\ f.obj[0].type = "meta"
  BY <1>1 DEF Divided
<1>10. \A a \in DOMAIN z : z[a] # n
  <2>1. ASSUME NEW a \in DOMAIN z, z[a] = n PROVE FALSE
    <3>1. a = 0
      BY <1>1, <1>3, <2>1
    <3> QED BY <1>1, <1>9, <2>1, <3>1
  <2> QED BY <2>1
<1>11. \A a \in DOMAIN z : f.obj[a].type \in {"free", "data", "meta"} /\ f.obj[a].size = z[a]
                           /\ f.obj[a].type # "blank"
  BY <1>1 DEF Divided, Tidy
<1>12. \A a \in DOMAIN y : \/ g.obj[a].type \in {"free", "data", "meta"} /\ g.obj[a].size = y[a]
                           \/ g.obj[a].type = "blank" /\ 2 * a = g.size /\ y[a] = a
  BY <1>2, <1>5, <1>7, <1>11
<1>13. \A o \in Offsets \ DOMAIN y : ~InUse(g.obj[o])
  BY <1>1, <1>2, <1>5 DEF Divided
<1>14. \A a \in DOMAIN y, o \in Offsets :
          InUse(g.obj[a]) /\ a < o /\ o < a + y[a] => g.obj[o] = Junk
  <2>1. ~InUse(g.obj[n])
    BY <1>2, <1>7 DEF InUse
  <2>2. \A a \in DOMAIN z, o \in Offsets :
          InUse(f.obj[a]) /\ a < o /\ o < a + z[a] => f.obj[o] = Junk
    BY <1>1 DEF Divided
  <2> QED BY <1>2, <1>5, <2>1, <2>2
<1>15. \A o \in Offsets : o >= g.size => g.obj[o].type = "blank"
  <2>1. \A o \in Offsets : o >= 2 * n => o >= f.size
    BY <1>1 DEF Offsets
  <2> QED BY <1>1, <1>2, <2>1 DEF Divided
<1>16. ASSUME NEW a \in DOMAIN y, NEW b \in DOMAIN y, Vacant(g.obj[a]), Vacant(g.obj[b]),
              y[a] = y[b], b = Sibling(a, y[a])
       PROVE  FALSE
  <2>1. CASE a = n \/ b = n
    <3>1. a = n /\ b = n
      BY <1>5, <1>10, <1>16, <2>1
    <3>2. n \in Nat \ {0} /\ Mult(n, n)
      BY <1>1, MultSelf
    <3>3. Sibling(n, n) # n
      BY <3>2, SiblingBack
    <3> QED BY <1>5, <1>16, <3>1, <3>3
  <2>2. CASE a # n /\ b # n
    <3>1. a \in DOMAIN z /\ b \in DOMAIN z /\ z[a] = z[b] /\ b = Sibling(a, z[a])
      BY <1>5, <1>16, <2>2
    <3>2. \A e \in DOMAIN z, h \in DOMAIN z :
              Vacant(f.obj[e]) /\ Vacant(f.obj[h]) /\ z[e] = z[h] => h # Sibling(e, z[e])
      BY <1>1 DEF Divided
    <3> QED BY <1>2, <1>16, <3>1, <3>2
  <2> QED BY <2>1, <2>2
<1>17. Divided(g, y)
  <2>1. 0 \in DOMAIN y /\ y[0] = 1 /\ g.obj[0].type = "meta"
    BY <1>2, <1>5, <1>9
  <2> QED BY <1>2, <1>6, <1>8, <1>12, <1>13, <1>14, <1>15, <1>16, <2>1 DEF Divided
<1>18. /\ \A o \in DOMAIN y : o # n => g.obj[o].type # "blank"
       /\ n \in DOMAIN y /\ Vacant(g.obj[n])
  BY <1>2, <1>5, <1>7, <1>11 DEF Vacant
<1>19. \A o \in Offsets \ DOMAIN y : o < g.size /\ (o < n \/ o >= n + y[n]) => g.obj[o] = Junk
  <2>1. \A o \in Offsets : o < g.size /\ (o < n \/ o >= n + y[n]) => o < f.size
    BY <1>1, <1>2, <1>5 DEF Offsets
  <2> QED BY <1>2, <1>5, <2>1 DEF Tidy
<1>20. Linked(g, FreeIn(g, y) \ {n}) /\ g.free[MaxSize] = End
  <2>1. FreeIn(g, y) \ {n} = FreeIn(f, z)
    BY <1>2, <1>5 DEF FreeIn
  <2>2. Linked(f, FreeIn(f, z)) /\ f.free[MaxSize] = End
    BY DEF Tidy
  <2> QED BY <1>2, <2>1, <2>2 DEF Linked
<1> QED BY <1>5, <1>17, <1>18, <1>19, <1>20 DEF Opened

\* The object x, of size s, is in the file when alloc() and its caller are done.
LEMMA AllocIs ==
    ASSUME NEW r, Whole(r.file), r.file \in r.past, r.file.size < MaxSize,
           NEW s \in Sizes, s <= r.file.size, NEW x, InUse(x), x.size = s,
           NEW a, a = AllocAt(r.file, s), NEW q, q = WriteObject(Alloc(r, s), a, x)
    PROVE  /\ Whole(q.file) /\ Takes(r.file, q.file, a, x) /\ q.file \in q.past
           /\ \A g \in q.past : g \in r.past \/ Kin(r.file, g) \/ g = q.file
           /\ \A g \in q.past : g \in r.past \/ g.size = q.file.size
           /\ r.file.size <= q.file.size
<1> DEFINE f == r.file
<1>1. PICK z : Tidy(f, z)
  BY DEF Whole
<1>2. PICK c : c = Bucket(f, s)
  OBVIOUS
<1>3. c \in Sizes /\ s <= c /\ f.free[c] # 0
  BY <1>1, <1>2, BucketIs DEF Tidy
<1>4. /\ Divided(f, z) /\ IsFile(f) /\ Linked(f, FreeIn(f, z)) /\ f.free[MaxSize] = End
  BY <1>1 DEF Tidy, Divided
<1>5. CASE Grows(f, s)
  <2>1. PICK n, g : n = f.size /\ g = [f EXCEPT !.size = 2 * @]
    OBVIOUS
  <2>2. PICK w : w = Write(r, g)
    OBVIOUS
  <2>3. w.file = g /\ w.past = r.past \cup {g}
    BY <2>2 DEF Write
  <2>4. a = n
    BY <1>5, <2>1 DEF AllocAt
  <2>5. q = WriteObject(Split(w, n, s, n), n, x)
    BY <1>5, <2>1, <2>2, <2>4 DEF Alloc
  <2>6. PICK y : Opened(g, y, n) /\ y[n] = n
    BY <1>1, <2>1, GrownIs
  <2>7. /\ Whole(q.file) /\ Takes(g, q.file, n, x) /\ q.file \in q.past
        /\ \A h \in q.past : h \in w.past \/ Kin(g, h) \/ h = q.file
        /\ \A h \in q.past : h \in w.past \/ h.size = q.file.size
        /\ q.file.size = g.size
    <3>1. w.file \in w.past /\ Opened(w.file, y, n) /\ n = y[n] /\ s <= n
      BY <2>1, <2>3, <2>6
    <3>2. /\ Whole(q.file) /\ Takes(w.file, q.file, n, x) /\ q.file \in q.past
          /\ \A h \in q.past : h \in w.past \/ Kin(w.file, h) \/ h = q.file
          /\ \A h \in q.past : h \in w.past \/ h.size = q.file.size
          /\ q.file.size = w.file.size
      BY <2>5, <3>1, UsedIs
    <3> QED BY <2>3, <3>2
  <2>8. SameHead(f, g) /\ SameUse(f, g) /\ Torn(g)
    <3>1. g.active = f.active /\ g.hm = f.hm /\ g.load = f.load /\ g.entries = f.entries
          /\ g.obj = f.obj
      BY <1>4, <2>1 DEF IsFile
    <3>2. Torn(g)
      BY <2>6 DEF Opened, Torn
    <3> QED BY <3>1, <3>2 DEF SameHead, SameUse
  <2>9. \A h \in q.past : h \in r.past \/ Kin(f, h) \/ h = q.file
    BY <2>3, <2>7, <2>8, KinTrans DEF Kin
  <2>10. f.size <= q.file.size
    <3>1. g.size = 2 * n /\ n \in Nat
      BY <1>4, <2>1, DividedSize DEF IsFile
    <3> QED BY <2>1, <2>7, <3>1
  <2>11. \A h \in q.past : h \in r.past \/ h.size = q.file.size
    BY <2>3, <2>7
  <2> QED BY <2>4, <2>7, <2>8, <2>9, <2>10, <2>11, TakesTrans
<1>6. CASE ~Grows(f, s)
  <2>1. a = f.free[c] /\ a # End /\ a # 0
    BY <1>2, <1>3, <1>6 DEF AllocAt, Grows
  <2>2. PICK n, w : n = f.obj[a].next /\ w = WriteNext(WritePrev(r, n, Root(c)), Root(c), n)
    OBVIOUS
  <2>13. FirstOf(f, c, a, n) /\ Shifts(r, c, n, w)
    BY <2>1, <2>2 DEF FirstOf, Shifts
  <2>3. q = WriteObject(Split(w, a, s, c), a, x)
    BY <1>2, <1>6, <2>2 DEF Alloc
  <2>4. /\ Linked(w.file, FreeIn(f, z) \ {a}) /\ Alike(f, w.file) /\ a \in FreeIn(f, z)
        /\ f.obj[a].size = c /\ w.file \in w.past
        /\ \A g \in w.past : g \in r.past \/ Alike(f, g)
    <3>1. /\ Linked(f, FreeIn(f, z)) /\ f.free[MaxSize] = End /\ c \in Sizes
          /\ FirstOf(f, c, a, n) /\ Shifts(r, c, n, w)
      BY <1>3, <1>4, <2>13
    <3> QED BY ONLY <3>1, FirstTaken
  <2>5. \A g : Alike(f, g) => Divided(g, z) /\ SameUse(f, g) /\ SameHead(f, g)
    BY <1>4, AlikeDivided DEF Alike, SameRoot, SameHead
  <2>6. \A o \in Offsets : SameObj(f.obj[o], w.file.obj[o])
    BY <2>4 DEF Alike
  <2>7. \A o \in DOMAIN z : o \in Offsets
    BY <1>4, DividedSize
  <2>8. a \in DOMAIN z /\ f.obj[a].type = "free" /\ z[a] = c
    BY <1>4, <2>4 DEF FreeIn, Divided
  <2>9. Opened(w.file, z, a)
    <3>1. Vacant(w.file.obj[a])
      BY <2>6, <2>7, <2>8 DEF Vacant, SameObj
    <3>2. FreeIn(w.file, z) = FreeIn(f, z)
      BY <2>6, <2>7 DEF FreeIn, SameObj
    <3>3. \A o \in DOMAIN z : w.file.obj[o].type # "blank"
      BY <1>1, <2>6, <2>7 DEF Tidy, SameObj
    <3>4. \A o \in Offsets \ DOMAIN z : o < w.file.size => w.file.obj[o] = Junk
      <4>1. w.file.size = f.size
        BY <2>4 DEF Alike, SameRoot
      <4>2. \A o \in Offsets \ DOMAIN z : o < f.size => f.obj[o] = Junk
        BY <1>1 DEF Tidy
      <4> QED BY <2>6, <4>1, <4>2 DEF SameObj, Junk
    <3>5. w.file.free[MaxSize] = End
      BY <1>4, <2>4 DEF Alike
    <3> QED BY <2>4, <2>5, <2>8, <3>1, <3>2, <3>3, <3>4, <3>5 DEF Opened
  <2>10. /\ Whole(q.file) /\ Takes(w.file, q.file, a, x) /\ q.file \in q.past
         /\ \A h \in q.past : h \in w.past \/ Kin(w.file, h) \/ h = q.file
         /\ \A h \in q.past : h \in w.past \/ h.size = q.file.size
         /\ q.file.size = w.file.size
    <3>1. c = z[a] /\ s <= c
      BY <1>3, <2>8
    <3> QED BY <2>3, <2>4, <2>9, <3>1, UsedIs
  <2>11. Takes(f, q.file, a, x)
    BY <2>4, <2>5, <2>10, TakesTrans
  <2>12. ASSUME NEW h \in q.past PROVE h \in r.past \/ Kin(f, h) \/ h = q.file
    <3>1. CASE h \in w.past
      BY <2>4, <2>5, <3>1 DEF Kin, Torn
    <3>2. CASE Kin(w.file, h)
      BY <2>4, <2>5, <3>2, KinTrans
    <3> QED BY <2>10, <3>1, <3>2
  <2>14. w.file.size = f.size /\ \A g \in w.past : g \in r.past \/ g.size = f.size
    BY <2>4 DEF Alike, SameRoot
  <2>15. f.size <= q.file.size
    <3>1. f.size \in Nat
      BY <1>4, DividedSize
    <3> QED BY <2>10, <2>14, <3>1
  <2>16. \A h \in q.past : h \in r.past \/ h.size = q.file.size
    BY <2>10, <2>14
  <2> QED BY <2>10, <2>11, <2>12, <2>15, <2>16
<1> QED BY <1>5, <1>6
------------------------------------------------------------------------------
(* dealloc().                                                              *)

\* An object leaves its list, wherever in it it is.
LEMMA UnlinkIs ==
    ASSUME NEW r, NEW F, Linked(r.file, F), NEW x \in F, r.file.obj[x].size # MaxSize,
           NEW q, q = Unlink(r, x)
    PROVE  /\ Linked(q.file, F \ {x}) /\ Alike(r.file, q.file)
           /\ \A g \in q.past : g \in r.past \/ Alike(r.file, g)
<1> DEFINE f == r.file
<1>1. IsFile(f) /\ Lists(f.free, f.obj, F) /\ F \subseteq Offsets \ {0}
      /\ \A o \in F : f.obj[o].type = "free"
  BY DEF Linked, Lists
<1>2. PICK n, p, w : n = f.obj[x].next /\ p = f.obj[x].prev /\ w = WriteNext(r, p, n)
  OBVIOUS
<1>3. q = WritePrev(w, n, p)
  BY <1>2 DEF Unlink
<1>4. n # 0 => n \in F
  BY <1>1, <1>2 DEF Lists
<1>5. (p \in F \/ p = Root(f.obj[x].size)) /\ f.obj[x].size \in Sizes
  BY <1>1, <1>2 DEF Lists
<1>6. n # x /\ p # x /\ (n # 0 => n # p)
  BY <1>1, <1>2, ListsApart
<1>7. n = 0 \/ n \in Offsets
  BY <1>1, <1>4
<1>8. /\ IsFile(w.file) /\ SameRoot(f, w.file) /\ w.past = r.past \cup {w.file}
      /\ \A t \in Sizes : p = Root(t) => w.file.free[t] = n
      /\ \A t \in Sizes : p # Root(t) => w.file.free[t] = f.free[t]
      /\ \A o \in Offsets : o # p => w.file.obj[o] = f.obj[o]
      /\ p \in Offsets => w.file.obj[p] = FreeObj(f.obj[p].size, n, f.obj[p].prev)
  <2>1. CASE p \in F
    <3>1. p \in Offsets
      BY <1>1, <2>1
    <3>2. /\ IsFile(w.file) /\ SameRoot(f, w.file) /\ w.file.free = f.free
          /\ w.file.obj[p] = FreeObj(f.obj[p].size, n, f.obj[p].prev)
          /\ \A o \in Offsets : o # p => w.file.obj[o] = f.obj[o]
          /\ w.past = r.past \cup {w.file}
      <4>1. IsFile(r.file) /\ p \in Offsets /\ w = WriteNext(r, p, n) /\ f = r.file
        BY <1>1, <1>2, <3>1
      <4> QED BY ONLY <4>1, WriteLink
    <3>3. \A t \in Sizes : p # Root(t)
      BY <3>1, RootIs
    <3> QED BY <3>2, <3>3
  <2>2. CASE p = Root(f.obj[x].size)
    <3>1. PICK s \in Sizes : s = f.obj[x].size
      BY <1>5
    <3>2. w = WriteNext(r, Root(s), n)
      BY <1>2, <2>2, <3>1
    <3>3. /\ IsFile(w.file) /\ SameRoot(f, w.file) /\ w.file.obj = f.obj
          /\ w.file.free[s] = n
          /\ \A t \in Sizes : t # s => w.file.free[t] = f.free[t]
          /\ w.past = r.past \cup {w.file}
      BY <1>1, <3>2, WriteRoot
    <3>4. p = Root(s) /\ p \notin Offsets /\ \A t \in Sizes : p = Root(t) <=> t = s
      BY <2>2, <3>1, RootIs
    <3> QED BY <3>3, <3>4
  <2> QED BY <1>5, <2>1, <2>2
<1>9. /\ IsFile(q.file) /\ SameRoot(w.file, q.file) /\ q.file.free = w.file.free
      /\ n # 0 => q.file.obj[n] = FreeObj(w.file.obj[n].size, w.file.obj[n].next, p)
      /\ \A o \in Offsets : n = 0 \/ o # n => q.file.obj[o] = w.file.obj[o]
      /\ q.past \subseteq w.past \cup {q.file}
  BY <1>3, <1>7, <1>8, WritePrevIs
<1>10. n # 0 => w.file.obj[n] = f.obj[n]
  BY <1>6, <1>7, <1>8
<1>11. p \in Offsets => n = 0 \/ p # n
  BY <1>6
<1>12. SameRoot(f, q.file)
  BY <1>8, <1>9 DEF SameRoot
<1>13. Unlinked(f, q.file, x, n, p)
  <2>1. /\ \A t \in Sizes : p = Root(t) => q.file.free[t] = n
        /\ \A t \in Sizes : p # Root(t) => q.file.free[t] = f.free[t]
    BY <1>8, <1>9
  <2>2. \A o \in Offsets : (n = 0 \/ o # n) /\ o # p => q.file.obj[o] = f.obj[o]
    BY <1>8, <1>9
  <2>3. n # 0 => q.file.obj[n] = FreeObj(f.obj[n].size, f.obj[n].next, p)
    BY <1>9, <1>10
  <2>4. p \in Offsets => q.file.obj[p] = FreeObj(f.obj[p].size, n, f.obj[p].prev)
    BY <1>8, <1>9, <1>11
  <2>5. IsFile(q.file) /\ n = f.obj[x].next /\ p = f.obj[x].prev /\ f.obj[x].size # MaxSize
    BY <1>2, <1>9
  <2> HIDE DEF f
  <2> QED BY <1>12, <2>1, <2>2, <2>3, <2>4, <2>5 DEF Unlinked
<1>14. Linked(q.file, F \ {x}) /\ Alike(f, q.file)
  BY <1>13, UnlinkedIs
<1>15. Alike(f, w.file)
  <2>1. \A o \in Offsets : SameObj(f.obj[o], w.file.obj[o])
    <3>1. p \in Offsets => p \in F
      BY <1>5, RootIs
    <3>2. p \in Offsets => SameObj(f.obj[p], w.file.obj[p])
      BY <1>1, <1>8, <3>1, FreeObjIs DEF SameObj
    <3> QED BY <1>8, <3>2 DEF SameObj
  <2>2. w.file.free[MaxSize] = f.free[MaxSize]
    <3>1. MaxSize \in Sizes /\ p # Root(MaxSize)
      <4>1. MaxSize \in Sizes /\ -Root(MaxSize) = MaxSize /\ Root(MaxSize) \notin Offsets
        BY SizesOK, RootIs
      <4>2. -Root(f.obj[x].size) = f.obj[x].size
        BY <1>5, RootIs
      <4> QED BY <1>1, <1>5, <4>1, <4>2
    <3> QED BY <1>8, <3>1
  <2> QED BY <1>8, <2>1, <2>2 DEF Alike
<1> QED BY <1>8, <1>9, <1>14, <1>15

\* The siblings that the object at a, of size s, is joined with up to size t.
Gone(a, s, t) == {Sibling(Floor(a, u), u) : u \in {v \in Sizes : s <= v /\ v < t}}

\* The object of size u that a is in, its sibling, and the object they make.
Halves(a, u, b, d, e) == b = Floor(a, u) /\ d = Sibling(b, u) /\ e = Floor(a, 2 * u)

\* The object of twice the size that a is in is made of the one a is in and its
\* sibling.
LEMMA FloorTwice ==
    ASSUME NEW u \in Nat \ {0}, NEW a \in Nat, NEW b, NEW d, NEW e, Halves(a, u, b, d, e)
    PROVE  /\ b \in Nat /\ d \in Nat /\ e \in Nat
           /\ \/ e = b /\ d = b + u
              \/ e = d /\ b = d + u
<1> b = Floor(a, u) /\ d = Sibling(b, u) /\ e = Floor(a, 2 * u)
  BY DEF Halves
<1>1. b \in Nat /\ Mult(b, u) /\ b <= a /\ a < b + u
  BY FloorIs
<1>2. /\ d \in Nat /\ Mult(d, u)
      /\ Mult(b, 2 * u) => d = b + u
      /\ ~Mult(b, 2 * u) => d = b - u /\ Mult(b - u, 2 * u)
  BY <1>1, SiblingIs
<1>3. PICK w : w = 2 * u
  OBVIOUS
<1>4. w \in Nat \ {0} /\ e = Floor(a, w)
  BY <1>3
<1>5. CASE Mult(b, w)
  <2>1. b <= a /\ a < b + w
    BY <1>1, <1>3
  <2>2. Floor(a, w) = b
    BY <1>1, <1>4, <1>5, <2>1, FloorOne
  <2> QED BY <1>1, <1>2, <1>3, <1>4, <1>5, <2>2
<1>6. CASE ~Mult(b, w)
  <2>1. d = b - u /\ Mult(d, w)
    BY <1>2, <1>3, <1>6
  <2>2. d <= a /\ a < d + w
    BY <1>1, <1>2, <1>3, <2>1
  <2>3. Floor(a, w) = d
    BY <1>2, <1>4, <2>1, <2>2, FloorOne
  <2> QED BY <1>1, <1>2, <1>4, <2>1, <2>3
<1> QED BY <1>5, <1>6

\* Up to twice a size there is one sibling more.
LEMMA GoneTwice ==
    ASSUME NEW a, NEW s \in Sizes, NEW u \in Sizes, s <= u, NEW t, t = 2 * u
    PROVE  Gone(a, s, t) = Gone(a, s, u) \cup {Sibling(Floor(a, u), u)}
<1>1. \A v \in Sizes : v < t <=> v < u \/ v = u
  <2>1. ASSUME NEW v \in Sizes, v < t, ~(v < u), v # u PROVE FALSE
    <3>1. v \in Nat /\ u \in Nat
      BY SizeIs
    <3>2. u < v
      BY <2>1, <3>1
    <3>3. 2 * u <= v
      BY <3>2, SizesDouble
    <3> QED BY <2>1, <3>1, <3>3
  <2>2. \A v \in Sizes : v \in Nat /\ u \in Nat /\ u >= 1
    BY SizeIs
  <2> QED BY <2>1, <2>2
<1>2. {v \in Sizes : s <= v /\ v < t} = {v \in Sizes : s <= v /\ v < u} \cup {u}
  BY <1>1
<1> QED BY <1>2 DEF Gone

\* All that is between b and b + t is the object at a, and the free ones G.
Block(f, z, a, b, t, G) ==
    /\ t \in Sizes /\ b \in Nat /\ Mult(b, t) /\ b <= a /\ a < b + t /\ b + t <= f.size /\ z[a] <= t
    /\ \A h \in DOMAIN z : b <= h /\ h < b + t => h = a \/ h \in G
    /\ \A h \in G : h \in DOMAIN z /\ f.obj[h].type = "free" /\ b <= h /\ h < b + t

\* A block and its free sibling make a block of twice the size.
LEMMA BlockTwice ==
    ASSUME NEW f, NEW z, Tidy(f, z), NEW a \in DOMAIN z, NEW u \in Sizes, NEW G,
           NEW b, b = Floor(a, u), Block(f, z, a, b, u, G), NEW t \in Sizes, t = 2 * u, t <= f.size,
           NEW d, d = Sibling(b, u), Joins(f, a, u), NEW e, e = Floor(a, t)
    PROVE  /\ Block(f, z, a, e, t, G \cup {d})
           /\ d \in DOMAIN z /\ f.obj[d].type = "free" /\ f.obj[d].size = u /\ d \notin G
<1>1. Divided(f, z)
  BY DEF Tidy
<1>2. /\ f.size \in Nat /\ f.size <= MaxSize /\ a \in Nat /\ a < f.size /\ MaxSize \in Nat
      /\ \A h \in DOMAIN z : h \in Nat /\ z[h] \in Nat
  BY <1>1, DividedSize
<1>3. u \in Nat \ {0} /\ t \in Nat \ {0} /\ u \in Nat /\ u >= 1 /\ t \in Nat
  BY SizeIs
<1>4. b \in Nat /\ d \in Nat /\ e \in Nat /\ ((e = b /\ d = b + u) \/ (e = d /\ b = d + u))
  <2>1. u \in Nat \ {0} /\ a \in Nat /\ e = Floor(a, 2 * u)
    BY <1>2, <1>3
  <2>2. PICK v : v = u
    OBVIOUS
  <2>3. v \in Nat \ {0} /\ Halves(a, v, b, d, e)
    BY <2>1, <2>2 DEF Halves
  <2>4. b \in Nat /\ d \in Nat /\ e \in Nat /\ ((e = b /\ d = b + v) \/ (e = d /\ b = d + v))
    BY <2>1, <2>3, FloorTwice
  <2> QED BY <2>2, <2>4
<1>5. Mult(e, t) /\ e <= a /\ a < e + t
  BY <1>2, <1>3, FloorIs
<1>6. e + t <= f.size
  <2>1. PICK n : n = f.size
    OBVIOUS
  <2>2. n \in Sizes /\ n \in Nat \ {0} /\ t <= n
    <3>1. n \in Sizes /\ t <= n
      BY <1>1, <2>1 DEF Divided
    <3> QED BY <3>1, SizeIs
  <2>3. Mult(n, t)
    <3>1. Mult(n, n) /\ n \in Int
      BY <2>2, MultSelf
    <3> QED BY <2>2, <3>1, MultDown
  <2>4. e < n
    BY <1>2, <1>4, <1>5, <2>1
  <2>5. e + t <= n
    BY <1>3, <1>4, <1>5, <2>2, <2>3, <2>4, MultApart
  <2> QED BY <2>1, <2>5
<1>7. f.obj[d].type = "free" /\ f.obj[d].size = u
  BY DEF Joins
<1>8. d \in Offsets /\ d < f.size
  BY <1>2, <1>3, <1>4, <1>6 DEF Offsets
<1>9. d \in DOMAIN z /\ z[d] = u
  <2>1. d \in DOMAIN z
    BY <1>7, <1>8 DEF Tidy, Junk
  <2> QED BY <1>1, <1>7, <2>1 DEF Divided
<1>10. ASSUME NEW h \in DOMAIN z, e <= h, h < e + t PROVE h = a \/ h \in G \cup {d}
  <2>1. CASE b <= h /\ h < b + u
    BY <2>1 DEF Block
  <2>2. CASE d <= h /\ h < d + u
    BY <1>1, <1>9, <2>2, AloneInTile
  <2> QED BY <1>2, <1>3, <1>4, <1>10, <2>1, <2>2
<1>11. ASSUME NEW h \in G \cup {d}
       PROVE  h \in DOMAIN z /\ f.obj[h].type = "free" /\ e <= h /\ h < e + t
  <2>1. CASE h \in G
    <3>1. h \in DOMAIN z /\ f.obj[h].type = "free" /\ b <= h /\ h < b + u
      BY <2>1 DEF Block
    <3> QED BY <1>2, <1>3, <1>4, <3>1
  <2>2. CASE h = d
    BY <1>3, <1>4, <1>7, <1>9, <2>2
  <2> QED BY <2>1, <2>2
<1>12. d \notin G
  <2>1. ~(b <= d /\ d < b + u)
    BY <1>3, <1>4
  <2> QED BY <2>1 DEF Block
<1>13. z[a] <= t
  <2>1. z[a] <= u
    BY DEF Block
  <2> QED BY <1>2, <1>3, <2>1
<1> QED BY <1>4, <1>5, <1>6, <1>7, <1>9, <1>10, <1>11, <1>12, <1>13 DEF Block
\* The siblings met up to size t and the object that is given back fill a block
\* of that size.
LEMMA BlockAt ==
    ASSUME NEW f, NEW z, Tidy(f, z), NEW a \in DOMAIN z, NEW s, s = z[a], NEW t \in Sizes,
           s <= t, t <= f.size, \A u \in Sizes : s <= u /\ u < t => Joins(f, a, u)
    PROVE  Block(f, z, a, Floor(a, t), t, Gone(a, s, t))
<1>1. Divided(f, z)
  BY DEF Tidy
<1>2. /\ f.size \in Nat /\ a \in Nat /\ s \in Sizes /\ s \in Nat /\ s >= 1 /\ Mult(a, s)
      /\ a + s <= f.size
      /\ \A h \in DOMAIN z : h \in Nat
  BY <1>1, DividedSize
<1>3. \A u \in Sizes : u \in Nat /\ u >= 1
  BY SizeIs
<1> DEFINE T == {u \in Sizes : s <= u /\ u <= t /\ ~Block(f, z, a, Floor(a, u), u, Gone(a, s, u))}
<1>4. ASSUME T # {} PROVE FALSE
  <2>1. T \in SUBSET Sizes
    OBVIOUS
  <2>2. PICK u \in T : \A v \in T : u <= v
    <3> HIDE DEF T
    <3> QED BY <1>4, <2>1, LeastSize
  <2>3. u \in Sizes /\ s <= u /\ u <= t /\ ~Block(f, z, a, Floor(a, u), u, Gone(a, s, u))
    OBVIOUS
  <2>4. CASE u = s
    <3>1. Floor(a, s) = a
      <4>1. s \in Nat \ {0} /\ a <= a /\ a < a + s
        BY <1>2
      <4> QED BY <1>2, <4>1, FloorOne
    <3>2. Gone(a, s, s) = {}
      <4>1. \A v \in Sizes : ~(s <= v /\ v < s)
        BY <1>2, <1>3
      <4> QED BY <4>1 DEF Gone
    <3>3. \A h \in DOMAIN z : a <= h /\ h < a + s => h = a
      BY <1>1, AloneInTile
    <3>4. Block(f, z, a, a, s, {})
      BY <1>2, <3>3 DEF Block
    <3> QED BY <2>3, <2>4, <3>1, <3>2, <3>4
  <2>5. CASE s < u
    <3>1. PICK h : h = u \div 2
      OBVIOUS
    <3>2. h \in Sizes /\ u = 2 * h /\ s <= h /\ h < u
      BY <1>2, <2>3, <2>5, <3>1, HalfIs
    <3>3. ~(u <= h) /\ h <= t
      BY <1>3, <2>3, <3>2
    <3>4. Block(f, z, a, Floor(a, h), h, Gone(a, s, h))
      BY <2>2, <3>2, <3>3
    <3>5. Joins(f, a, h)
      BY <1>3, <2>3, <3>2
    <3>6. u <= f.size
      BY <1>2, <1>3, <2>3
    <3>7. PICK b, d, e, G : b = Floor(a, h) /\ d = Sibling(b, h) /\ e = Floor(a, u)
                            /\ G = Gone(a, s, h)
      OBVIOUS
    <3>8. Gone(a, s, u) = G \cup {d}
      BY <1>2, <3>2, <3>7, GoneTwice
    <3>9. Block(f, z, a, e, u, G \cup {d})
      BY <2>3, <3>2, <3>4, <3>5, <3>6, <3>7, BlockTwice
    <3> QED BY <2>3, <3>7, <3>8, <3>9
  <2> QED BY <1>2, <1>3, <2>3, <2>4, <2>5
<1>5. t \notin T
  BY <1>4
<1>6. t <= t
  BY <1>3
<1> QED BY <1>5, <1>6

\* The loop of dealloc() ends below the size of the file: the object at 0 is
\* never free.
LEMMA JoinedIs ==
    ASSUME NEW f, NEW z, Tidy(f, z), NEW a \in DOMAIN z, InUse(f.obj[a]), a # 0,
           NEW s, s = z[a], NEW t, t = JoinedSize(f, a)
    PROVE  /\ f.obj[a].size = s /\ s \in Sizes /\ t \in Sizes /\ s <= t /\ t < f.size
           /\ ~Joins(f, a, t) /\ \A u \in Sizes : s <= u /\ u < t => Joins(f, a, u)
<1>1. Divided(f, z)
  BY DEF Tidy
<1>2. /\ f.size \in Nat /\ f.size \in Sizes /\ a \in Nat /\ a < f.size /\ s \in Sizes /\ s \in Nat
      /\ a + s <= f.size
  BY <1>1, DividedSize DEF Divided
<1>3. \A u \in Sizes : u \in Nat /\ u >= 1
  BY SizeIs
<1>4. f.obj[a].size = s
  BY <1>1 DEF Divided, InUse
<1> DEFINE T == {u \in Sizes : u >= s /\ ~Joins(f, a, u) /\ u < f.size}
<1>5. T # {}
  <2>1. ASSUME T = {} PROVE FALSE
    <3>1. \A u \in Sizes : s <= u /\ u < f.size => Joins(f, a, u)
      BY <1>2, <1>3, <2>1
    <3>2. PICK n, b, G : n = f.size /\ b = Floor(a, n) /\ G = Gone(a, s, n)
      OBVIOUS
    <3>3. Block(f, z, a, b, n, G)
      <4>1. n \in Sizes /\ s <= n /\ n <= f.size
        BY <1>2, <3>2
      <4>2. \A u \in Sizes : s <= u /\ u < n => Joins(f, a, u)
        BY <3>1, <3>2
      <4> QED BY <3>2, <4>1, <4>2, BlockAt
    <3>4. b = 0
      <4>1. b \in Nat /\ b + n <= n /\ n \in Nat
        BY <1>2, <3>2, <3>3 DEF Block
      <4> QED BY <4>1
    <3>5. 0 \in DOMAIN z /\ f.obj[0].type = "meta"
      BY <1>1 DEF Divided
    <3>6. b <= 0 /\ 0 < b + n
      BY <1>2, <3>2, <3>4
    <3>7. 0 = a \/ 0 \in G
      BY <3>3, <3>5, <3>6 DEF Block
    <3> QED BY <3>3, <3>5, <3>7 DEF Block
  <2> QED BY <2>1
<1>6. PICK m \in T : \A u \in T : m <= u
  <2>1. T \in SUBSET Sizes
    OBVIOUS
  <2> HIDE DEF T
  <2> QED BY <1>5, <2>1, LeastSize
<1>7. m \in Sizes /\ m >= s /\ ~Joins(f, a, m) /\ m < f.size
  BY <1>6
<1>8. ASSUME NEW u \in Sizes, s <= u, u < m, ~Joins(f, a, u) PROVE FALSE
  <2>1. u >= s /\ u < f.size /\ ~(m <= u)
    BY <1>2, <1>3, <1>7, <1>8
  <2>2. u \in T
    BY <1>8, <2>1
  <2> QED BY <1>6, <2>1, <2>2
<1> DEFINE J(v) == /\ v >= f.obj[a].size /\ ~Joins(f, a, v)
                   /\ \A u \in Sizes : f.obj[a].size <= u /\ u < v => Joins(f, a, u)
<1>9. m \in Sizes /\ J(m)
  BY <1>4, <1>7, <1>8
<1>10. t = CHOOSE v \in Sizes : J(v)
  BY DEF JoinedSize
<1>11. t \in Sizes /\ J(t)
  <2> HIDE DEF J
  <2> QED BY <1>9, <1>10
<1>12. t >= s /\ ~Joins(f, a, t) /\ \A u \in Sizes : s <= u /\ u < t => Joins(f, a, u)
  BY <1>4, <1>11
<1>13. s <= t /\ t < f.size
  <2>1. ~(m < t)
    <3>1. s <= m
      BY <1>2, <1>3, <1>7
    <3> QED BY <1>7, <1>12, <3>1
  <2> QED BY <1>2, <1>3, <1>7, <1>11, <1>12, <2>1
<1> QED BY <1>2, <1>4, <1>11, <1>12, <1>13

\* The siblings leave their lists, and on the way only links differ.
LEMMA SiblingsGone ==
    ASSUME NEW r, NEW f, f = r.file, NEW z, Tidy(f, z), NEW a \in DOMAIN z,
           NEW s, s = z[a], NEW t \in Sizes, s <= t, t <= f.size,
           \A u \in Sizes : s <= u /\ u < t => Joins(f, a, u),
           NEW F, F = FreeIn(f, z), NEW q, q = UnlinkSiblings(r, a, s, t)
    PROVE  /\ Linked(q.file, F \ Gone(a, s, t)) /\ Alike(f, q.file)
           /\ \A g \in q.past : g \in r.past \/ Alike(f, g)
<1>1. Divided(f, z) /\ Linked(f, F) /\ IsFile(f)
  BY DEF Tidy, Divided
<1>2. f.size \in Nat /\ f.size <= MaxSize /\ MaxSize \in Nat /\ s \in Sizes /\ s \in Nat
  BY <1>1, DividedSize
<1>3. \A u \in Sizes : u \in Nat /\ u >= 1 /\ u <= MaxSize
  BY SizeIs
<1>4. PICK e : UnlinkSiblings(r, a, s, t) = e[t] /\ Turns(FALSE, e, r, a, s, MaxSize)
  BY <1>2, UnlinkSiblingsIs
<1>5. \A u \in Sizes : e[u] = IF u <= s THEN r
                               ELSE Unlink(e[u \div 2], Sibling(Floor(a, u \div 2), u \div 2))
  BY <1>3, <1>4 DEF Turns, Turn
<1> DEFINE Fine(u) == /\ Linked(e[u].file, F \ Gone(a, s, u)) /\ Alike(f, e[u].file)
                      /\ \A g \in e[u].past : g \in r.past \/ Alike(f, g)
           T == {u \in Sizes : s <= u /\ u <= t /\ ~Fine(u)}
<1>6. ASSUME T # {} PROVE FALSE
  <2>1. T \in SUBSET Sizes
    OBVIOUS
  <2>2. PICK u \in T : \A v \in T : u <= v
    <3> HIDE DEF T
    <3> QED BY <1>6, <2>1, LeastSize
  <2>3. u \in Sizes /\ s <= u /\ u <= t /\ ~Fine(u)
    OBVIOUS
  <2>4. CASE u = s
    <3>1. e[u] = r
      BY <1>3, <1>5, <2>3, <2>4
    <3>2. Gone(a, s, u) = {}
      <4>1. \A v \in Sizes : ~(s <= v /\ v < u)
        BY <1>2, <1>3, <2>4
      <4> QED BY <4>1 DEF Gone
    <3>3. F \ {} = F
      OBVIOUS
    <3>4. Fine(u)
      BY <1>1, <3>1, <3>2, <3>3, AlikeSelf
    <3> QED BY <2>3, <3>4
  <2>5. CASE s < u
    <3>1. PICK h : h = u \div 2
      OBVIOUS
    <3>2. h \in Sizes /\ u = 2 * h /\ s <= h /\ h < u
      BY <1>2, <2>3, <2>5, <3>1, HalfIs
    <3>3. ~(u <= h) /\ h <= t /\ h <= f.size /\ u <= f.size /\ h < t
      BY <1>2, <1>3, <2>3, <3>2
    <3>4. Fine(h)
      BY <2>2, <3>2, <3>3
    <3>5. PICK b, d, x, G : b = Floor(a, h) /\ d = Sibling(b, h) /\ x = Floor(a, u)
                            /\ G = Gone(a, s, h)
      OBVIOUS
    <3>6. Block(f, z, a, b, h, G)
      <4>1. \A v \in Sizes : s <= v /\ v < h => Joins(f, a, v)
        BY <1>3, <2>3, <3>2, <3>3
      <4>2. Block(f, z, a, Floor(a, h), h, Gone(a, s, h))
        BY <3>2, <3>3, <4>1, BlockAt
      <4> QED BY <3>5, <4>2
    <3>7. Joins(f, a, h)
      BY <3>2, <3>3
    <3>8. /\ Block(f, z, a, x, u, G \cup {d})
          /\ d \in DOMAIN z /\ f.obj[d].type = "free" /\ f.obj[d].size = h /\ d \notin G
      BY <2>3, <3>2, <3>3, <3>5, <3>6, <3>7, BlockTwice
    <3>9. Gone(a, s, u) = G \cup {d}
      BY <1>2, <3>2, <3>5, GoneTwice
    <3>10. d \in F \ G
      BY <3>8 DEF FreeIn
    <3>11. e[u] = Unlink(e[h], d)
      <4>1. u \in Nat /\ s \in Nat
        BY <1>2, <1>3, <2>3
      <4>2. ~(u <= s)
        BY ONLY <4>1, <2>5
      <4> QED BY <1>5, <2>3, <3>1, <3>5, <4>2
    <3>12. e[h].file.obj[d].size # MaxSize
      <4>1. d \in Offsets
        BY <1>1, <3>8, DividedSize
      <4>2. SameObj(f.obj[d], e[h].file.obj[d])
        BY <3>4, <4>1 DEF Alike
      <4>3. h # MaxSize
        BY <1>2, <1>3, <3>2, <3>3
      <4> QED BY <3>8, <4>2, <4>3 DEF SameObj
    <3>13. Linked(e[h].file, F \ G)
      BY <3>4, <3>5
    <3>14. /\ Linked(e[u].file, (F \ G) \ {d}) /\ Alike(e[h].file, e[u].file)
           /\ \A g \in e[u].past : g \in e[h].past \/ Alike(e[h].file, g)
      BY <3>10, <3>11, <3>12, <3>13, UnlinkIs
    <3>15. Linked(e[u].file, F \ Gone(a, s, u))
      <4>1. (F \ G) \ {d} = F \ Gone(a, s, u)
        BY <3>9
      <4> QED BY <3>14, <4>1
    <3>16. Fine(u)
      BY <3>4, <3>14, <3>15, AlikeTrans
    <3> QED BY <2>3, <3>16
  <2> QED BY <1>2, <1>3, <2>3, <2>4, <2>5
<1>7. t \notin T
  BY <1>6
<1>8. t <= t
  BY <1>3
<1>9. Fine(t)
  BY <1>7, <1>8
<1> QED BY <1>4, <1>9
\* The object at a is no longer in use.
Gives(f, g, a) ==
    /\ SameHead(f, g) /\ ~InUse(g.obj[a])
    /\ \A o \in Offsets : o # a /\ (InUse(f.obj[o]) \/ InUse(g.obj[o])) => g.obj[o] = f.obj[o]

\* z, after the object at a and what else is in the block of size t at b are one.
Merged(z, b, t, y) ==
    /\ DOMAIN y = {o \in DOMAIN z : o < b \/ o >= b + t} \cup {b} /\ y[b] = t
    /\ \A o \in DOMAIN z : o < b \/ o >= b + t => y[o] = z[o]

\* The file is divided too with the block in place of its objects.
LEMMA MergedTiles ==
    ASSUME NEW f, NEW z, Divided(f, z), NEW a \in DOMAIN z, NEW b, NEW t, NEW G,
           Block(f, z, a, b, t, G)
    PROVE  \E y : /\ Merged(z, b, t, y) /\ Tiles(f.size, y)
                  /\ \A o \in DOMAIN z : o < b => o + z[o] <= b
<1>1. PICK y : y = [o \in {o \in DOMAIN z : o < b \/ o >= b + t} \cup {b} |->
                        IF o = b THEN t ELSE z[o]]
  OBVIOUS
<1>2. t \in Nat /\ t >= 1 /\ b \in Nat /\ t \in Sizes /\ Mult(b, t) /\ b <= a /\ a < b + t
      /\ b + t <= f.size /\ z[a] <= t
  BY SizeIs DEF Block
<1>3. DOMAIN y = {o \in DOMAIN z : o < b \/ o >= b + t} \cup {b} /\ y[b] = t
  BY <1>1
<1>4. \A o \in DOMAIN z : o < b \/ o >= b + t => y[o] = z[o] /\ o # b
  <2>1. \A o \in DOMAIN z : o < b \/ o >= b + t => o # b
    BY <1>2
  <2> QED BY <1>1, <2>1
<1>5. Merged(z, b, t, y)
  BY <1>3, <1>4 DEF Merged
<1>6. PICK n : n = f.size
  OBVIOUS
<1>7. n \in Nat /\ Tiles(n, z)
  BY <1>6, DividedSize DEF Divided
<1>8. Tiles(n, y) /\ \A o \in DOMAIN z : o < b => o + z[o] <= b
  BY <1>2, <1>3, <1>4, <1>6, <1>7, TilesJoin
<1> QED BY <1>5, <1>6, <1>8

\* After the header of the block has been written the file is divided and the
\* object no longer in use.
LEMMA JoinDivided ==
    ASSUME NEW f, NEW z, Tidy(f, z), NEW a \in DOMAIN z, InUse(f.obj[a]), NEW b, NEW t, NEW G,
           Block(f, z, a, b, t, G), b # 0, b = Floor(a, t), ~Joins(f, a, t),
           NEW g, Placed(f, g, b, t)
    PROVE  /\ Gives(f, g, a) /\ Torn(g)
           /\ \E y : /\ Divided(g, y) /\ \A o \in DOMAIN y : g.obj[o].type # "blank"
                     /\ \A o \in Offsets \ DOMAIN y : o < g.size => g.obj[o] = Junk
                     /\ FreeIn(g, y) = (FreeIn(f, z) \ G) \cup {b}
<1>1. Divided(f, z)
  BY DEF Tidy
<1>2. /\ f.size \in Nat /\ f.size <= MaxSize /\ MaxSize \in Nat
      /\ \A h \in DOMAIN z : /\ h \in Nat /\ z[h] \in Sizes /\ z[h] \in Nat /\ h \in Offsets
                             /\ z[h] >= 1 /\ Mult(h, z[h])
  BY <1>1, DividedSize
<1>3. /\ t \in Sizes /\ b \in Nat /\ Mult(b, t) /\ b <= a /\ a < b + t /\ b + t <= f.size
      /\ \A h \in DOMAIN z : b <= h /\ h < b + t => h = a \/ h \in G
      /\ \A h \in G : h \in DOMAIN z /\ f.obj[h].type = "free" /\ b <= h /\ h < b + t
  BY DEF Block
<1>4. t \in Nat /\ t >= 1 /\ t \in Nat \ {0}
  BY <1>3, SizeIs
<1>5. b \in Offsets
  BY <1>2, <1>3, <1>4 DEF Offsets
<1>6. /\ IsFile(g) /\ SameRoot(f, g) /\ g.obj[b].type = "free" /\ g.obj[b].size = t
      /\ \A o \in Offsets : o < b \/ o >= b + t => SameObj(f.obj[o], g.obj[o])
      /\ \A o \in Offsets : b < o /\ o < b + t => g.obj[o] = Junk
  BY DEF Placed
<1>7. PICK y : /\ Merged(z, b, t, y) /\ Tiles(f.size, y)
               /\ \A o \in DOMAIN z : o < b => o + z[o] <= b
  BY <1>1, MergedTiles
<1>8. /\ DOMAIN y = {o \in DOMAIN z : o < b \/ o >= b + t} \cup {b} /\ y[b] = t
      /\ \A o \in DOMAIN z : o < b \/ o >= b + t => y[o] = z[o]
  BY <1>7 DEF Merged
<1>9. ASSUME NEW h \in DOMAIN y, h # b
      PROVE  /\ h \in DOMAIN z /\ (h < b \/ h >= b + t) /\ y[h] = z[h]
             /\ SameObj(f.obj[h], g.obj[h]) /\ f.obj[h].type # "blank"
             /\ f.obj[h].type \in {"free", "data", "meta"} /\ f.obj[h].size = z[h]
  <2>1. h \in DOMAIN z /\ (h < b \/ h >= b + t)
    BY <1>8, <1>9
  <2>2. SameObj(f.obj[h], g.obj[h])
    BY <1>2, <1>6, <2>1
  <2>3. f.obj[h].type # "blank"
    BY <2>1 DEF Tidy
  <2> QED BY <1>1, <1>8, <2>1, <2>2, <2>3 DEF Divided
<1>10. ASSUME NEW o \in Offsets, o \notin DOMAIN y
       PROVE  ~InUse(g.obj[o]) /\ (o < g.size => g.obj[o] = Junk)
  <2>1. CASE b < o /\ o < b + t
    BY <1>6, <2>1 DEF InUse, Junk
  <2>2. CASE ~(b < o /\ o < b + t)
    <3>1. o < b \/ o >= b + t
      BY <1>3, <1>4, <1>8, <1>10, <2>2 DEF Offsets
    <3>2. o \notin DOMAIN z
      BY <1>8, <1>10, <3>1
    <3>3. SameObj(f.obj[o], g.obj[o]) /\ ~InUse(f.obj[o]) /\ (o < f.size => f.obj[o] = Junk)
      BY <1>1, <1>6, <3>1, <3>2 DEF Divided, Tidy
    <3>4. g.size = f.size
      BY <1>6 DEF SameRoot
    <3> QED BY <3>3, <3>4 DEF SameObj, InUse, Junk
  <2> QED BY <2>1, <2>2
<1>11. ASSUME NEW h \in DOMAIN y, NEW o \in Offsets, InUse(g.obj[h]), h < o, o < h + y[h]
       PROVE  g.obj[o] = Junk
  <2>1. h # b
    BY <1>6, <1>11 DEF InUse
  <2>2. h \in DOMAIN z /\ (h < b \/ h >= b + t) /\ y[h] = z[h] /\ SameObj(f.obj[h], g.obj[h])
    BY <1>9, <2>1
  <2>3. InUse(f.obj[h])
    BY <1>11, <2>2 DEF InUse, SameObj
  <2>4. f.obj[o] = Junk
    BY <1>1, <1>11, <2>2, <2>3 DEF Divided
  <2>5. o < b \/ o >= b + t
    BY <1>2, <1>3, <1>4, <1>7, <1>11, <2>2 DEF Offsets
  <2>6. SameObj(f.obj[o], g.obj[o])
    BY <1>6, <2>5
  <2> QED BY <2>4, <2>6 DEF SameObj, Junk
<1>12. ASSUME NEW o \in Offsets, o >= g.size PROVE g.obj[o].type = "blank"
  <2>1. g.size = f.size
    BY <1>6 DEF SameRoot
  <2>2. o >= b + t /\ f.obj[o].type = "blank"
    BY <1>1, <1>2, <1>3, <1>4, <1>12, <2>1 DEF Divided, Offsets
  <2> QED BY <1>6, <2>2 DEF SameObj
<1>13. Sibling(b, t) # b /\ \A h \in Nat : Mult(h, t) /\ b = Sibling(h, t) => h = Sibling(b, t)
  BY <1>3, <1>4, SiblingBack
<1>14. ASSUME NEW h \in DOMAIN y, h # b, Vacant(g.obj[h]), y[h] = t, h = Sibling(b, t)
       PROVE  FALSE
  <2>1. SameObj(f.obj[h], g.obj[h]) /\ f.obj[h].type # "blank" /\ f.obj[h].size = t
    BY <1>9, <1>14
  <2>2. f.obj[h].type = "free"
    BY <1>14, <2>1 DEF SameObj, Vacant
  <2> QED BY <1>14, <2>1, <2>2 DEF Joins
<1>15. ASSUME NEW h \in DOMAIN y, NEW d \in DOMAIN y, Vacant(g.obj[h]), Vacant(g.obj[d]),
              y[h] = y[d], d = Sibling(h, y[h])
       PROVE  FALSE
  <2>1. CASE h = b
    BY <1>8, <1>13, <1>14, <1>15, <2>1
  <2>2. CASE h # b /\ d = b
    <3>1. h \in Nat /\ Mult(h, z[h]) /\ y[h] = z[h] /\ y[h] = t
      BY <1>2, <1>8, <1>9, <1>15, <2>2
    <3>2. Mult(h, t) /\ b = Sibling(h, t)
      BY <1>15, <2>2, <3>1
    <3>3. h = Sibling(b, t)
      BY <1>13, <3>1, <3>2
    <3> QED BY <1>14, <1>15, <2>2, <3>1, <3>3
  <2>3. CASE h # b /\ d # b
    <3>1. h \in DOMAIN z /\ d \in DOMAIN z /\ y[h] = z[h] /\ y[d] = z[d]
          /\ SameObj(f.obj[h], g.obj[h]) /\ SameObj(f.obj[d], g.obj[d])
      BY <1>9, <2>3
    <3>2. Vacant(f.obj[h]) /\ Vacant(f.obj[d])
      BY <1>15, <3>1 DEF Vacant, SameObj
    <3>3. z[h] = z[d] /\ d = Sibling(h, z[h])
      BY <1>15, <3>1
    <3>4. \A e \in DOMAIN z, k \in DOMAIN z :
              Vacant(f.obj[e]) /\ Vacant(f.obj[k]) /\ z[e] = z[k] => k # Sibling(e, z[e])
      BY <1>1 DEF Divided
    <3> QED BY <3>1, <3>2, <3>3, <3>4
  <2> QED BY <2>1, <2>2, <2>3
<1>16. \A h \in DOMAIN y : /\ g.obj[h].type \in {"free", "data", "meta"} /\ g.obj[h].size = y[h]
                           /\ g.obj[h].type # "blank"
  <2>1. \A h \in DOMAIN y : h # b => g.obj[h].type \in {"free", "data", "meta"}
                                     /\ g.obj[h].size = y[h]
    BY <1>9 DEF SameObj
  <2> QED BY <1>6, <1>8, <2>1
<1>17. /\ g.size \in Sizes /\ g.size >= StartSize /\ Tiles(g.size, y)
       /\ 0 \in DOMAIN y /\ y[0] = 1 /\ g.obj[0].type = "meta"
  <2>1. 0 \in DOMAIN z /\ z[0] = 1 /\ f.obj[0].type = "meta" /\ f.size \in Sizes
        /\ f.size >= StartSize
    BY <1>1 DEF Divided
  <2>2. 0 < b
    BY <1>3
  <2>3. 0 \in DOMAIN y
    BY <1>8, <2>1, <2>2
  <2>4. SameObj(f.obj[0], g.obj[0]) /\ y[0] = z[0]
    BY <1>9, <2>2, <2>3
  <2> QED BY <1>6, <1>7, <2>1, <2>3, <2>4 DEF SameObj, SameRoot
<1>18. Divided(g, y)
  BY <1>6, <1>10, <1>11, <1>12, <1>15, <1>16, <1>17 DEF Divided
<1>19. FreeIn(g, y) = (FreeIn(f, z) \ G) \cup {b}
  <2>1. \A h : h \in DOMAIN y /\ h # b <=> h \in DOMAIN z /\ (h < b \/ h >= b + t)
    BY <1>3, <1>4, <1>8
  <2>2. \A h \in DOMAIN y : h # b => (g.obj[h].type = "free" <=> f.obj[h].type = "free")
    BY <1>9 DEF SameObj
  <2>3. \A h \in DOMAIN z : f.obj[h].type = "free" => (h \in G <=> ~(h < b \/ h >= b + t))
    <3>1. f.obj[a].type # "free"
      BY DEF InUse
    <3> QED BY <1>2, <1>3, <1>4, <3>1
  <2> QED BY <1>6, <1>8, <2>1, <2>2, <2>3 DEF FreeIn
<1>20. Gives(f, g, a)
  <2>1. ASSUME NEW o \in Offsets, o < b \/ o >= b + t, InUse(f.obj[o]) \/ InUse(g.obj[o])
        PROVE  g.obj[o] = f.obj[o]
    <3>1. SameObj(f.obj[o], g.obj[o])
      BY <1>6, <2>1
    <3> QED BY <2>1, <3>1 DEF SameObj, InUse
  <2>2. ASSUME NEW o \in Offsets, ~(o < b \/ o >= b + t) PROVE ~InUse(g.obj[o])
    <3>1. o = b \/ (b < o /\ o < b + t)
      BY <1>3, <1>4, <2>2 DEF Offsets
    <3> QED BY <1>6, <3>1 DEF InUse, Junk
  <2>3. ASSUME NEW o \in Offsets, ~(o < b \/ o >= b + t), o # a PROVE ~InUse(f.obj[o])
    <3>1. CASE o \in DOMAIN z
      <4>1. o \in G
        BY <1>2, <1>3, <1>4, <2>3, <3>1
      <4> QED BY <1>3, <4>1 DEF InUse
    <3>2. CASE o \notin DOMAIN z
      BY <1>1, <3>2 DEF Divided
    <3> QED BY <3>1, <3>2
  <2>4. SameHead(f, g)
    BY <1>6 DEF SameRoot, SameHead
  <2>5. ~InUse(g.obj[a])
    BY <1>2, <1>3, <1>4, <2>2
  <2> QED BY <2>1, <2>2, <2>3, <2>4, <2>5 DEF Gives
<1> QED BY <1>10, <1>16, <1>18, <1>19, <1>20 DEF Torn

\* dealloc(): from a whole file to a whole one without the object, and at every
\* write the file is torn at worst, with all it held or with all but the
\* object.
LEMMA DeallocIs ==
    ASSUME NEW r, Whole(r.file), NEW a \in Offsets, a # 0, InUse(r.file.obj[a]),
           NEW q, q = Dealloc(r, a)
    PROVE  /\ Whole(q.file) /\ Gives(r.file, q.file, a)
           /\ \A g \in q.past : \/ g \in r.past \/ Kin(r.file, g)
                                \/ Gives(r.file, g, a) /\ Torn(g)
           /\ \A g \in q.past : g \in r.past \/ g.size = q.file.size
           /\ q.file.size = r.file.size /\ q.file \in q.past
<1> DEFINE f == r.file
<1>1. PICK z : Tidy(f, z)
  BY DEF Whole
<1>2. Divided(f, z) /\ Linked(f, FreeIn(f, z)) /\ f.free[MaxSize] = End
  BY <1>1 DEF Tidy
<1>3. a \in DOMAIN z
  BY <1>2 DEF Divided
<1>4. PICK s, t, F, b, G, w : /\ s = z[a] /\ t = JoinedSize(f, a) /\ F = FreeIn(f, z)
                              /\ b = Floor(a, t) /\ G = Gone(a, s, t)
                              /\ w = UnlinkSiblings(r, a, s, t)
  OBVIOUS
<1>5. /\ f.obj[a].size = s /\ s \in Sizes /\ t \in Sizes /\ s <= t /\ t < f.size
      /\ ~Joins(f, a, t) /\ \A u \in Sizes : s <= u /\ u < t => Joins(f, a, u)
  BY <1>1, <1>3, <1>4, JoinedIs
<1>6. /\ f.size \in Nat /\ f.size <= MaxSize /\ MaxSize \in Nat /\ t \in Nat /\ t >= 1
      /\ t # MaxSize /\ t <= f.size /\ \A h \in DOMAIN z : h \in Nat
  BY <1>2, <1>5, DividedSize, SizeIs
<1>7. q = PushFree(w, b, t)
  BY <1>4, <1>5 DEF Dealloc
<1>8. Block(f, z, a, b, t, G)
  BY <1>1, <1>3, <1>4, <1>5, <1>6, BlockAt
<1>9. /\ Linked(w.file, F \ G) /\ Alike(f, w.file)
      /\ \A g \in w.past : g \in r.past \/ Alike(f, g)
  BY <1>1, <1>3, <1>4, <1>5, <1>6, SiblingsGone
<1>10. b # 0
  <2>1. ASSUME b = 0 PROVE FALSE
    <3>1. 0 \in DOMAIN z /\ f.obj[0].type = "meta"
      BY <1>2 DEF Divided
    <3>2. b <= 0 /\ 0 < b + t
      BY <1>6, <2>1
    <3>3. 0 = a \/ 0 \in G
      BY <1>8, <3>1, <3>2 DEF Block
    <3> QED BY <1>8, <3>1, <3>3 DEF Block
  <2> QED BY <2>1
<1>11. b \in Offsets
  BY <1>6, <1>8 DEF Block, Offsets
<1>12. \A o \in F \ G : o < b \/ o >= b + t
  <2>1. ASSUME NEW o \in F \ G PROVE o < b \/ o >= b + t
    <3>1. o \in DOMAIN z /\ o # a
      BY <1>4 DEF FreeIn, InUse
    <3>2. ~(b <= o /\ o < b + t)
      BY <1>8, <2>1, <3>1 DEF Block
    <3>3. o \in Nat /\ b \in Nat
      BY <1>6, <1>8, <3>1 DEF Block
    <3> QED BY <1>6, <3>2, <3>3
  <2> QED BY <2>1
<1>13. /\ Linked(q.file, (F \ G) \cup {b}) /\ Placed(w.file, q.file, b, t)
       /\ \A g \in q.past : g \in w.past \/ Alike(w.file, g) \/ Placed(w.file, g, b, t)
  BY <1>5, <1>6, <1>7, <1>9, <1>10, <1>11, <1>12, PushFreeIs
<1>14. \A g : Placed(w.file, g, b, t) => Placed(f, g, b, t)
  BY <1>9, AlikePlaced
<1>15. ASSUME NEW g, Placed(f, g, b, t)
       PROVE  /\ Gives(f, g, a) /\ Torn(g)
              /\ \E y : /\ Divided(g, y) /\ \A o \in DOMAIN y : g.obj[o].type # "blank"
                        /\ \A o \in Offsets \ DOMAIN y : o < g.size => g.obj[o] = Junk
                        /\ FreeIn(g, y) = (F \ G) \cup {b}
  BY <1>1, <1>3, <1>4, <1>5, <1>8, <1>10, <1>15, JoinDivided
<1>16. Whole(q.file) /\ Gives(f, q.file, a)
  <2>1. Placed(f, q.file, b, t)
    BY <1>13, <1>14
  <2>2. PICK y : /\ Divided(q.file, y) /\ \A o \in DOMAIN y : q.file.obj[o].type # "blank"
                 /\ \A o \in Offsets \ DOMAIN y : o < q.file.size => q.file.obj[o] = Junk
                 /\ FreeIn(q.file, y) = (F \ G) \cup {b}
    BY <1>15, <2>1
  <2>3. Linked(q.file, FreeIn(q.file, y))
    BY <1>13, <2>2
  <2>4. q.file.free[MaxSize] = End
    BY <1>2, <2>1 DEF Placed
  <2>5. Tidy(q.file, y)
    BY <2>2, <2>3, <2>4 DEF Tidy
  <2> QED BY <1>15, <2>1, <2>5 DEF Whole
<1>17. \A g : Alike(f, g) => Kin(f, g)
  BY <1>2, AlikeDivided DEF Kin, Torn, Alike, SameRoot, SameHead
<1>18. \A g : Alike(w.file, g) => Alike(f, g)
  BY <1>9, AlikeTrans
<1>19. \A g \in q.past : g \in r.past \/ Kin(f, g) \/ (Gives(f, g, a) /\ Torn(g))
  BY <1>9, <1>13, <1>14, <1>15, <1>17, <1>18
<1>20. q.file.size = f.size /\ \A g \in q.past : g \in r.past \/ g.size = f.size
  <2>1. \A g : Placed(f, g, b, t) \/ Alike(f, g) => g.size = f.size
    BY DEF Placed, Alike, SameRoot
  <2> QED BY <1>9, <1>13, <1>14, <1>18, <2>1
<1>21. q.file \in q.past
  <2>1. \A u, v : Write(u, v).file \in Write(u, v).past
    BY DEF Write
  <2>2. \A u, p, o : WriteNext(u, p, o).file \in WriteNext(u, p, o).past
    BY <2>1 DEF WriteNext
  <2>3. \E u : q = WriteNext(u, Root(t), b)
    BY <1>7 DEF PushFree
  <2> QED BY <2>2, <2>3
<1> QED BY <1>16, <1>19, <1>20, <1>21
------------------------------------------------------------------------------
(* Writes to what is in use.                                               *)

\* What a whole file is.
LEMMA WholeIs ==
    ASSUME NEW f, Whole(f)
    PROVE  /\ Torn(f) /\ IsFile(f) /\ f.size \in Sizes /\ f.size \in Nat /\ f.size >= 4
           /\ f.size <= MaxSize /\ f.size >= StartSize /\ 0 \in Offsets
           /\ f.obj[0].type = "meta" /\ f.obj[0].size = 1
           /\ \A o \in Offsets : InUse(f.obj[o]) => f.obj[o].size \in Sizes /\ o < f.size
<1>1. PICK z : Tidy(f, z)
  BY DEF Whole
<1>2. Divided(f, z)
  BY <1>1 DEF Tidy
<1>3. f.size \in Nat /\ f.size >= 4 /\ f.size <= MaxSize
      /\ \A a \in DOMAIN z : a \in Offsets /\ z[a] \in Sizes /\ a < f.size
  BY <1>2, DividedSize
<1>4. \A o \in Offsets : InUse(f.obj[o]) => f.obj[o].size \in Sizes /\ o < f.size
  <2>1. ASSUME NEW o \in Offsets, InUse(f.obj[o]) PROVE f.obj[o].size \in Sizes /\ o < f.size
    <3>1. o \in DOMAIN z
      BY <1>2, <2>1 DEF Divided
    <3>2. f.obj[o].size = z[o]
      BY <1>2, <2>1, <3>1 DEF Divided, InUse
    <3> QED BY <1>3, <3>1, <3>2
  <2> QED BY <2>1
<1>5. 0 \in DOMAIN z /\ f.obj[0].type = "meta" /\ f.obj[0].size = 1
  BY <1>2 DEF Divided
<1> QED BY <1>2, <1>3, <1>4, <1>5 DEF Torn, Divided

\* Whether recover() can walk a file depends on its objects alone,
LEMMA TornSame ==
    ASSUME NEW f, Torn(f), NEW g, IsFile(g), g.size = f.size, g.obj = f.obj
    PROVE  Torn(g)
<1>1. PICK z : Divided(f, z)
  BY DEF Torn
<1>2. Divided(g, z)
  BY <1>1 DEF Divided
<1> QED BY <1>2 DEF Torn

\* and whether it is whole on the lists too.
LEMMA WholeSame ==
    ASSUME NEW f, Whole(f), NEW g, IsFile(g), g.size = f.size, g.obj = f.obj, g.free = f.free
    PROVE  Whole(g)
<1>1. PICK z : Tidy(f, z)
  BY DEF Whole
<1>2. Divided(g, z)
  BY <1>1 DEF Tidy, Divided
<1>3. Linked(g, FreeIn(g, z))
  BY <1>1 DEF Tidy, Linked, FreeIn
<1>4. Tidy(g, z)
  BY <1>1, <1>2, <1>3 DEF Tidy
<1> QED BY <1>4 DEF Whole

\* Another object in use, of the same size, where there was one.
LEMMA WholeRewritten ==
    ASSUME NEW f, Whole(f), NEW g, IsFile(g), g.size = f.size, g.free = f.free,
           NEW a \in Offsets, a # 0, InUse(f.obj[a]), InUse(g.obj[a]),
           g.obj[a].size = f.obj[a].size, \A o \in Offsets : o # a => g.obj[o] = f.obj[o]
    PROVE  Whole(g)
<1>1. PICK z : Tidy(f, z)
  BY DEF Whole
<1>2. Divided(f, z)
  BY <1>1 DEF Tidy
<1>3. \A h \in DOMAIN z : h \in Offsets
  BY <1>2, DividedSize
<1>4. a \in DOMAIN z
  BY <1>2 DEF Divided
<1>5. \A o \in Offsets : Vacant(g.obj[o]) <=> Vacant(f.obj[o])
  BY DEF Vacant, InUse
<1>6. \A o \in Offsets : InUse(g.obj[o]) <=> InUse(f.obj[o])
  OBVIOUS
<1>7. \A o \in Offsets : g.obj[o].size = f.obj[o].size
  OBVIOUS
<1>8. \A o \in Offsets : g.obj[o].type \in {"free", "blank", "junk"} =>
                             g.obj[o] = f.obj[o]
  BY DEF InUse
<1>9. \A o \in Offsets : f.obj[o].type \in {"free", "blank", "junk"} =>
                             g.obj[o] = f.obj[o]
  BY DEF InUse
<1>10. Divided(g, z)
  <2>1. 0 \in DOMAIN z /\ z[0] = 1 /\ g.obj[0].type = "meta"
    BY <1>2, <1>3 DEF Divided
  <2>2. ASSUME NEW h \in DOMAIN z
        PROVE  \/ g.obj[h].type \in {"free", "data", "meta"} /\ g.obj[h].size = z[h]
               \/ g.obj[h].type = "blank" /\ 2 * h = g.size /\ z[h] = h
    <3>1. CASE h = a
      BY <1>2, <3>1 DEF Divided, InUse
    <3>2. CASE h # a
      BY <1>2, <1>3, <3>2 DEF Divided
    <3> QED BY <3>1, <3>2
  <2>3. \A o \in Offsets \ DOMAIN z : ~InUse(g.obj[o])
    BY <1>2, <1>6 DEF Divided
  <2>4. ASSUME NEW h \in DOMAIN z, NEW o \in Offsets, InUse(g.obj[h]), h < o, o < h + z[h]
        PROVE  g.obj[o] = Junk
    <3>1. InUse(f.obj[h])
      BY <1>3, <1>6, <2>4
    <3>2. f.obj[o] = Junk
      BY <1>2, <2>4, <3>1 DEF Divided
    <3> QED BY <1>9, <3>2 DEF Junk
  <2>5. \A o \in Offsets : o >= g.size => g.obj[o].type = "blank"
    BY <1>2, <1>9 DEF Divided
  <2>6. \A h \in DOMAIN z, d \in DOMAIN z :
            Vacant(g.obj[h]) /\ Vacant(g.obj[d]) /\ z[h] = z[d] => d # Sibling(h, z[h])
    BY <1>2, <1>3, <1>5 DEF Divided
  <2>7. g.size \in Sizes /\ g.size >= StartSize /\ Tiles(g.size, z)
    BY <1>2 DEF Divided
  <2> QED BY <2>1, <2>2, <2>3, <2>4, <2>5, <2>6, <2>7 DEF Divided
<1>11. FreeIn(g, z) = FreeIn(f, z)
  BY <1>3, <1>8, <1>9 DEF FreeIn
<1>12. Linked(g, FreeIn(g, z))
  <2>1. \A o \in FreeIn(f, z) : g.obj[o] = f.obj[o]
    BY <1>3, <1>9 DEF FreeIn
  <2>2. Lists(f.free, f.obj, FreeIn(f, z))
    BY <1>1 DEF Tidy, Linked
  <2>3. Lists(g.free, g.obj, FreeIn(f, z))
    BY <2>1, <2>2, ListsSame
  <2> QED BY <1>11, <2>3 DEF Linked, FreeIn
<1>13. \A h \in DOMAIN z : g.obj[h].type # "blank"
  BY <1>1, <1>3, <1>8 DEF Tidy
<1>14. \A o \in Offsets \ DOMAIN z : o < g.size => g.obj[o] = Junk
  BY <1>1, <1>9 DEF Tidy, Junk
<1>15. Tidy(g, z)
  BY <1>1, <1>10, <1>12, <1>13, <1>14 DEF Tidy
<1> QED BY <1>15 DEF Whole

\* An object in use may be written anew.
LEMMA UseRewritten ==
    ASSUME NEW r, Whole(r.file), NEW a \in Offsets, a # 0, InUse(r.file.obj[a]),
           NEW x, InUse(x), x.size = r.file.obj[a].size, NEW q, q = WriteObject(r, a, x)
    PROVE  /\ Whole(q.file) /\ SameRoot(r.file, q.file) /\ q.past = r.past \cup {q.file}
           /\ q.file.obj[a] = x /\ \A o \in Offsets : o # a => q.file.obj[o] = r.file.obj[o]
<1> DEFINE f == r.file
<1>1. PICK z : Tidy(f, z)
  BY DEF Whole
<1>2. Divided(f, z) /\ IsFile(f)
  BY <1>1 DEF Tidy, Divided
<1>3. a \in DOMAIN z
  BY <1>2 DEF Divided
<1>4. PICK s : s = z[a]
  OBVIOUS
<1>5. s \in Nat /\ x.size = s
  BY <1>2, <1>3, <1>4, DividedSize DEF Divided, InUse
<1>6. /\ IsFile(q.file) /\ SameRoot(f, q.file) /\ q.file.free = f.free
      /\ q.file.obj[a] = x
      /\ \A o \in Offsets : a < o /\ o < a + s => q.file.obj[o] = Junk
      /\ \A o \in Offsets : o # a /\ ~(a < o /\ o < a + s) => q.file.obj[o] = f.obj[o]
      /\ q.past = r.past \cup {q.file}
  BY <1>2, <1>5, WriteSized
<1>7. \A o \in Offsets : a < o /\ o < a + s => f.obj[o] = Junk
  BY <1>2, <1>3, <1>4 DEF Divided
<1>8. \A o \in Offsets : o # a => q.file.obj[o] = f.obj[o]
  BY <1>6, <1>7
<1>9. q.file.size = f.size /\ InUse(q.file.obj[a]) /\ q.file.obj[a].size = f.obj[a].size
  BY <1>6 DEF SameRoot
<1>10. Whole(q.file)
  BY <1>6, <1>8, <1>9, WholeRewritten
<1> QED BY <1>6, <1>8, <1>10
------------------------------------------------------------------------------
(* What the file says of the map.                                          *)

\* The objects that are data.
DataIn(f) == {o \in Offsets : f.obj[o].type = "data"}

\* The hashmap has the objects, each under its key.
Tabled(f) ==
    /\ f.hm \in Offsets \ {0} /\ f.obj[f.hm].type = "meta"
    /\ \A o \in Offsets : f.obj[o].type = "meta" => o \in {0, f.hm}
    /\ Map(f).ptr \in [Keys -> Offsets] /\ Map(f).tombs \in Int
    /\ \A k \in Keys : LET a == Map(f).ptr[k] IN
          a # 0 => f.obj[a].type = "data" /\ f.obj[a].key = k
    /\ \A a \in Offsets : f.obj[a].type = "data" =>
          f.obj[a].key \in Keys /\ Map(f).ptr[f.obj[a].key] = a
    /\ f.entries = Cardinality(DataIn(f)) /\ f.load = f.entries + Map(f).tombs

\* There is a hashmap, and no two objects of a key nor another hashmap, but for
\* the object at e.
Single(f, e) ==
    /\ f.hm \in Offsets \ {0} /\ f.obj[f.hm].type = "meta" /\ f.entries \in Nat
    /\ \A o \in Offsets : f.obj[o].type = "data" => f.obj[o].key \in Keys
    /\ \A o \in Offsets : f.obj[o].type = "meta" => o \in {0, f.hm, e}
    /\ \A a \in Offsets, b \in Offsets :
          /\ f.obj[a].type = "data" /\ f.obj[b].type = "data" /\ f.obj[a].key = f.obj[b].key
          /\ a # e /\ b # e
          => a = b

\* The file between two operations.
Sound(f) == Whole(f) /\ Tabled(f)
\* The file as recover() can mend it: one object may be too many.
Mendable(f) == Torn(f) /\ \E e \in Offsets : Single(f, e)

\* The same objects are data.
SameData(f, g) ==
    \A o \in Offsets : f.obj[o].type = "data" \/ g.obj[o].type = "data" => g.obj[o] = f.obj[o]

\* There are finitely many places.
LEMMA OffsetsFinite ==
    /\ IsFiniteSet(Offsets) /\ 0 \in Offsets /\ Offsets \subseteq Nat
    /\ \A T : T \subseteq Offsets => IsFiniteSet(T) /\ Cardinality(T) \in Nat
<1>1. 0 \in Int /\ MaxSize - 1 \in Int /\ MaxSize \in Nat /\ MaxSize >= 1
  BY SizesOK
<1>2. PICK m : m = MaxSize - 1
  OBVIOUS
<1>3. IsFiniteSet(0..m)
  BY <1>1, <1>2, FS_Interval
<1>4. IsFiniteSet(Offsets)
  BY <1>2, <1>3 DEF Offsets
<1>5. ASSUME NEW T, T \subseteq Offsets PROVE IsFiniteSet(T) /\ Cardinality(T) \in Nat
  <2>1. IsFiniteSet(T)
    BY <1>4, <1>5, FS_Subset
  <2> QED BY <2>1, FS_CardinalityType
<1>6. 0 \in Offsets /\ Offsets \subseteq Nat
  BY <1>1 DEF Offsets
<1> QED BY <1>4, <1>5, <1>6

\* The number of entries is one, and 0 only if there is no data.
LEMMA EntriesIs ==
    ASSUME NEW f, Tabled(f)
    PROVE  f.entries \in Nat /\ (f.entries = 0 => DataIn(f) = {}) /\ IsFiniteSet(DataIn(f))
<1>1. DataIn(f) \subseteq Offsets
  BY DEF DataIn
<1>2. IsFiniteSet(DataIn(f)) /\ Cardinality(DataIn(f)) \in Nat
  BY <1>1, OffsetsFinite
<1>3. f.entries = Cardinality(DataIn(f))
  BY DEF Tabled
<1>4. Cardinality(DataIn(f)) = 0 => DataIn(f) = {}
  BY <1>2, FS_EmptySet
<1> QED BY <1>2, <1>3, <1>4

\* Data are objects in use.
LEMMA UseData ==
    ASSUME NEW f, NEW g, SameUse(f, g)
    PROVE  SameData(f, g)
BY DEF SameUse, SameData, InUse

\* The data may stay twice.
LEMMA SameDataTrans ==
    ASSUME NEW f, NEW g, NEW h, SameData(f, g), SameData(g, h)
    PROVE  SameData(f, h)
BY DEF SameData

\* They are then at the same places.
LEMMA SameDataIn ==
    ASSUME NEW f, NEW g, SameData(f, g)
    PROVE  DataIn(g) = DataIn(f)
BY DEF SameData, DataIn

\* What recover() will find.
Recovered(f) ==
    [k \in Keys |-> LET a == Kept(f, k) IN
                    IF Worthless(f) \/ a = 0 THEN None ELSE f.obj[a].val]

\* The objects of key k.
KeyAt(f, k) == {a \in Offsets : f.obj[a].type = "data" /\ f.obj[a].key = k}

\* Kept is the first object of a key, or 0 if there is none.
LEMMA KeptIs ==
    ASSUME NEW f, NEW k
    PROVE  /\ KeyAt(f, k) = {} => Kept(f, k) = 0
           /\ KeyAt(f, k) # {} => /\ Kept(f, k) \in KeyAt(f, k)
                                  /\ \A b \in KeyAt(f, k) : Kept(f, k) <= b
<1>1. KeyAt(f, k) = {} => Kept(f, k) = 0
  BY DEF Kept, KeyAt
<1>2. ASSUME KeyAt(f, k) # {}
      PROVE  Kept(f, k) \in KeyAt(f, k) /\ \A b \in KeyAt(f, k) : Kept(f, k) <= b
  <2>1. PICK A : A = KeyAt(f, k)
    OBVIOUS
  <2>2. A \in SUBSET Nat /\ A # {}
    BY <1>2, <2>1, OffsetsFinite DEF KeyAt
  <2>3. PICK m \in A : \A b \in A : m <= b
    BY <2>2, LeastOfNat
  <2>4. Kept(f, k) = CHOOSE a \in A : \A b \in A : a <= b
    BY <2>1, <2>2 DEF Kept, KeyAt
  <2>5. Kept(f, k) \in A /\ \A b \in A : Kept(f, k) <= b
    BY <2>3, <2>4
  <2> QED BY <2>1, <2>5
<1> QED BY <1>1, <1>2

\* It is the only one if there is only one.
LEMMA KeptOnly ==
    ASSUME NEW f, NEW k, NEW a, KeyAt(f, k) = {a}
    PROVE  Kept(f, k) = a
BY KeptIs

\* It depends on the data alone.
LEMMA KeptSame ==
    ASSUME NEW f, NEW g, SameData(f, g), NEW k
    PROVE  /\ KeyAt(g, k) = KeyAt(f, k) /\ Kept(g, k) = Kept(f, k)
           /\ \A a \in KeyAt(f, k) : g.obj[a] = f.obj[a]
<1>1. KeyAt(g, k) = KeyAt(f, k)
  BY DEF SameData, KeyAt
<1>2. Kept(g, k) = Kept(f, k)
  <2>1. CASE KeyAt(f, k) = {}
    BY <1>1, <2>1, KeptIs
  <2>2. CASE KeyAt(f, k) # {}
    <3>1. PICK A, p, q : A = KeyAt(f, k) /\ p = Kept(f, k) /\ q = Kept(g, k)
      OBVIOUS
    <3>2. p \in A /\ \A b \in A : p <= b
      BY <2>2, <3>1, KeptIs
    <3>3. q \in A /\ \A b \in A : q <= b
      BY <1>1, <2>2, <3>1, KeptIs
    <3>4. p \in Nat /\ q \in Nat
      BY <3>1, <3>2, <3>3, OffsetsFinite DEF KeyAt
    <3> QED BY <3>1, <3>2, <3>3, <3>4
  <2> QED BY <2>1, <2>2
<1>3. \A a \in KeyAt(f, k) : g.obj[a] = f.obj[a]
  BY DEF SameData, KeyAt
<1> QED BY <1>1, <1>2, <1>3

\* So does the map that recover() will find.
LEMMA RecoveredSame ==
    ASSUME NEW f, NEW g, SameData(f, g), g.entries = f.entries, f.size \in Nat, f.size >= 4,
           g.size \in Nat, g.size >= 4
    PROVE  Recovered(g) = Recovered(f)
<1>1. Worthless(g) <=> Worthless(f)
  BY DEF Worthless
<1>2. ASSUME NEW k \in Keys
      PROVE  /\ Kept(g, k) = Kept(f, k)
             /\ Kept(f, k) # 0 => g.obj[Kept(f, k)] = f.obj[Kept(f, k)]
  <2>1. Kept(f, k) # 0 => Kept(f, k) \in KeyAt(f, k)
    BY KeptIs
  <2> QED BY <2>1, KeptSame
<1>3. \A k \in Keys :
          (IF Worthless(g) \/ Kept(g, k) = 0 THEN None ELSE g.obj[Kept(g, k)].val)
          = (IF Worthless(f) \/ Kept(f, k) = 0 THEN None ELSE f.obj[Kept(f, k)].val)
  BY <1>1, <1>2
<1> QED BY <1>3 DEF Recovered

\* Of a file that is sound, the same as the hashmap says.
LEMMA SoundKept ==
    ASSUME NEW f, Sound(f), NEW k \in Keys
    PROVE  /\ Kept(f, k) = Map(f).ptr[k]
           /\ Map(f).ptr[k] # 0 => KeyAt(f, k) = {Map(f).ptr[k]}
           /\ Map(f).ptr[k] = 0 => KeyAt(f, k) = {}
<1>1. PICK p : p = Map(f).ptr[k]
  OBVIOUS
<1>2. /\ p \in Offsets /\ (p # 0 => f.obj[p].type = "data" /\ f.obj[p].key = k)
      /\ \A a \in KeyAt(f, k) : a = p /\ f.obj[a].type = "data"
  BY <1>1 DEF Sound, Tabled, KeyAt
<1>3. f.obj[0].type = "meta"
  BY WholeIs DEF Sound
<1>4. p # 0 => KeyAt(f, k) = {p}
  BY <1>2 DEF KeyAt
<1>5. p = 0 => KeyAt(f, k) = {}
  BY <1>2, <1>3
<1> QED BY <1>1, <1>4, <1>5, KeptIs, KeptOnly

\* What is sound can be mended.
LEMMA SoundMendable ==
    ASSUME NEW f, Sound(f)
    PROVE  Mendable(f)
<1>1. Torn(f) /\ 0 \in Offsets
  BY WholeIs DEF Sound
<1>2. Single(f, 0)
  BY EntriesIs DEF Sound, Tabled, Single
<1> QED BY <1>1, <1>2 DEF Mendable
------------------------------------------------------------------------------
(* What changes nothing of what the map holds: rehash_if_needed().         *)

\* What a write of the root's numbers leaves alone.
LEMMA HeadSet ==
    ASSUME NEW f, IsFile(f), NEW b, NEW h, NEW l, NEW e,
           NEW g, g = [size |-> f.size, active |-> b, hm |-> h, load |-> l, entries |-> e,
                       free |-> f.free, obj |-> f.obj]
    PROVE  /\ IsFile(g) /\ g.size = f.size /\ g.active = b /\ g.hm = h /\ g.load = l
           /\ g.entries = e /\ g.free = f.free /\ g.obj = f.obj
BY DEF IsFile

\* recover() finds the same.
Calm(f, g) ==
    Mendable(g) /\ SameData(f, g) /\ g.entries = f.entries /\ g.active = f.active

\* recover() may find the same twice.
LEMMA CalmTrans ==
    ASSUME NEW f, NEW g, NEW h, Calm(f, g), Calm(g, h)
    PROVE  Calm(f, h)
BY SameDataTrans DEF Calm

\* Whether only one object is too many depends on those in use.
LEMMA SingleSame ==
    ASSUME NEW f, NEW e, Single(f, e), NEW g, SameHead(f, g), SameUse(f, g)
    PROVE  Single(g, e)
<1>1. \A o \in Offsets : InUse(f.obj[o]) \/ InUse(g.obj[o]) => g.obj[o] = f.obj[o]
  BY DEF SameUse
<1>2. \A o \in Offsets : g.obj[o].type \in {"data", "meta"} => g.obj[o] = f.obj[o]
  BY <1>1 DEF InUse
<1>3. g.hm = f.hm /\ g.entries = f.entries
  BY DEF SameHead
<1>4. f.hm \in Offsets \ {0} /\ f.obj[f.hm].type = "meta" /\ f.entries \in Nat
  BY DEF Single
<1>5. g.obj[f.hm] = f.obj[f.hm]
  BY <1>1, <1>4 DEF InUse
<1> QED BY <1>2, <1>3, <1>4, <1>5 DEF Single

\* While the objects in use stay, recover() finds the same.
LEMMA KinCalm ==
    ASSUME NEW f, Mendable(f), NEW g, Kin(f, g)
    PROVE  Calm(f, g)
<1>1. PICK e \in Offsets : Single(f, e)
  BY DEF Mendable
<1>2. Single(g, e)
  BY <1>1, SingleSame DEF Kin
<1>3. SameData(f, g)
  BY UseData DEF Kin
<1> QED BY <1>2, <1>3 DEF Calm, Mendable, Kin, SameHead

\* There is another hashmap at a.
Twin(f, g, a) ==
    /\ SameData(f, g) /\ g.entries = f.entries /\ g.active = f.active
    /\ {a, f.hm} \subseteq Offsets \ {0} /\ g.hm \in {f.hm, a} /\ g.obj[g.hm].type = "meta"
    /\ \A o \in Offsets : g.obj[o].type = "meta" => o \in {0, f.hm, a}

\* So it does while there is a second hashmap.
LEMMA TwinCalm ==
    ASSUME NEW f, Sound(f), NEW g, NEW a, Twin(f, g, a), Torn(g)
    PROVE  Calm(f, g)
<1>1. f.hm \in Offsets /\ f.hm # 0 /\ f.entries \in Nat
  BY EntriesIs DEF Sound, Tabled
<1>2. \A b, c \in Offsets :
          f.obj[b].type = "data" /\ f.obj[c].type = "data" /\ f.obj[b].key = f.obj[c].key => b = c
  BY DEF Sound, Tabled
<1>3. \A o \in Offsets : f.obj[o].type = "data" => f.obj[o].key \in Keys
  BY DEF Sound, Tabled
<1>4. \A o \in Offsets : g.obj[o].type = "data" => f.obj[o].type = "data" /\ g.obj[o] = f.obj[o]
  BY DEF Twin, SameData
<1>5. /\ \A o \in Offsets : g.obj[o].type = "data" => g.obj[o].key \in Keys
      /\ \A b \in Offsets, c \in Offsets :
             g.obj[b].type = "data" /\ g.obj[c].type = "data" /\ g.obj[b].key = g.obj[c].key
             => b = c
  BY <1>2, <1>3, <1>4
<1>6. CASE g.hm = a
  <2>1. Single(g, f.hm)
    BY <1>1, <1>5, <1>6 DEF Twin, Single
  <2> QED BY <1>1, <2>1 DEF Calm, Mendable, Twin
<1>7. CASE g.hm = f.hm
  <2>1. Single(g, a)
    BY <1>1, <1>5, <1>7 DEF Twin, Single
  <2> QED BY <1>1, <2>1 DEF Calm, Mendable, Twin
<1> QED BY <1>6, <1>7 DEF Twin

\* A hashmap that says the same.
LEMMA Retabled ==
    ASSUME NEW f, Tabled(f), NEW g, SameData(f, g), g.entries = f.entries,
           g.hm \in Offsets, g.hm # 0, g.obj[g.hm].type = "meta",
           \A o \in Offsets : g.obj[o].type = "meta" => o \in {0, g.hm},
           Map(g).ptr = Map(f).ptr, Map(g).tombs \in Int, g.load = g.entries + Map(g).tombs
    PROVE  Tabled(g)
<1>1. DataIn(g) = DataIn(f)
  BY SameDataIn
<1>2. \A o \in Offsets : f.obj[o].type = "data" \/ g.obj[o].type = "data" => g.obj[o] = f.obj[o]
  BY DEF SameData
<1>3. PICK p : p = Map(f).ptr
  OBVIOUS
<1>4. /\ p \in [Keys -> Offsets]
      /\ \A k \in Keys : p[k] # 0 => f.obj[p[k]].type = "data" /\ f.obj[p[k]].key = k
      /\ \A a \in Offsets : f.obj[a].type = "data" =>
             f.obj[a].key \in Keys /\ p[f.obj[a].key] = a
      /\ f.entries = Cardinality(DataIn(f))
  BY <1>3 DEF Tabled
<1>5. \A k \in Keys : p[k] # 0 => g.obj[p[k]].type = "data" /\ g.obj[p[k]].key = k
  BY <1>2, <1>4
<1>6. \A a \in Offsets : g.obj[a].type = "data" => g.obj[a].key \in Keys /\ p[g.obj[a].key] = a
  BY <1>2, <1>4
<1>7. Map(g).ptr = p
  BY <1>3
<1> QED BY <1>1, <1>4, <1>5, <1>6, <1>7 DEF Tabled

\* r, and then the run q says the same of the map.
Rearranged(r, q) ==
    /\ Sound(q.file) /\ SameData(r.file, q.file) /\ q.file.entries = r.file.entries
    /\ q.file.active = r.file.active /\ q.file \in q.past /\ r.file.size <= q.file.size
    /\ \A g \in q.past : g \in r.past \/ (Calm(r.file, g) /\ g.size <= q.file.size)

\* Where the hashmap of a sound file is.
LEMMA MapIs ==
    ASSUME NEW f, Sound(f)
    PROVE  /\ f.hm \in Offsets /\ f.hm # 0 /\ Map(f).type = "meta" /\ InUse(Map(f))
           /\ Map(f) = f.obj[f.hm]
           /\ Map(f).size \in Sizes /\ 2 * Map(f).size \in Sizes /\ 2 * Map(f).size <= f.size
<1>1. PICK z : Tidy(f, z)
  BY DEF Sound, Whole
<1>2. Divided(f, z)
  BY <1>1 DEF Tidy
<1>3. f.hm \in Offsets /\ f.hm # 0 /\ Map(f).type = "meta" /\ Map(f) = f.obj[f.hm]
  BY DEF Sound, Tabled, Map
<1>4. InUse(Map(f))
  BY <1>3 DEF InUse
<1>5. f.hm \in DOMAIN z
  BY <1>2, <1>3, <1>4 DEF Divided
<1>6. PICK n, h, s : n = f.size /\ h = f.hm /\ s = z[h]
  OBVIOUS
<1>7. /\ n \in Nat /\ h \in Nat /\ h + s <= n /\ s \in Sizes /\ s \in Nat /\ s >= 1
      /\ Mult(h, s) /\ s \in Nat \ {0}
  BY <1>2, <1>5, <1>6, DividedSize
<1>8. Map(f).size = s
  BY <1>2, <1>3, <1>5, <1>6 DEF Divided
<1>9. s <= h
  <2>1. Mult(0, s)
    BY <1>7, MultSelf
  <2>2. 0 + s <= h
    BY <1>3, <1>6, <1>7, <2>1, MultApart
  <2> QED BY <1>7, <2>2
<1>10. s < n /\ n \in Sizes
  BY <1>2, <1>3, <1>6, <1>7, <1>9 DEF Divided
<1>11. 2 * s \in Sizes /\ 2 * s <= n
  BY <1>7, <1>10, SizesDouble
<1> QED BY <1>3, <1>4, <1>6, <1>7, <1>8, <1>11

\* A hashmap cleaned of tombstones says the same.
LEMMA CleanedIs ==
    ASSUME NEW r, Sound(r.file), r.file \in r.past, NEW q, q = Cleaned(r)
    PROVE  Rearranged(r, q)
<1> DEFINE f == r.file
<1>1. PICK h, x, w : /\ h = f.hm /\ x = Hashmap(Map(f).size, Map(f).ptr, 0)
                     /\ w = WriteObject(r, h, x)
  OBVIOUS
<1>2. /\ h \in Offsets /\ h # 0 /\ Map(f).type = "meta" /\ InUse(f.obj[h])
      /\ x.size = f.obj[h].size /\ x.type = "meta" /\ InUse(x) /\ f.obj[h].type = "meta"
      /\ x.ptr = Map(f).ptr /\ x.tombs = 0
  BY <1>1, MapIs DEF Hashmap, InUse
<1>3. /\ Whole(w.file) /\ SameRoot(f, w.file) /\ w.past = r.past \cup {w.file}
      /\ w.file.obj[h] = x /\ \A o \in Offsets : o # h => w.file.obj[o] = f.obj[o]
  <2>1. /\ Whole(r.file) /\ h \in Offsets /\ h # 0 /\ InUse(r.file.obj[h])
        /\ InUse(x) /\ x.size = r.file.obj[h].size /\ w = WriteObject(r, h, x)
    BY <1>1, <1>2 DEF Sound
  <2> QED BY ONLY <2>1, UseRewritten
<1>4. SameData(f, w.file)
  BY <1>2, <1>3 DEF SameData
<1>5. /\ w.file.hm = h /\ w.file.active = f.active /\ w.file.entries = f.entries
      /\ w.file.size = f.size
  BY <1>1, <1>3 DEF SameRoot
<1>6. \A o \in Offsets : w.file.obj[o].type = "meta" => o \in {0, h}
  <2>1. \A o \in Offsets : f.obj[o].type = "meta" => o \in {0, h}
    <3>1. Tabled(f) /\ h = f.hm
      BY <1>1 DEF Sound
    <3> QED BY ONLY <3>1 DEF Tabled
  <2>2. \A o \in Offsets : o # h => w.file.obj[o] = f.obj[o]
    BY <1>3
  <2> QED BY ONLY <2>1, <2>2
<1>7. Calm(f, w.file)
  <2>1. Twin(f, w.file, h)
    BY <1>1, <1>2, <1>3, <1>4, <1>5, <1>6 DEF Twin
  <2> QED BY <1>3, <2>1, TwinCalm, WholeIs
<1>8. PICK g : g = [w.file EXCEPT !.load = w.file.entries]
  OBVIOUS
<1>9. q.file = g /\ q.past = w.past \cup {g}
  BY <1>1, <1>8 DEF Cleaned, Write, Map
<1>10. IsFile(w.file)
  BY <1>3, WholeIs
<1>11. g = [size |-> w.file.size, active |-> w.file.active, hm |-> w.file.hm,
            load |-> w.file.entries, entries |-> w.file.entries, free |-> w.file.free,
            obj |-> w.file.obj]
  BY <1>8, <1>10 DEF IsFile
<1>12. /\ IsFile(g) /\ g.size = w.file.size /\ g.active = w.file.active /\ g.hm = w.file.hm
       /\ g.load = w.file.entries /\ g.entries = w.file.entries /\ g.free = w.file.free
       /\ g.obj = w.file.obj
  BY <1>10, <1>11, HeadSet
<1>13. Whole(g)
  BY <1>3, <1>12, WholeSame
<1>14. SameData(f, g)
  BY <1>4, <1>12 DEF SameData
<1>15. Map(g) = x
  BY <1>3, <1>5, <1>12 DEF Map
<1>16. Tabled(g)
  <2>1. g.load = g.entries + Map(g).tombs
    BY <1>2, <1>5, <1>12, <1>15, EntriesIs DEF Sound
  <2>2. \A o \in Offsets : g.obj[o].type = "meta" => o \in {0, g.hm}
    BY <1>5, <1>6, <1>12
  <2>3. g.hm \in Offsets /\ g.hm # 0 /\ g.obj[g.hm].type = "meta" /\ g.entries = f.entries
        /\ Map(g).ptr = Map(f).ptr /\ Map(g).tombs \in Int
    BY <1>2, <1>3, <1>5, <1>12, <1>15
  <2> QED BY <1>14, <2>1, <2>2, <2>3, Retabled DEF Sound
<1>17. Sound(g)
  BY <1>13, <1>16 DEF Sound
<1>18. Calm(f, g)
  BY <1>5, <1>12, <1>14, <1>17, SoundMendable DEF Calm
<1>19. f.size \in Nat
  BY WholeIs DEF Sound
<1> QED BY <1>3, <1>5, <1>7, <1>9, <1>12, <1>14, <1>17, <1>18, <1>19 DEF Rearranged

\* A new hashmap is a second one until the root points to it.
LEMMA TakesHashmap ==
    ASSUME NEW f, Sound(f), NEW g, NEW a, NEW x, Takes(f, g, a, x), x.type = "meta"
    PROVE  Twin(f, g, a) /\ a # f.hm
<1>1. /\ SameHead(f, g) /\ a \in Offsets /\ a # 0 /\ ~InUse(f.obj[a]) /\ g.obj[a] = x
      /\ \A o \in Offsets : o # a /\ (InUse(f.obj[o]) \/ InUse(g.obj[o])) => g.obj[o] = f.obj[o]
  BY DEF Takes
<1>2. f.hm \in Offsets /\ f.hm # 0 /\ InUse(f.obj[f.hm]) /\ f.obj[f.hm].type = "meta" /\ f.hm # a
  BY <1>1, MapIs
<1>3. SameData(f, g)
  <2>1. ~(f.obj[a].type = "data") /\ ~(g.obj[a].type = "data")
    BY <1>1 DEF InUse
  <2>2. \A o \in Offsets : f.obj[o].type = "data" \/ g.obj[o].type = "data" =>
            o # a /\ (InUse(f.obj[o]) \/ InUse(g.obj[o]))
    BY <2>1 DEF InUse
  <2> QED BY <1>1, <2>2 DEF SameData
<1>4. \A o \in Offsets : g.obj[o].type = "meta" => o \in {0, f.hm, a}
  <2>1. \A o \in Offsets : f.obj[o].type = "meta" => o \in {0, f.hm}
    BY DEF Sound, Tabled
  <2>2. \A o \in Offsets : g.obj[o].type = "meta" /\ o # a => g.obj[o] = f.obj[o]
    BY <1>1 DEF InUse
  <2> QED BY <2>1, <2>2
<1>5. g.obj[f.hm] = f.obj[f.hm]
  BY <1>1, <1>2
<1>6. g.hm = f.hm /\ g.entries = f.entries /\ g.active = f.active
  BY <1>1 DEF SameHead
<1> QED BY <1>1, <1>2, <1>3, <1>4, <1>5, <1>6 DEF Twin

\* Which it is as long as the objects in use stay.
LEMMA TwinSame ==
    ASSUME NEW f, NEW g, NEW a, Twin(f, g, a), NEW h, SameHead(g, h), SameUse(g, h)
    PROVE  Twin(f, h, a)
<1>1. \A o \in Offsets : InUse(g.obj[o]) \/ InUse(h.obj[o]) => h.obj[o] = g.obj[o]
  BY DEF SameUse
<1>2. SameData(f, h)
  BY UseData, SameDataTrans DEF Twin
<1>3. h.hm = g.hm /\ h.entries = g.entries /\ h.active = g.active
  BY DEF SameHead
<1>4. ASSUME NEW o \in Offsets, h.obj[o].type = "meta" PROVE o \in {0, f.hm, a}
  <2>1. g.obj[o].type = "meta"
    BY <1>1, <1>4 DEF InUse
  <2> QED BY <2>1 DEF Twin
<1>5. PICK m : m = g.hm
  OBVIOUS
<1>6. m \in {f.hm, a} /\ g.obj[m].type = "meta"
  BY <1>5 DEF Twin
<1>7. h.obj[m].type = "meta"
  <2>1. m \in Offsets
    BY <1>6 DEF Twin
  <2> QED BY <1>1, <1>6, <2>1 DEF InUse
<1> QED BY <1>2, <1>3, <1>4, <1>5, <1>6, <1>7 DEF Twin

\* A hashmap that doubles says the same, at every write of the old and the new
\* one, the root and the old one's dealloc().
LEMMA DoubledIs ==
    ASSUME NEW r, Sound(r.file), r.file \in r.past, r.file.size < MaxSize,
           NEW q, q = Doubled(r)
    PROVE  Rearranged(r, q)
<1> DEFINE f == r.file
<1>1. PICK h, s, a, x, y, v, u, w, d :
          /\ h = f.hm /\ s = 2 * Map(f).size /\ a = AllocAt(f, s)
          /\ x = Hashmap(s, NoPtrs, 0) /\ y = Hashmap(s, Map(f).ptr, 0)
          /\ v = WriteObject(Alloc(r, s), a, x) /\ u = WriteObject(v, a, y)
          /\ w = [u.file EXCEPT !.hm = a, !.load = f.entries]
          /\ d = Write(u, w)
  OBVIOUS
<1>2. q = Dealloc(d, h)
  BY <1>1 DEF Doubled
<1>3. /\ x.size = s /\ x.type = "meta" /\ InUse(x) /\ y.size = s /\ y.type = "meta" /\ InUse(y)
      /\ y.ptr = Map(f).ptr /\ y.tombs = 0
  BY <1>1 DEF Hashmap, InUse
<1>4. s \in Sizes /\ s <= f.size /\ h \in Offsets /\ h # 0
  BY <1>1, MapIs
<1>5. /\ Whole(v.file) /\ Takes(f, v.file, a, x) /\ v.file \in v.past
      /\ \A g \in v.past : g \in r.past \/ Kin(f, g) \/ g = v.file
      /\ \A g \in v.past : g \in r.past \/ g.size = v.file.size
      /\ f.size <= v.file.size
  <2>1. /\ Whole(r.file) /\ r.file \in r.past /\ r.file.size < MaxSize /\ s \in Sizes
        /\ s <= r.file.size /\ InUse(x) /\ x.size = s /\ f = r.file
        /\ a = AllocAt(r.file, s) /\ v = WriteObject(Alloc(r, s), a, x)
    BY <1>1, <1>3, <1>4 DEF Sound
  <2> QED BY ONLY <2>1, AllocIs
<1>6. Twin(f, v.file, a) /\ a # h
  <2>1. Sound(f) /\ Takes(f, v.file, a, x) /\ x.type = "meta"
    BY <1>3, <1>5
  <2>2. Twin(f, v.file, a) /\ a # f.hm
    BY ONLY <2>1, TakesHashmap
  <2> QED BY <1>1, <2>2
<1>7. /\ v.file.obj[a] = x /\ a \in Offsets /\ a # 0 /\ v.file.obj[h] = f.obj[h] /\ InUse(f.obj[h])
      /\ SameHead(f, v.file)
  BY <1>1, <1>4, <1>5, <1>6, MapIs DEF Takes
<1>8. /\ Whole(u.file) /\ SameRoot(v.file, u.file) /\ u.past = v.past \cup {u.file}
      /\ u.file.obj[a] = y /\ \A o \in Offsets : o # a => u.file.obj[o] = v.file.obj[o]
  <2>1. InUse(v.file.obj[a]) /\ y.size = v.file.obj[a].size
    BY <1>3, <1>7
  <2>2. u = WriteObject(v, a, y)
    BY <1>1
  <2> QED BY <1>3, <1>5, <1>7, <2>1, <2>2, UseRewritten
<1>9. IsFile(u.file) /\ IsFile(v.file)
  BY <1>5, <1>8, WholeIs
<1>10. w = [size |-> u.file.size, active |-> u.file.active, hm |-> a, load |-> f.entries,
            entries |-> u.file.entries, free |-> u.file.free, obj |-> u.file.obj]
  <2>1. w = [u.file EXCEPT !.hm = a, !.load = f.entries]
    BY <1>1
  <2> QED BY <1>9, <2>1 DEF IsFile
<1>11. /\ IsFile(w) /\ w.size = u.file.size /\ w.active = u.file.active /\ w.hm = a
       /\ w.load = f.entries /\ w.entries = u.file.entries /\ w.free = u.file.free
       /\ w.obj = u.file.obj
  BY <1>9, <1>10, HeadSet
<1>12. Whole(w)
  BY <1>8, <1>11, WholeSame
<1>13. /\ u.file.size = v.file.size /\ u.file.active = f.active /\ u.file.hm = h
       /\ u.file.entries = f.entries
  BY <1>1, <1>7, <1>8 DEF SameRoot, SameHead
<1>14. \A o \in Offsets : u.file.obj[o].type = "meta" => o \in {0, h, a}
  <2>1. \A o \in Offsets : v.file.obj[o].type = "meta" => o \in {0, h, a}
    BY <1>1, <1>6 DEF Twin
  <2>2. \A o \in Offsets : o # a => u.file.obj[o] = v.file.obj[o]
    BY <1>8
  <2> QED BY ONLY <2>1, <2>2
<1>15. SameData(f, u.file)
  <2>1. SameData(v.file, u.file)
    BY <1>3, <1>7, <1>8 DEF SameData
  <2> QED BY <1>6, <2>1, SameDataTrans DEF Twin
<1>16. u.file.obj[h].type = "meta"
  <2>1. f.obj[h].type = "meta"
    BY <1>1, MapIs
  <2> QED BY <1>4, <1>6, <1>7, <1>8, <2>1
<1>17. Twin(f, u.file, a)
  BY <1>1, <1>4, <1>7, <1>13, <1>14, <1>15, <1>16 DEF Twin
<1>18. Twin(f, w, a)
  <2>1. SameData(f, w)
    BY <1>11, <1>15 DEF SameData
  <2>2. w.obj[w.hm].type = "meta"
    BY <1>3, <1>8, <1>11
  <2>3. w.entries = f.entries /\ w.active = f.active /\ w.hm \in {f.hm, a}
    BY <1>11, <1>13
  <2>4. \A o \in Offsets : w.obj[o].type = "meta" => o \in {0, f.hm, a}
    BY <1>1, <1>11, <1>14
  <2>5. {a, f.hm} \subseteq Offsets \ {0}
    BY <1>17 DEF Twin
  <2> QED BY <1>7, <2>1, <2>2, <2>3, <2>4, <2>5 DEF Twin
<1>19. InUse(w.obj[h])
  BY <1>11, <1>16 DEF InUse
<1>20. d.file = w /\ d.past = u.past \cup {w}
  BY <1>1 DEF Write
<1>21. /\ Whole(q.file) /\ Gives(w, q.file, h)
       /\ \A g \in q.past : \/ g \in d.past \/ Kin(w, g) \/ (Gives(w, g, h) /\ Torn(g))
       /\ \A g \in q.past : g \in d.past \/ g.size = q.file.size
       /\ q.file.size = w.size /\ q.file \in q.past
  <2>1. Whole(d.file) /\ InUse(d.file.obj[h])
    BY <1>12, <1>19, <1>20
  <2>2. /\ Whole(q.file) /\ Gives(d.file, q.file, h)
        /\ \A g \in q.past : \/ g \in d.past \/ Kin(d.file, g) \/ (Gives(d.file, g, h) /\ Torn(g))
        /\ \A g \in q.past : g \in d.past \/ g.size = q.file.size
        /\ q.file.size = d.file.size /\ q.file \in q.past
    BY <1>2, <1>4, <2>1, DeallocIs
  <2> QED BY <1>20, <2>2
<1>22. ASSUME NEW g, Gives(w, g, h)
       PROVE  Twin(f, g, a) /\ (\A o \in Offsets : g.obj[o].type = "meta" => o \in {0, a})
              /\ g.obj[a] = y /\ g.hm = a /\ g.load = f.entries
  <2>1. /\ SameHead(w, g) /\ ~InUse(g.obj[h])
        /\ \A o \in Offsets : o # h /\ (InUse(w.obj[o]) \/ InUse(g.obj[o])) => g.obj[o] = w.obj[o]
    BY <1>22 DEF Gives
  <2>2. g.obj[a] = y
    BY <1>3, <1>6, <1>7, <1>8, <1>11, <2>1
  <2>3. g.hm = a /\ g.entries = f.entries /\ g.active = f.active /\ g.load = f.entries
    BY <1>11, <1>13, <2>1 DEF SameHead
  <2>4. SameData(f, g)
    <3>1. SameData(w, g)
      <4>1. ~(g.obj[h].type = "data") /\ ~(w.obj[h].type = "data")
        BY <1>11, <1>16, <2>1 DEF InUse
      <4> QED BY <2>1, <4>1 DEF SameData, InUse
    <3> QED BY <1>18, <3>1, SameDataTrans DEF Twin
  <2>5. \A o \in Offsets : g.obj[o].type = "meta" => o \in {0, a}
    <3>1. \A o \in Offsets : g.obj[o].type = "meta" => o # h /\ g.obj[o] = w.obj[o]
      BY <2>1 DEF InUse
    <3> QED BY <1>11, <1>14, <3>1
  <2> QED BY <1>1, <1>3, <1>4, <1>7, <2>2, <2>3, <2>4, <2>5 DEF Twin
<1>23. Sound(q.file)
  <2>1. PICK g : g = q.file
    OBVIOUS
  <2>2. /\ Twin(f, g, a) /\ (\A o \in Offsets : g.obj[o].type = "meta" => o \in {0, a})
        /\ g.obj[a] = y /\ g.hm = a /\ g.load = f.entries
    BY <1>21, <1>22, <2>1
  <2>3. SameData(f, g) /\ g.entries = f.entries /\ Map(g) = y
    BY <2>2 DEF Twin, Map
  <2>4. g.load = g.entries + Map(g).tombs
    BY <1>3, <2>2, <2>3, EntriesIs DEF Sound
  <2>5. Tabled(g)
    <3>1. /\ g.hm \in Offsets /\ g.hm # 0 /\ g.obj[g.hm].type = "meta"
          /\ Map(g).ptr = Map(f).ptr /\ Map(g).tombs \in Int
          /\ \A o \in Offsets : g.obj[o].type = "meta" => o \in {0, g.hm}
      BY <1>3, <1>7, <2>2, <2>3
    <3> QED BY <2>3, <2>4, <3>1, Retabled DEF Sound
  <2> QED BY <1>21, <2>1, <2>5 DEF Sound
<1>24. \A g : Twin(f, g, a) /\ Torn(g) => Calm(f, g)
  BY TwinCalm
<1>25. \A g : Kin(f, g) => Calm(f, g)
  BY SoundMendable, KinCalm
<1>26. Calm(f, v.file) /\ Calm(f, u.file) /\ Calm(f, w)
  BY <1>5, <1>6, <1>8, <1>12, <1>17, <1>18, <1>24, WholeIs
<1>27. \A g : Kin(w, g) => Calm(f, g)
  <2>1. ASSUME NEW g, Kin(w, g) PROVE Calm(f, g)
    <3>1. Twin(f, g, a) /\ Torn(g)
      BY <1>18, <2>1, TwinSame DEF Kin
    <3> QED BY <1>24, <3>1
  <2> QED BY <2>1
<1>28. \A g \in q.past : g \in r.past \/ Calm(f, g)
  BY <1>5, <1>8, <1>20, <1>21, <1>22, <1>24, <1>25, <1>26, <1>27
<1>29. f.size \in Nat /\ q.file.size \in Nat /\ q.file.size = v.file.size
  BY <1>5, <1>11, <1>13, <1>21, WholeIs DEF Sound
<1>30. \A g \in q.past : g \in r.past \/ g.size <= q.file.size
  BY <1>5, <1>8, <1>11, <1>13, <1>20, <1>21, <1>29
<1>31. /\ SameData(f, q.file) /\ q.file.entries = f.entries /\ q.file.active = f.active
  BY <1>21, <1>22 DEF Twin
<1> QED BY <1>5, <1>21, <1>23, <1>28, <1>29, <1>30, <1>31 DEF Rearranged

\* rehash_if_needed() changes nothing of the map, wherever it ends.
LEMMA RehashIs ==
    ASSUME NEW r, Sound(r.file), r.file \in r.past, r.file.size < MaxSize,
           NEW q, q = Rehash(r)
    PROVE  Rearranged(r, q)
<1>1. CASE q = r
  <2>1. r.file.size <= r.file.size
    BY WholeIs DEF Sound
  <2> QED BY <1>1, <2>1 DEF Rearranged, SameData
<1> QED BY <1>1, DoubledIs, CleanedIs DEF Rehash
------------------------------------------------------------------------------
(* What recover() finds after a change to one key.                         *)

\* What a torn file is.
LEMMA TornIs ==
    ASSUME NEW f, Torn(f)
    PROVE  /\ IsFile(f) /\ f.size \in Nat /\ f.size >= 4 /\ f.size \in Sizes
           /\ 0 \in Offsets /\ f.obj[0].type = "meta"
BY DividedSize, OffsetsFinite DEF Torn, Divided

\* Where recover() finds the same, the map is the same.
LEMMA CalmRecovered ==
    ASSUME NEW f, Mendable(f), NEW g, Calm(f, g)
    PROVE  Recovered(g) = Recovered(f)
BY RecoveredSame, TornIs DEF Calm, Mendable

\* The value that recover() finds for k.
ValueOf(f, k) == IF KeyAt(f, k) = {} THEN None ELSE f.obj[Kept(f, k)].val

\* What the file holds counts.
Counted(f) == Torn(f) /\ (f.entries = 0 => DataIn(f) = {})

\* The map is the value of each key, of a file that counts.
LEMMA RecoveredIs ==
    ASSUME NEW f, Counted(f)
    PROVE  Recovered(f) = [k \in Keys |-> ValueOf(f, k)]
<1>1. f.size \in Nat /\ f.size >= 4 /\ f.obj[0].type = "meta"
  BY TornIs DEF Counted
<1>2. ASSUME NEW k \in Keys
      PROVE  (IF Worthless(f) \/ Kept(f, k) = 0 THEN None ELSE f.obj[Kept(f, k)].val)
             = ValueOf(f, k)
  <2>1. CASE KeyAt(f, k) = {}
    BY <2>1, KeptIs DEF ValueOf
  <2>2. CASE KeyAt(f, k) # {}
    <3>1. Kept(f, k) \in KeyAt(f, k) /\ Kept(f, k) # 0
      BY <1>1, <2>2, KeptIs DEF KeyAt
    <3>2. f.entries # 0
      BY <2>2 DEF KeyAt, DataIn, Counted
    <3>3. ~Worthless(f)
      BY <1>1, <3>2 DEF Worthless
    <3> QED BY <2>2, <3>1, <3>3 DEF ValueOf
  <2> QED BY <2>1, <2>2
<1> QED BY <1>2 DEF Recovered

\* A file whose values differ at k has the map with that value.
LEMMA RecoveredWith ==
    ASSUME NEW f, Counted(f), NEW g, Counted(g), NEW k \in Keys, NEW v,
           \A j \in Keys : j # k => ValueOf(g, j) = ValueOf(f, j), ValueOf(g, k) = v
    PROVE  Recovered(g) = [Recovered(f) EXCEPT ![k] = v]
<1>1. Recovered(f) = [j \in Keys |-> ValueOf(f, j)] /\ Recovered(g) = [j \in Keys |-> ValueOf(g, j)]
  BY RecoveredIs
<1> QED BY <1>1

\* Files without entries have the same map.
LEMMA RecoveredNothing ==
    ASSUME NEW f, NEW g, f.entries = 0, g.entries = 0
    PROVE  Recovered(g) = Recovered(f)
BY DEF Recovered, Worthless

\* All is the same but at a.
But(f, g, a) ==
    \A o \in Offsets : o # a /\ (f.obj[o].type = "data" \/ g.obj[o].type = "data") =>
        g.obj[o] = f.obj[o]

\* If there is data at a it is of key k.
OfKey(f, a, k) == f.obj[a].type = "data" => f.obj[a].key = k

\* Of other keys than those of the objects at a.
LEMMA OtherKeys ==
    ASSUME NEW f, NEW g, NEW a, But(f, g, a), NEW k, OfKey(f, a, k), OfKey(g, a, k)
    PROVE  \A j : j # k => ValueOf(g, j) = ValueOf(f, j)
<1> SUFFICES ASSUME NEW j, j # k PROVE ValueOf(g, j) = ValueOf(f, j)
  OBVIOUS
<1>1. \A o \in Offsets : o \in KeyAt(f, j) \/ o \in KeyAt(g, j) => g.obj[o] = f.obj[o]
  BY DEF But, KeyAt, OfKey
<1>2. KeyAt(g, j) = KeyAt(f, j)
  BY <1>1 DEF KeyAt
<1>3. CASE KeyAt(f, j) = {}
  BY <1>2, <1>3 DEF ValueOf
<1>4. CASE KeyAt(f, j) # {}
  <2>1. PICK A, p, q : A = KeyAt(f, j) /\ p = Kept(f, j) /\ q = Kept(g, j)
    OBVIOUS
  <2>2. p \in A /\ \A b \in A : p <= b
    BY <1>4, <2>1, KeptIs
  <2>3. q \in A /\ \A b \in A : q <= b
    BY <1>2, <1>4, <2>1, KeptIs
  <2>4. A \subseteq Nat /\ A \subseteq Offsets
    BY <2>1, OffsetsFinite DEF KeyAt
  <2>5. p = q
    BY <2>2, <2>3, <2>4
  <2>6. g.obj[p] = f.obj[p]
    BY <1>1, <2>1, <2>2, <2>4
  <2> QED BY <1>2, <1>4, <2>1, <2>5, <2>6 DEF ValueOf
<1> QED BY <1>3, <1>4

\* The value of a key with one object is that object's.
LEMMA ValueOnly ==
    ASSUME NEW f, NEW k, NEW a, KeyAt(f, k) = {a}
    PROVE  ValueOf(f, k) = f.obj[a].val
BY KeptOnly DEF ValueOf

\* That of a key with two is one of theirs.
LEMMA ValueTwo ==
    ASSUME NEW f, NEW k, NEW a, NEW b, KeyAt(f, k) = {a, b}
    PROVE  ValueOf(f, k) \in {f.obj[a].val, f.obj[b].val}
<1>1. Kept(f, k) \in {a, b}
  BY KeptIs
<1> QED BY <1>1 DEF ValueOf

\* In a sound file the hashmap points to the value of each key.
LEMMA SoundValue ==
    ASSUME NEW f, Sound(f), NEW k \in Keys
    PROVE  /\ Counted(f)
           /\ Map(f).ptr[k] = 0 => KeyAt(f, k) = {} /\ ValueOf(f, k) = None
           /\ Map(f).ptr[k] # 0 => /\ KeyAt(f, k) = {Map(f).ptr[k]}
                                   /\ ValueOf(f, k) = f.obj[Map(f).ptr[k]].val
<1>1. Counted(f)
  BY EntriesIs, WholeIs DEF Counted, Sound
<1>2. Map(f).ptr[k] = 0 => KeyAt(f, k) = {}
  BY SoundKept
<1>3. Map(f).ptr[k] # 0 => KeyAt(f, k) = {Map(f).ptr[k]}
  BY SoundKept
<1> QED BY <1>1, <1>2, <1>3, ValueOnly DEF ValueOf

-----------------------------------------------------------------------------
\* On the way from f to the map that has v for key k.
Under(f, g, k, v) ==
    /\ Mendable(g) /\ g.active = f.active
    /\ Recovered(g) \in {Recovered(f), [Recovered(f) EXCEPT ![k] = v]}

\* r, and then the run q makes v the value of k.
Updated(r, q, k, v) ==
    /\ Sound(q.file) /\ q.file.active = r.file.active /\ q.file \in q.past
    /\ Recovered(q.file) = [Recovered(r.file) EXCEPT ![k] = v]
    /\ r.file.size <= q.file.size
    /\ \A g \in q.past : g \in r.past \/ (Under(r.file, g, k, v) /\ g.size <= q.file.size)

\* What holds the same as a file on the way is on the way.
LEMMA UnderKin ==
    ASSUME NEW f, NEW g, NEW k, NEW v, Under(f, g, k, v), NEW h, Kin(g, h)
    PROVE  Under(f, h, k, v)
<1>1. Mendable(g)
  BY DEF Under
<1>2. Calm(g, h)
  BY <1>1, KinCalm
<1>3. Recovered(h) = Recovered(g)
  BY <1>1, <1>2, CalmRecovered
<1> QED BY <1>2, <1>3 DEF Under, Calm

\* So is the file itself, and what holds the same.
LEMMA UnderSelf ==
    ASSUME NEW f, Sound(f), NEW k, NEW v
    PROVE  Under(f, f, k, v) /\ \A g : Kin(f, g) => Under(f, g, k, v)
<1>1. Under(f, f, k, v)
  BY SoundMendable DEF Under
<1> QED BY <1>1, UnderKin

\* Objects elsewhere keep their keys.
LEMMA KeyIn ==
    ASSUME NEW f, NEW g, NEW a, But(f, g, a), NEW k
    PROVE  \A o : o # a => (o \in KeyAt(g, k) <=> o \in KeyAt(f, k))
BY DEF But, KeyAt

\* An object written in place.
LEMMA InPlace ==
    ASSUME NEW r, Sound(r.file), NEW k \in Keys, NEW v, NEW old, old = Map(r.file).ptr[k],
           old # 0, r.file.obj[old].size = 1, NEW q, q = WriteObject(r, old, DataObj(1, k, v))
    PROVE  Updated(r, q, k, v)
<1> DEFINE f == r.file
<1>1. PICK x : x = DataObj(1, k, v)
  OBVIOUS
<1>2. x.type = "data" /\ x.key = k /\ x.val = v /\ x.size = 1 /\ InUse(x)
  BY <1>1 DEF DataObj, InUse
<1>3. /\ old \in Offsets /\ f.obj[old].type = "data" /\ f.obj[old].key = k /\ InUse(f.obj[old])
      /\ Whole(f)
  BY DEF Sound, Tabled, InUse
<1>4. /\ Whole(q.file) /\ SameRoot(r.file, q.file) /\ q.past = r.past \cup {q.file}
      /\ q.file.obj[old] = x /\ \A o \in Offsets : o # old => q.file.obj[o] = r.file.obj[o]
  <2>1. /\ Whole(r.file) /\ old \in Offsets /\ old # 0 /\ InUse(r.file.obj[old])
        /\ InUse(x) /\ x.size = r.file.obj[old].size /\ q = WriteObject(r, old, x)
    BY <1>1, <1>2, <1>3
  <2> QED BY ONLY <2>1, UseRewritten
<1>5. PICK g : g = q.file
  OBVIOUS
<1>6. /\ g.hm = f.hm /\ g.entries = f.entries /\ g.load = f.load /\ g.active = f.active
      /\ g.size = f.size
  BY <1>4, <1>5 DEF SameRoot
<1>7. /\ \A o \in Offsets : g.obj[o].type = f.obj[o].type
      /\ \A o \in Offsets : f.obj[o].type = "data" => g.obj[o].key = f.obj[o].key
      /\ g.obj[old] = x /\ \A o \in Offsets : o # old => g.obj[o] = f.obj[o]
  <2>1. g.obj[old] = x /\ \A o \in Offsets : o # old => g.obj[o] = f.obj[o]
    BY <1>4, <1>5
  <2>2. \A o \in Offsets : g.obj[o].type = f.obj[o].type
    BY <1>2, <1>3, <2>1
  <2>3. \A o \in Offsets : f.obj[o].type = "data" => g.obj[o].key = f.obj[o].key
    BY <1>2, <1>3, <2>1
  <2> QED BY <2>1, <2>2, <2>3
<1>8. Map(g) = Map(f)
  BY <1>3, <1>6, <1>7, MapIs DEF Map
<1>9. Tabled(g)
  <2>1. DataIn(g) = DataIn(f)
    BY <1>7 DEF DataIn
  <2>2. PICK p : p = Map(f).ptr
    OBVIOUS
  <2>3. /\ p \in [Keys -> Offsets]
        /\ \A j \in Keys : p[j] # 0 => f.obj[p[j]].type = "data" /\ f.obj[p[j]].key = j
        /\ \A a \in Offsets : f.obj[a].type = "data" =>
               f.obj[a].key \in Keys /\ p[f.obj[a].key] = a
    BY <2>2 DEF Sound, Tabled
  <2>4. \A j \in Keys : p[j] # 0 => g.obj[p[j]].type = "data" /\ g.obj[p[j]].key = j
    BY <1>7, <2>3
  <2>5. \A a \in Offsets : g.obj[a].type = "data" => g.obj[a].key \in Keys /\ p[g.obj[a].key] = a
    BY <1>7, <2>3
  <2>6. /\ f.hm \in Offsets \ {0} /\ f.obj[f.hm].type = "meta" /\ Map(f).tombs \in Int
        /\ \A o \in Offsets : f.obj[o].type = "meta" => o \in {0, f.hm}
        /\ f.entries = Cardinality(DataIn(f)) /\ f.load = f.entries + Map(f).tombs
    BY DEF Sound, Tabled
  <2>7. /\ g.hm \in Offsets \ {0} /\ g.obj[g.hm].type = "meta"
        /\ \A o \in Offsets : g.obj[o].type = "meta" => o \in {0, g.hm}
    BY <1>6, <1>7, <2>6
  <2>8. Map(g).ptr = p /\ Map(g).tombs \in Int
    BY <1>8, <2>2, <2>6
  <2>9. g.entries = Cardinality(DataIn(g)) /\ g.load = g.entries + Map(g).tombs
    BY <1>6, <1>8, <2>1, <2>6
  <2> QED BY ONLY <2>3, <2>4, <2>5, <2>7, <2>8, <2>9 DEF Tabled
<1>10. Sound(g)
  BY <1>4, <1>5, <1>9 DEF Sound
<1>11. But(f, g, old)
  BY <1>7 DEF But
<1>12. \A j : j # k => ValueOf(g, j) = ValueOf(f, j)
  <2>1. OfKey(f, old, k) /\ OfKey(g, old, k)
    BY <1>2, <1>3, <1>7 DEF OfKey
  <2> QED BY <1>11, <2>1, OtherKeys
<1>13. ValueOf(g, k) = v
  <2>1. KeyAt(g, k) = {old}
    <3>1. Map(g).ptr[k] = old
      BY <1>8
    <3> QED BY <1>10, <3>1, SoundValue
  <2>2. ValueOf(g, k) = g.obj[old].val
    BY <2>1, ValueOnly
  <2> QED BY <1>2, <1>7, <2>2
<1>14. Recovered(g) = [Recovered(f) EXCEPT ![k] = v]
  <2>1. Counted(f) /\ Counted(g)
    BY <1>10, SoundValue
  <2> QED BY <1>12, <1>13, <2>1, RecoveredWith
<1>15. Under(f, g, k, v) /\ f.size <= g.size /\ g.size <= g.size
  <2>1. g.size \in Nat
    BY <1>10, WholeIs DEF Sound
  <2> QED BY <1>6, <1>10, <1>14, <2>1, SoundMendable DEF Under
<1> QED BY <1>4, <1>5, <1>6, <1>10, <1>14, <1>15 DEF Updated
------------------------------------------------------------------------------
(* insert() and remove().                                                  *)

\* What a write of the hashmap leaves alone.
LEMMA MapWritten ==
    ASSUME NEW r, Whole(r.file), NEW h \in Offsets, h # 0, r.file.hm = h, InUse(r.file.obj[h]),
           NEW ptr, NEW tombs, NEW q, q = WriteMap(r, ptr, tombs)
    PROVE  /\ Whole(q.file) /\ SameRoot(r.file, q.file) /\ q.past = r.past \cup {q.file}
           /\ q.file.obj[h].type = "meta" /\ q.file.obj[h].ptr = ptr
           /\ q.file.obj[h].tombs = tombs
           /\ \A o \in Offsets : o # h => q.file.obj[o] = r.file.obj[o]
<1> DEFINE f == r.file
<1>1. PICK x, y : x = Hashmap(f.obj[h].size, ptr, tombs) /\ y = [f.obj EXCEPT ![h] = x]
  OBVIOUS
<1>2. IsFile(f)
  BY WholeIs
<1>3. f.obj = [o \in Offsets |-> f.obj[o]]
  BY <1>2 DEF IsFile
<1>4. y = [o \in Offsets |-> y[o]] /\ y[h] = x /\ \A o \in Offsets : o # h => y[o] = f.obj[o]
  BY <1>1, <1>3
<1>5. q = Write(r, [f EXCEPT !.obj = y])
  BY <1>1 DEF WriteMap
<1>6. q.file = [f EXCEPT !.obj = y] /\ q.past = r.past \cup {q.file}
  BY <1>5 DEF Write
<1>7. IsFile(q.file) /\ SameRoot(f, q.file) /\ q.file.free = f.free /\ q.file.obj = y
  BY <1>2, <1>4, <1>6, SetObj
<1>8. x.type = "meta" /\ x.size = f.obj[h].size /\ x.ptr = ptr /\ x.tombs = tombs /\ InUse(x)
  BY <1>1 DEF Hashmap, InUse
<1>9. /\ q.file.size = f.size /\ InUse(q.file.obj[h]) /\ q.file.obj[h].size = f.obj[h].size
      /\ \A o \in Offsets : o # h => q.file.obj[o] = f.obj[o]
  BY <1>4, <1>7, <1>8 DEF SameRoot
<1>10. Whole(q.file)
  BY <1>7, <1>9, WholeRewritten
<1> QED BY <1>4, <1>6, <1>7, <1>8, <1>10

\* The same hashmap, and no other.
OneMap(f, g) ==
    /\ g.hm = f.hm /\ g.active = f.active /\ g.entries \in Nat /\ g.obj[g.hm].type = "meta"
    /\ \A o \in Offsets : g.obj[o].type = "meta" => o \in {0, g.hm}

\* The new object, and not yet without the old one.
Adds(f, g, k, a, v) ==
    /\ a \in Offsets /\ a # 0 /\ f.obj[a].type \notin {"data", "meta"} /\ f.obj[a].type # "data"
    /\ But(f, g, a) /\ OneMap(f, g)
    /\ g.obj[a].type = "data" /\ g.obj[a].key = k /\ g.obj[a].val = v

\* The new object, if a is one, and no longer the old one.
Changes(f, g, k, a, v) ==
    /\ a \in Offsets /\ f.obj[a].type # "data" /\ OneMap(f, g)
    /\ g.obj[Map(f).ptr[k]].type # "data"
    /\ a # 0 => g.obj[a].type = "data" /\ g.obj[a].key = k /\ g.obj[a].val = v
    /\ a = 0 => g.obj[0].type # "data" /\ v = None
    /\ \A o \in Offsets :
           o # a /\ o # Map(f).ptr[k] /\ (f.obj[o].type = "data" \/ g.obj[o].type = "data") =>
               g.obj[o] = f.obj[o]

\* What a hashmap that is sound says of the objects.
LEMMA SoundData ==
    ASSUME NEW f, Sound(f)
    PROVE  /\ \A o \in Offsets : f.obj[o].type = "data" => f.obj[o].key \in Keys
           /\ \A b \in Offsets, c \in Offsets :
                  f.obj[b].type = "data" /\ f.obj[c].type = "data" /\ f.obj[b].key = f.obj[c].key
                  => b = c
           /\ f.hm \in Offsets /\ f.hm # 0 /\ f.entries \in Nat
           /\ \A k \in Keys : Map(f).ptr[k] \in Offsets
BY EntriesIs DEF Sound, Tabled

\* The new object next to the old one is the one object too many.
LEMMA AddsMendable ==
    ASSUME NEW f, Sound(f), NEW g, NEW k \in Keys, NEW a, NEW v, Adds(f, g, k, a, v), Torn(g)
    PROVE  Mendable(g)
<1>1. \A o \in Offsets : o # a /\ g.obj[o].type = "data" =>
          f.obj[o].type = "data" /\ g.obj[o] = f.obj[o]
  BY DEF Adds, But
<1>2. \A o \in Offsets : g.obj[o].type = "data" => g.obj[o].key \in Keys
  BY <1>1, SoundData DEF Adds
<1>3. \A b \in Offsets, c \in Offsets :
          /\ g.obj[b].type = "data" /\ g.obj[c].type = "data" /\ g.obj[b].key = g.obj[c].key
          /\ b # a /\ c # a
          => b = c
  BY <1>1, SoundData
<1>4. a \in Offsets /\ g.hm \in Offsets \ {0} /\ OneMap(f, g)
  BY SoundData DEF Adds, OneMap
<1>5. Single(g, a)
  BY <1>2, <1>3, <1>4 DEF Single, OneMap
<1> QED BY <1>4, <1>5 DEF Mendable

\* Until the old one is given back, recover() finds one of the two.
LEMMA AddsUnder ==
    ASSUME NEW f, Sound(f), NEW g, NEW k \in Keys, NEW a, NEW v, Adds(f, g, k, a, v), Torn(g),
           g.entries = f.entries
    PROVE  Under(f, g, k, v)
<1>1. Mendable(g) /\ g.active = f.active
  BY AddsMendable DEF Adds, OneMap
<1>2. CASE f.entries = 0
  <2>1. Recovered(g) = Recovered(f)
    BY <1>2, RecoveredNothing
  <2> QED BY <1>1, <2>1 DEF Under
<1>3. CASE f.entries # 0
  <2>1. Counted(f) /\ Counted(g)
    BY <1>3, WholeIs DEF Counted, Sound
  <2>2. /\ a \in Offsets /\ a # 0 /\ f.obj[a].type # "data" /\ But(f, g, a)
        /\ g.obj[a].type = "data" /\ g.obj[a].key = k /\ g.obj[a].val = v
    BY DEF Adds
  <2>3. \A j : j # k => ValueOf(g, j) = ValueOf(f, j)
    <3>1. OfKey(f, a, k) /\ OfKey(g, a, k)
      BY <2>2 DEF OfKey
    <3> QED BY <2>2, <3>1, OtherKeys
  <2>4. KeyAt(g, k) = KeyAt(f, k) \cup {a}
    <3>1. \A o : o # a => (o \in KeyAt(g, k) <=> o \in KeyAt(f, k))
      BY <2>2, KeyIn
    <3>2. a \in KeyAt(g, k)
      BY <2>2 DEF KeyAt
    <3> QED BY <3>1, <3>2
  <2>5. PICK old : old = Map(f).ptr[k]
    OBVIOUS
  <2>6. CASE old = 0
    <3>1. KeyAt(g, k) = {a}
      BY <2>4, <2>5, <2>6, SoundValue
    <3>2. ValueOf(g, k) = g.obj[a].val
      BY <3>1, ValueOnly
    <3>3. Recovered(g) = [Recovered(f) EXCEPT ![k] = v]
      BY <2>1, <2>2, <2>3, <3>2, RecoveredWith
    <3> QED BY <1>1, <3>3 DEF Under
  <2>7. CASE old # 0
    <3>1. KeyAt(f, k) = {old} /\ ValueOf(f, k) = f.obj[old].val
      BY <2>5, <2>7, SoundValue
    <3>2. KeyAt(g, k) = {old, a}
      BY <2>4, <3>1
    <3>3. ValueOf(g, k) \in {g.obj[old].val, g.obj[a].val}
      BY <3>2, ValueTwo
    <3>4. old \in Offsets /\ f.obj[old].type = "data"
      BY <3>1 DEF KeyAt
    <3>5. g.obj[old] = f.obj[old]
      BY <2>2, <3>4 DEF But
    <3>6. PICK w : w = ValueOf(g, k)
      OBVIOUS
    <3>7. w \in {ValueOf(f, k), v}
      BY <2>2, <3>1, <3>3, <3>5, <3>6
    <3>8. Recovered(g) = [Recovered(f) EXCEPT ![k] = w]
      BY <2>1, <2>3, <3>6, RecoveredWith
    <3>9. Recovered(f) = [Recovered(f) EXCEPT ![k] = ValueOf(f, k)]
      BY <2>1, RecoveredWith
    <3> QED BY <1>1, <3>7, <3>8, <3>9 DEF Under
  <2> QED BY <2>6, <2>7
<1> QED BY <1>2, <1>3

\* After that it finds the new one.
LEMMA ChangesUnder ==
    ASSUME NEW f, Sound(f), NEW g, NEW k \in Keys, NEW a, NEW v, Changes(f, g, k, a, v),
           Counted(g)
    PROVE  /\ Under(f, g, k, v) /\ Recovered(g) = [Recovered(f) EXCEPT ![k] = v]
<1>1. PICK old : old = Map(f).ptr[k]
  OBVIOUS
<1>2. /\ a \in Offsets /\ f.obj[a].type # "data" /\ OneMap(f, g)
      /\ g.obj[old].type # "data"
      /\ a # 0 => g.obj[a].type = "data" /\ g.obj[a].key = k /\ g.obj[a].val = v
      /\ a = 0 => g.obj[0].type # "data" /\ v = None
      /\ \A o \in Offsets :
             o # a /\ o # old /\ (f.obj[o].type = "data" \/ g.obj[o].type = "data") =>
                 g.obj[o] = f.obj[o]
  BY <1>1 DEF Changes
<1>3. \A o \in Offsets : o # a /\ g.obj[o].type = "data" =>
          f.obj[o].type = "data" /\ g.obj[o] = f.obj[o]
  BY <1>2
<1>4. Mendable(g)
  <2>1. \A o \in Offsets : g.obj[o].type = "data" => g.obj[o].key \in Keys
    BY <1>2, <1>3, SoundData
  <2>2. \A b \in Offsets, c \in Offsets :
            /\ g.obj[b].type = "data" /\ g.obj[c].type = "data" /\ g.obj[b].key = g.obj[c].key
            /\ b # a /\ c # a
            => b = c
    BY <1>3, SoundData
  <2>3. g.hm \in Offsets \ {0}
    BY <1>2, SoundData DEF OneMap
  <2>4. Single(g, a)
    BY <1>2, <2>1, <2>2, <2>3 DEF Single, OneMap
  <2> QED BY <1>2, <2>4 DEF Mendable, Counted
<1>5. \A o \in Offsets : f.obj[o].type = "data" /\ f.obj[o].key = k => o = old
  <2>1. \A o \in Offsets : f.obj[o].type = "data" => Map(f).ptr[f.obj[o].key] = o
    BY DEF Sound, Tabled
  <2> QED BY <1>1, <2>1
<1>6. ASSUME NEW j \in Keys, j # k PROVE ValueOf(g, j) = ValueOf(f, j)
  <2>1. \A o : o \in KeyAt(f, j) => o # old /\ o # a
    <3>1. f.obj[old].type = "data" => f.obj[old].key = k
      <4>1. old = 0 => f.obj[old].type = "meta"
        BY WholeIs DEF Sound
      <4>2. old # 0 => f.obj[old].key = k
        BY <1>1 DEF Sound, Tabled
      <4> QED BY <4>1, <4>2
    <3> QED BY <1>2, <1>6, <3>1 DEF KeyAt
  <2>2. \A o : o \in KeyAt(g, j) => o # old /\ o # a
    BY <1>2, <1>6 DEF KeyAt
  <2>3. \A o \in Offsets : o \in KeyAt(f, j) \/ o \in KeyAt(g, j) => g.obj[o] = f.obj[o]
    BY <1>2, <2>1, <2>2 DEF KeyAt
  <2>4. KeyAt(g, j) = KeyAt(f, j)
    BY <2>3 DEF KeyAt
  <2>5. CASE KeyAt(f, j) = {}
    BY <2>4, <2>5 DEF ValueOf
  <2>6. CASE KeyAt(f, j) # {}
    <3>1. PICK A, p, q : A = KeyAt(f, j) /\ p = Kept(f, j) /\ q = Kept(g, j)
      OBVIOUS
    <3>2. p \in A /\ \A b \in A : p <= b
      BY <2>6, <3>1, KeptIs
    <3>3. q \in A /\ \A b \in A : q <= b
      BY <2>4, <2>6, <3>1, KeptIs
    <3>4. A \subseteq Nat /\ A \subseteq Offsets
      BY <3>1, OffsetsFinite DEF KeyAt
    <3>5. p = q
      BY <3>2, <3>3, <3>4
    <3>6. g.obj[p] = f.obj[p]
      BY <2>3, <3>1, <3>2, <3>4
    <3> QED BY <2>4, <2>6, <3>1, <3>5, <3>6 DEF ValueOf
  <2> QED BY <2>5, <2>6
<1>7. ValueOf(g, k) = v
  <2>1. \A o \in Offsets : o # a => o \notin KeyAt(g, k)
    BY <1>2, <1>3, <1>5 DEF KeyAt
  <2>2. CASE a = 0
    <3>1. KeyAt(g, k) = {}
      BY <1>2, <2>1, <2>2 DEF KeyAt
    <3> QED BY <1>2, <2>2, <3>1 DEF ValueOf
  <2>3. CASE a # 0
    <3>1. KeyAt(g, k) = {a}
      BY <1>2, <2>1, <2>3 DEF KeyAt
    <3>2. ValueOf(g, k) = g.obj[a].val
      BY <3>1, ValueOnly
    <3> QED BY <1>2, <2>3, <3>2
  <2> QED BY <2>2, <2>3
<1>8. Recovered(g) = [Recovered(f) EXCEPT ![k] = v]
  BY <1>6, <1>7, SoundValue, RecoveredWith
<1> QED BY <1>2, <1>4, <1>8 DEF Under, OneMap

\* Which data there are after the change.
LEMMA ChangedData ==
    ASSUME NEW f, Sound(f), NEW g, Torn(g), NEW k \in Keys, NEW a, NEW v,
           Changes(f, g, k, a, v), NEW old, old = Map(f).ptr[k]
    PROVE  /\ old # 0 => old \in DataIn(f)
           /\ a # 0 => DataIn(g) = (DataIn(f) \ {old}) \cup {a} /\ a \notin DataIn(f)
           /\ a = 0 => DataIn(g) = DataIn(f) \ {old}
<1>1. /\ a \in Offsets /\ f.obj[a].type # "data" /\ g.obj[old].type # "data"
      /\ a # 0 => g.obj[a].type = "data"
      /\ a = 0 => g.obj[0].type # "data"
      /\ \A o \in Offsets :
             o # a /\ o # old /\ (f.obj[o].type = "data" \/ g.obj[o].type = "data") =>
                 g.obj[o] = f.obj[o]
  BY DEF Changes
<1>2. old # 0 => old \in DataIn(f)
  BY SoundData DEF DataIn, Sound, Tabled
<1>3. a # 0 => a # old
  BY <1>1
<1>4. a # 0 => DataIn(g) = (DataIn(f) \ {old}) \cup {a} /\ a \notin DataIn(f)
  BY <1>1, <1>3 DEF DataIn
<1>5. a = 0 => DataIn(g) = DataIn(f) \ {old}
  BY <1>1 DEF DataIn
<1> QED BY <1>2, <1>4, <1>5

\* How many entries there are after the change.
Recounted(f, g, k, a) ==
    LET old == Map(f).ptr[k] IN
    \/ a # 0 /\ old = 0 /\ g.entries = f.entries + 1
    \/ a # 0 /\ old # 0 /\ g.entries = f.entries
    \/ a = 0 /\ old # 0 /\ g.entries = f.entries - 1

\* How many there are.
LEMMA ChangedCount ==
    ASSUME NEW f, Sound(f), NEW g, Torn(g), NEW k \in Keys, NEW a, NEW v,
           Changes(f, g, k, a, v), Recounted(f, g, k, a)
    PROVE  g.entries = Cardinality(DataIn(g))
<1>1. PICK old, D, n : old = Map(f).ptr[k] /\ D = DataIn(f) /\ n = f.entries
  OBVIOUS
<1>2. /\ old # 0 => old \in D
      /\ a # 0 => DataIn(g) = (D \ {old}) \cup {a} /\ a \notin D
      /\ a = 0 => DataIn(g) = D \ {old}
  BY <1>1, ChangedData
<1>3. IsFiniteSet(D) /\ Cardinality(D) = n /\ n \in Nat
  BY <1>1, EntriesIs DEF Sound, Tabled
<1>4. 0 \notin D
  BY <1>1, WholeIs DEF DataIn, Sound
<1>5. CASE a # 0 /\ old = 0 /\ g.entries = n + 1
  <2>1. DataIn(g) = D \cup {a} /\ a \notin D
    BY <1>2, <1>4, <1>5
  <2> QED BY <1>3, <1>5, <2>1, FS_AddElement
<1>6. CASE old # 0
  <2>1. PICK E : E = D \ {old}
    OBVIOUS
  <2>2. IsFiniteSet(E) /\ Cardinality(E) = n - 1
    BY <1>2, <1>3, <1>6, <2>1, FS_RemoveElement
  <2>3. CASE a # 0 /\ g.entries = n
    <3>1. DataIn(g) = E \cup {a} /\ a \notin E
      BY <1>2, <2>1, <2>3
    <3>2. Cardinality(E \cup {a}) = Cardinality(E) + 1
      BY <2>2, <3>1, FS_AddElement
    <3> QED BY <1>3, <2>2, <2>3, <3>1, <3>2
  <2>4. CASE a = 0 /\ g.entries = n - 1
    BY <1>2, <2>1, <2>2, <2>4
  <2> QED BY <1>1, <1>6, <2>3, <2>4 DEF Recounted
<1> QED BY <1>1, <1>5, <1>6 DEF Recounted

\* The hashmap after the change.
Repointed(f, g, k, a) ==
    /\ Map(g).ptr = [Map(f).ptr EXCEPT ![k] = a]
    /\ Map(g).tombs \in Int /\ g.load = g.entries + Map(g).tombs

\* When entries and slot agree with the change the file is sound and has the
\* new map.
LEMMA ChangesSound ==
    ASSUME NEW f, Sound(f), NEW g, Whole(g), NEW k \in Keys, NEW a, NEW v,
           Changes(f, g, k, a, v), Recounted(f, g, k, a), Repointed(f, g, k, a)
    PROVE  /\ Sound(g) /\ Recovered(g) = [Recovered(f) EXCEPT ![k] = v]
           /\ Under(f, g, k, v) /\ g.active = f.active
<1>1. PICK old, m, p : old = Map(f).ptr[k] /\ m = Map(f).ptr /\ p = Map(g).ptr
  OBVIOUS
<1>2. /\ a \in Offsets /\ f.obj[a].type # "data" /\ OneMap(f, g)
      /\ g.obj[old].type # "data"
      /\ a # 0 => g.obj[a].type = "data" /\ g.obj[a].key = k /\ g.obj[a].val = v
      /\ a = 0 => g.obj[0].type # "data" /\ v = None
      /\ \A o \in Offsets :
             o # a /\ o # old /\ (f.obj[o].type = "data" \/ g.obj[o].type = "data") =>
                 g.obj[o] = f.obj[o]
  BY <1>1 DEF Changes
<1>3. /\ m \in [Keys -> Offsets] /\ old = m[k]
      /\ \A j \in Keys : m[j] # 0 => f.obj[m[j]].type = "data" /\ f.obj[m[j]].key = j
      /\ \A o \in Offsets : f.obj[o].type = "data" =>
             f.obj[o].key \in Keys /\ m[f.obj[o].key] = o
  BY <1>1 DEF Sound, Tabled
<1>4. p \in [Keys -> Offsets] /\ p[k] = a /\ \A j \in Keys : j # k => p[j] = m[j]
  <2>1. p = [m EXCEPT ![k] = a]
    BY <1>1 DEF Repointed
  <2> QED BY <1>2, <1>3, <2>1
<1>5. \A j \in Keys : p[j] # 0 => g.obj[p[j]].type = "data" /\ g.obj[p[j]].key = j
  <2>1. ASSUME NEW j \in Keys, p[j] # 0, j # k
        PROVE  g.obj[p[j]].type = "data" /\ g.obj[p[j]].key = j
    <3>1. PICK o : o = m[j] /\ o = p[j]
      BY <1>4, <2>1
    <3>2. o \in Offsets /\ f.obj[o].type = "data" /\ f.obj[o].key = j
      <4>1. m[j] # 0 /\ m[j] \in Offsets
        BY <1>3, <2>1, <3>1
      <4> QED BY <1>3, <3>1, <4>1
    <3>3. o # old
      <4>1. old = 0 => f.obj[old].type = "meta"
        BY WholeIs DEF Sound
      <4>2. old # 0 => f.obj[old].key = k
        BY <1>3
      <4> QED BY <2>1, <3>2, <4>1, <4>2
    <3>4. o # a
      BY <1>2, <3>2
    <3> QED BY <1>2, <3>1, <3>2, <3>3, <3>4
  <2>2. p[k] # 0 => g.obj[p[k]].type = "data" /\ g.obj[p[k]].key = k
    BY <1>2, <1>4
  <2> QED BY <2>1, <2>2
<1>6. \A o \in Offsets : g.obj[o].type = "data" => g.obj[o].key \in Keys /\ p[g.obj[o].key] = o
  <2>1. ASSUME NEW o \in Offsets, g.obj[o].type = "data"
        PROVE  g.obj[o].key \in Keys /\ p[g.obj[o].key] = o
    <3>1. CASE o = a
      BY <1>2, <1>4, <2>1, <3>1
    <3>2. CASE o # a
      <4>1. o # old
        BY <1>2, <2>1
      <4>2. g.obj[o] = f.obj[o]
        BY <1>2, <2>1, <3>2, <4>1
      <4>3. f.obj[o].key \in Keys /\ m[f.obj[o].key] = o
        BY <1>3, <2>1, <4>2
      <4>4. f.obj[o].key # k
        BY <1>3, <4>1, <4>3
      <4> QED BY <1>4, <4>2, <4>3, <4>4
    <3> QED BY <3>1, <3>2
  <2> QED BY <2>1
<1>7. Torn(g)
  BY WholeIs
<1>8. g.entries = Cardinality(DataIn(g))
  BY <1>7, ChangedCount
<1>9. g.hm \in Offsets \ {0}
  BY <1>2, SoundData DEF OneMap
<1>10. Tabled(g)
  <2>1. Map(g).tombs \in Int /\ g.load = g.entries + Map(g).tombs
    BY DEF Repointed
  <2> QED BY <1>1, <1>2, <1>4, <1>5, <1>6, <1>8, <1>9, <2>1 DEF Tabled, OneMap
<1>11. Sound(g)
  BY <1>10 DEF Sound
<1>12. Counted(g)
  BY <1>7, <1>10, EntriesIs DEF Counted
<1>13. Under(f, g, k, v) /\ Recovered(g) = [Recovered(f) EXCEPT ![k] = v]
  <2>1. Sound(f) /\ Changes(f, g, k, a, v) /\ Counted(g) /\ k \in Keys
    BY <1>12
  <2>2. Under(f, g, k, v)
    BY ONLY <2>1, ChangesUnder
  <2>3. Recovered(g) = [Recovered(f) EXCEPT ![k] = v]
    BY ONLY <2>1, ChangesUnder
  <2> QED BY <2>2, <2>3
<1> QED BY <1>11, <1>13 DEF Under

\* A value's object is no larger than a file.
LEMMA SizeOfIs ==
    ASSUME NEW v, NEW f, Sound(f)
    PROVE  SizeOf(v) \in Sizes /\ SizeOf(v) <= f.size
<1>1. f.size \in Nat /\ f.size >= StartSize /\ StartSize \in Nat /\ StartSize >= 4
      /\ LargeSize \in Nat /\ LargeSize <= StartSize /\ LargeSize \in Sizes /\ 1 \in Sizes
  BY WholeIs, SizeIs, StaticmapOK, SizesOK DEF Sound
<1> QED BY <1>1 DEF SizeOf

\* The hashmap stays if all that is not data does.
LEMMA OneMapKin ==
    ASSUME NEW f, Sound(f), NEW g, SameHead(f, g),
           \A o \in Offsets : f.obj[o].type = "meta" \/ g.obj[o].type = "meta" =>
               g.obj[o] = f.obj[o]
    PROVE  OneMap(f, g) /\ Map(g) = Map(f)
<1>1. /\ f.hm \in Offsets /\ f.obj[f.hm].type = "meta" /\ f.entries \in Nat
      /\ \A o \in Offsets : f.obj[o].type = "meta" => o \in {0, f.hm}
  BY EntriesIs DEF Sound, Tabled
<1>2. g.hm = f.hm /\ g.active = f.active /\ g.entries = f.entries
  BY DEF SameHead
<1>3. g.obj[f.hm] = f.obj[f.hm]
  BY <1>1
<1>4. \A o \in Offsets : g.obj[o].type = "meta" => o \in {0, g.hm}
  BY <1>1, <1>2
<1> QED BY <1>1, <1>2, <1>3, <1>4 DEF OneMap, Map

\* The new object of an insertion: alloc() and its write, from a sound file.
LEMMA PutIs ==
    ASSUME NEW r, Sound(r.file), r.file \in r.past, r.file.size < MaxSize, NEW k \in Keys,
           NEW v, NEW a, a = AllocAt(r.file, SizeOf(v)), NEW q, q = Put(r, k, v)
    PROVE  /\ Whole(q.file) /\ Adds(r.file, q.file, k, a, v) /\ SameHead(r.file, q.file)
           /\ Map(q.file) = Map(r.file) /\ q.file \in q.past /\ r.file.size <= q.file.size
           /\ \A g \in q.past : g \in r.past \/ (Under(r.file, g, k, v) /\ g.size = q.file.size)
           /\ \A o \in Offsets : o # a /\ (InUse(r.file.obj[o]) \/ InUse(q.file.obj[o])) =>
                  q.file.obj[o] = r.file.obj[o]
<1> DEFINE f == r.file
<1>1. PICK s, x : s = SizeOf(v) /\ x = DataObj(s, k, v)
  OBVIOUS
<1>2. x.type = "data" /\ x.key = k /\ x.val = v /\ x.size = s /\ InUse(x)
  BY <1>1 DEF DataObj, InUse
<1>3. s \in Sizes /\ s <= f.size
  BY <1>1, SizeOfIs
<1>4. q = WriteObject(Alloc(r, s), a, x)
  BY <1>1 DEF Put
<1>5. /\ Whole(q.file) /\ Takes(f, q.file, a, x) /\ q.file \in q.past
      /\ \A g \in q.past : g \in r.past \/ Kin(f, g) \/ g = q.file
      /\ \A g \in q.past : g \in r.past \/ g.size = q.file.size
      /\ f.size <= q.file.size
  BY <1>1, <1>2, <1>3, <1>4, AllocIs DEF Sound
<1>6. /\ SameHead(f, q.file) /\ a \in Offsets /\ a # 0 /\ ~InUse(f.obj[a]) /\ q.file.obj[a] = x
      /\ \A o \in Offsets : o # a /\ (InUse(f.obj[o]) \/ InUse(q.file.obj[o])) =>
             q.file.obj[o] = f.obj[o]
  BY <1>5 DEF Takes
<1>7. \A o \in Offsets : f.obj[o].type = "meta" \/ q.file.obj[o].type = "meta" =>
          q.file.obj[o] = f.obj[o]
  BY <1>2, <1>6 DEF InUse
<1>8. OneMap(f, q.file) /\ Map(q.file) = Map(f)
  BY <1>6, <1>7, OneMapKin
<1>9. But(f, q.file, a) /\ f.obj[a].type \notin {"data", "meta"} /\ f.obj[a].type # "data"
  BY <1>6 DEF But, InUse
<1>10. Adds(f, q.file, k, a, v)
  BY <1>2, <1>6, <1>8, <1>9 DEF Adds
<1>11. Under(f, q.file, k, v)
  <2>1. Torn(q.file) /\ q.file.entries = f.entries
    BY <1>5, <1>6, WholeIs DEF SameHead
  <2> QED BY <1>10, <2>1, AddsUnder
<1>12. \A g : Kin(f, g) => Under(f, g, k, v)
  BY UnderSelf
<1> QED BY <1>5, <1>6, <1>8, <1>10, <1>11, <1>12

\* The slot of k is written last.
Points(f, r, q, k, a, v, n) ==
    /\ Whole(r.file) /\ Changes(f, r.file, k, a, v) /\ Recounted(f, r.file, k, a)
    /\ Map(r.file) = Map(f) /\ n \in Int /\ r.file.load = r.file.entries + n
    /\ q = WriteMap(r, [Map(f).ptr EXCEPT ![k] = a], n)

\* And then the file is sound.
Pointed(f, r, q, k, v) ==
    /\ Sound(q.file) /\ Recovered(q.file) = [Recovered(f) EXCEPT ![k] = v]
    /\ Under(f, q.file, k, v) /\ q.file.active = f.active
    /\ q.past = r.past \cup {q.file} /\ q.file.size = r.file.size

\* The last write of an insertion or a removal, that of the slot.
LEMMA PointIs ==
    ASSUME NEW f, Sound(f), NEW r, NEW q, NEW k \in Keys, NEW a, NEW v, NEW n,
           Points(f, r, q, k, a, v, n)
    PROVE  Pointed(f, r, q, k, v)
<1> /\ Whole(r.file) /\ Changes(f, r.file, k, a, v) /\ Recounted(f, r.file, k, a)
    /\ Map(r.file) = Map(f) /\ n \in Int /\ r.file.load = r.file.entries + n
  BY DEF Points
<1>1. PICK h, c, g, p : h = f.hm /\ c = r.file /\ g = q.file /\ p = [Map(f).ptr EXCEPT ![k] = a]
  OBVIOUS
<1>0. q = WriteMap(r, p, n)
  BY <1>1 DEF Points
<1>2. h \in Offsets /\ h # 0 /\ OneMap(f, c)
  BY <1>1, SoundData DEF Changes
<1>3. c.hm = h /\ InUse(c.obj[h]) /\ c.obj[h].type = "meta"
  BY <1>1, <1>2 DEF OneMap, InUse
<1>4. /\ Whole(g) /\ SameRoot(c, g) /\ q.past = r.past \cup {g}
      /\ g.obj[h].type = "meta" /\ g.obj[h].ptr = p /\ g.obj[h].tombs = n
      /\ \A o \in Offsets : o # h => g.obj[o] = c.obj[o]
  BY <1>0, <1>1, <1>2, <1>3, MapWritten
<1>5. /\ g.hm = h /\ g.size = c.size /\ g.entries = c.entries /\ g.load = c.load
      /\ g.active = c.active
  BY <1>3, <1>4 DEF SameRoot
<1>6. \A o \in Offsets : g.obj[o].type = "data" \/ c.obj[o].type = "data" => g.obj[o] = c.obj[o]
  BY <1>3, <1>4
<1>7. Changes(f, g, k, a, v)
  <2>1. OneMap(f, g)
    <3>1. \A o \in Offsets : g.obj[o].type = "meta" => o \in {0, g.hm}
      BY <1>1, <1>2, <1>3, <1>4, <1>5 DEF OneMap
    <3> QED BY <1>1, <1>2, <1>4, <1>5, <3>1 DEF OneMap
  <2>2. PICK old : old = Map(f).ptr[k]
    OBVIOUS
  <2>3. old \in Offsets /\ 0 \in Offsets
    BY <2>2, SoundData, OffsetsFinite
  <2>4. /\ a \in Offsets /\ f.obj[a].type # "data"
        /\ c.obj[old].type # "data"
        /\ a # 0 => c.obj[a].type = "data" /\ c.obj[a].key = k /\ c.obj[a].val = v
        /\ a = 0 => c.obj[0].type # "data" /\ v = None
        /\ \A o \in Offsets :
               o # a /\ o # old /\ (f.obj[o].type = "data" \/ c.obj[o].type = "data") =>
                   c.obj[o] = f.obj[o]
    BY <1>1, <2>2 DEF Changes
  <2>5. g.obj[old].type # "data" /\ (a = 0 => g.obj[0].type # "data")
    BY <1>6, <2>3, <2>4
  <2>6. a # 0 => g.obj[a].type = "data" /\ g.obj[a].key = k /\ g.obj[a].val = v
    BY <1>6, <2>4
  <2>7. \A o \in Offsets :
            o # a /\ o # old /\ (f.obj[o].type = "data" \/ g.obj[o].type = "data") =>
                g.obj[o] = f.obj[o]
    BY <1>6, <2>4
  <2> QED BY <2>1, <2>2, <2>4, <2>5, <2>6, <2>7 DEF Changes
<1>8. Recounted(f, g, k, a)
  BY <1>1, <1>5 DEF Recounted
<1>9. Repointed(f, g, k, a)
  <2>1. Map(g).ptr = p /\ Map(g).tombs = n
    BY <1>4, <1>5 DEF Map
  <2> QED BY <1>1, <1>5, <2>1 DEF Repointed
<1>10. /\ Sound(g) /\ Recovered(g) = [Recovered(f) EXCEPT ![k] = v]
       /\ Under(f, g, k, v) /\ g.active = f.active
  <2>1. Whole(g) /\ Sound(f) /\ k \in Keys
    BY <1>4
  <2>2. Sound(g) /\ Under(f, g, k, v) /\ g.active = f.active
    BY ONLY <1>7, <1>8, <1>9, <2>1, ChangesSound
  <2>3. Recovered(g) = [Recovered(f) EXCEPT ![k] = v]
    BY ONLY <1>7, <1>8, <1>9, <2>1, ChangesSound
  <2> QED BY <2>2, <2>3
<1> QED BY <1>1, <1>4, <1>5, <1>10 DEF Pointed

\* After the old object of k has been given back.
LEMMA OldGone ==
    ASSUME NEW f, Sound(f), NEW p, SameHead(f, p), NEW k \in Keys, NEW a, NEW v,
           Adds(f, p, k, a, v), Map(p) = Map(f),
           \A o \in Offsets : o # a /\ (InUse(f.obj[o]) \/ InUse(p.obj[o])) => p.obj[o] = f.obj[o],
           NEW old, old = Map(f).ptr[k], old # 0, NEW g, Gives(p, g, old)
    PROVE  Changes(f, g, k, a, v) /\ Map(g) = Map(f) /\ SameHead(f, g)
<1>1. /\ a \in Offsets /\ a # 0 /\ f.obj[a].type # "data"
      /\ p.obj[a].type = "data" /\ p.obj[a].key = k /\ p.obj[a].val = v
  BY DEF Adds
<1>2. /\ SameHead(p, g) /\ ~InUse(g.obj[old])
      /\ \A o \in Offsets : o # old /\ (InUse(p.obj[o]) \/ InUse(g.obj[o])) => g.obj[o] = p.obj[o]
  BY DEF Gives
<1>3. old \in Offsets /\ f.obj[old].type = "data" /\ old # a
  BY <1>1, SoundData DEF Sound, Tabled
<1>4. SameHead(f, g)
  BY <1>2 DEF SameHead
<1>5. g.obj[a] = p.obj[a]
  BY <1>1, <1>2, <1>3 DEF InUse
<1>6. \A o \in Offsets : o # a /\ o # old /\ (InUse(f.obj[o]) \/ InUse(g.obj[o])) =>
          g.obj[o] = f.obj[o]
  BY <1>2
<1>7. \A o \in Offsets : f.obj[o].type = "meta" \/ g.obj[o].type = "meta" => g.obj[o] = f.obj[o]
  <2>1. ASSUME NEW o \in Offsets, f.obj[o].type = "meta" \/ g.obj[o].type = "meta"
        PROVE  o # a /\ o # old
    <3>1. ~(f.obj[a].type = "meta")
      BY <1>1 DEF Adds
    <3> QED BY <1>1, <1>2, <1>3, <1>5, <2>1, <3>1 DEF InUse
  <2> QED BY <1>6, <2>1 DEF InUse
<1>8. OneMap(f, g) /\ Map(g) = Map(f)
  BY <1>4, <1>7, OneMapKin
<1>9. Changes(f, g, k, a, v)
  <2>1. g.obj[old].type # "data"
    BY <1>2 DEF InUse
  <2>2. \A o \in Offsets :
            o # a /\ o # old /\ (f.obj[o].type = "data" \/ g.obj[o].type = "data") =>
                g.obj[o] = f.obj[o]
    BY <1>6 DEF InUse
  <2> QED BY <1>1, <1>5, <1>8, <2>1, <2>2 DEF Changes
<1> QED BY <1>4, <1>8, <1>9

\* dealloc() of a key's object removes it.
LEMMA Removed ==
    ASSUME NEW f, Sound(f), NEW k \in Keys, NEW old, old = Map(f).ptr[k], old # 0,
           NEW g, Gives(f, g, old)
    PROVE  Changes(f, g, k, 0, None) /\ Map(g) = Map(f) /\ SameHead(f, g)
<1>1. /\ SameHead(f, g) /\ ~InUse(g.obj[old])
      /\ \A o \in Offsets : o # old /\ (InUse(f.obj[o]) \/ InUse(g.obj[o])) => g.obj[o] = f.obj[o]
  BY DEF Gives
<1>2. old \in Offsets /\ f.obj[old].type = "data" /\ 0 \in Offsets /\ f.obj[0].type = "meta"
  BY SoundData, WholeIs DEF Sound, Tabled
<1>3. \A o \in Offsets : f.obj[o].type = "meta" \/ g.obj[o].type = "meta" => g.obj[o] = f.obj[o]
  <2>1. ASSUME NEW o \in Offsets, f.obj[o].type = "meta" \/ g.obj[o].type = "meta"
        PROVE  o # old
    BY <1>1, <1>2, <2>1 DEF InUse
  <2> QED BY <1>1, <2>1 DEF InUse
<1>4. OneMap(f, g) /\ Map(g) = Map(f)
  BY <1>1, <1>3, OneMapKin
<1>5. g.obj[old].type # "data" /\ g.obj[0].type # "data"
  BY <1>1, <1>2, <1>3 DEF InUse
<1>6. \A o \in Offsets :
          o # 0 /\ o # old /\ (f.obj[o].type = "data" \/ g.obj[o].type = "data") =>
              g.obj[o] = f.obj[o]
  BY <1>1 DEF InUse
<1>7. Changes(f, g, k, 0, None)
  BY <1>2, <1>4, <1>5, <1>6 DEF Changes
<1> QED BY <1>1, <1>4, <1>7

\* A file with a key has an entry.
LEMMA EntriesLeft ==
    ASSUME NEW f, Sound(f), NEW k \in Keys, Map(f).ptr[k] # 0
    PROVE  f.entries \in Nat /\ f.entries # 0
<1>1. Map(f).ptr[k] \in DataIn(f)
  BY SoundData DEF Sound, Tabled, DataIn
<1> QED BY <1>1, EntriesIs DEF Sound

\* remove(): the file is sound and the key gone; at each write it is the map
\* before or after.
LEMMA RemoveIs ==
    ASSUME NEW r, Sound(r.file), r.file \in r.past, NEW k \in Keys, NEW q, q = RemoveRun(r, k)
    PROVE  Updated(r, q, k, None) /\ q.file.size = r.file.size
<1> DEFINE f == r.file
<1>1. PICK old, n, p, d, w : /\ old = Map(f).ptr[k] /\ n = Map(f).tombs + 1
                             /\ p = [Map(f).ptr EXCEPT ![k] = 0]
                             /\ d = Dealloc(r, old) /\ w = WriteMap(d, p, n)
  OBVIOUS
<1>2. Map(f).tombs \in Int /\ f.load = f.entries + Map(f).tombs /\ f.entries \in Nat /\ n \in Int
  BY <1>1, EntriesIs DEF Sound, Tabled
<1>3. CASE old = 0
  <2>1. q = r
    BY <1>1, <1>3 DEF RemoveRun
  <2>2. Recovered(f) = [Recovered(f) EXCEPT ![k] = None]
    <3>1. Counted(f) /\ ValueOf(f, k) = None
      BY <1>1, <1>3, SoundValue
    <3> QED BY <3>1, RecoveredWith
  <2>3. f.size <= f.size
    BY WholeIs DEF Sound
  <2> QED BY <2>1, <2>2, <2>3 DEF Updated
<1>4. CASE old # 0
  <2>1. old \in Offsets /\ InUse(f.obj[old])
    BY <1>1, <1>4, SoundData DEF Sound, Tabled, InUse
  <2>2. /\ Whole(d.file) /\ Gives(f, d.file, old)
        /\ \A g \in d.past : \/ g \in r.past \/ Kin(f, g)
                             \/ (Gives(f, g, old) /\ Torn(g))
        /\ \A g \in d.past : g \in r.past \/ g.size = d.file.size
        /\ d.file.size = f.size /\ d.file \in d.past
    BY <1>1, <1>4, <2>1, DeallocIs DEF Sound
  <2>3. \A g : Gives(f, g, old) => Changes(f, g, k, 0, None) /\ Map(g) = Map(f) /\ SameHead(f, g)
    BY <1>1, <1>4, Removed
  <2>4. f.entries # 0
    BY <1>1, <1>4, EntriesLeft
  <2>5. ASSUME NEW g, Gives(f, g, old), Torn(g) PROVE Under(f, g, k, None)
    <3>1. Changes(f, g, k, 0, None) /\ g.entries # 0
      BY <2>3, <2>4, <2>5 DEF SameHead
    <3>2. Counted(g)
      BY <2>5, <3>1 DEF Counted
    <3>3. Sound(f) /\ k \in Keys
      OBVIOUS
    <3> QED BY ONLY <3>1, <3>2, <3>3, ChangesUnder
  <2>6. \A g : Kin(f, g) => Under(f, g, k, None)
    BY UnderSelf
  <2>7. PICK e, u : /\ u = [w.file EXCEPT !.entries = @ - 1] /\ e = Write(w, u)
    OBVIOUS
  <2>8. q = e
    <3>1. /\ Map(d.file).ptr = Map(f).ptr /\ Map(d.file).tombs = Map(f).tombs
      BY <2>2, <2>3
    <3> QED BY <1>1, <1>4, <2>7, <3>1 DEF RemoveRun
  <2>9. q.file = u /\ q.past = w.past \cup {u}
    BY <2>7, <2>8 DEF Write
  <2>10. PICK c, h : c = d.file /\ h = f.hm
    OBVIOUS
  <2>11. Changes(f, c, k, 0, None) /\ Map(c) = Map(f) /\ SameHead(f, c) /\ Whole(c)
    BY <2>2, <2>3, <2>10
  <2>12. h \in Offsets /\ h # 0 /\ c.hm = h /\ InUse(c.obj[h]) /\ f.obj[h].type = "meta"
    BY <2>10, <2>11, MapIs DEF SameHead, Map
  <2>13. /\ Whole(w.file) /\ SameRoot(c, w.file) /\ w.past = d.past \cup {w.file}
         /\ w.file.obj[h].type = "meta" /\ w.file.obj[h].ptr = p
         /\ w.file.obj[h].tombs = n
         /\ \A o \in Offsets : o # h => w.file.obj[o] = c.obj[o]
    <3>1. Whole(d.file) /\ d.file.hm = h /\ InUse(d.file.obj[h]) /\ w = WriteMap(d, p, n)
      BY <1>1, <2>10, <2>11, <2>12
    <3> QED BY <2>10, <2>12, <3>1, MapWritten
  <2>14. IsFile(w.file)
    BY <2>13, WholeIs
  <2>15. /\ w.file.hm = h /\ w.file.active = f.active /\ w.file.entries = f.entries
         /\ w.file.load = f.load /\ w.file.size = c.size
    BY <2>10, <2>11, <2>13 DEF SameRoot, SameHead
  <2>16. u = [size |-> w.file.size, active |-> w.file.active, hm |-> w.file.hm,
              load |-> w.file.load, entries |-> w.file.entries - 1, free |-> w.file.free,
              obj |-> w.file.obj]
    BY <2>7, <2>14 DEF IsFile
  <2>17. /\ IsFile(u) /\ u.size = w.file.size /\ u.active = w.file.active /\ u.hm = w.file.hm
         /\ u.load = w.file.load /\ u.entries = w.file.entries - 1 /\ u.free = w.file.free
         /\ u.obj = w.file.obj
    BY <2>14, <2>16, HeadSet
  <2>18. Whole(u)
    BY <2>13, <2>17, WholeSame
  <2>19. c.obj[h].type = "meta"
    BY <2>10, <2>11, <2>12, MapIs DEF Map
  <2>20. ASSUME NEW g, g.obj = w.file.obj, g.hm = h, g.active = f.active, g.entries \in Nat
         PROVE  Changes(f, g, k, 0, None)
    <3>1. \A o \in Offsets : g.obj[o].type = "data" \/ c.obj[o].type = "data" =>
              g.obj[o] = c.obj[o]
      BY <2>12, <2>13, <2>19, <2>20
    <3>2. /\ 0 \in Offsets /\ f.obj[0].type # "data" /\ c.obj[old].type # "data"
          /\ c.obj[0].type # "data"
          /\ \A o \in Offsets :
                 o # 0 /\ o # old /\ (f.obj[o].type = "data" \/ c.obj[o].type = "data") =>
                     c.obj[o] = f.obj[o]
      BY <1>1, <2>11 DEF Changes
    <3>3. g.obj[old].type # "data" /\ g.obj[0].type # "data"
      BY <2>1, <3>1, <3>2
    <3>4. \A o \in Offsets :
              o # 0 /\ o # old /\ (f.obj[o].type = "data" \/ g.obj[o].type = "data") =>
                  g.obj[o] = f.obj[o]
      BY <3>1, <3>2
    <3>5. \A o \in Offsets : c.obj[o].type = "meta" => o \in {0, h}
      BY <2>11, <2>12 DEF Changes, OneMap
    <3>6. OneMap(f, g)
      <4>1. g.obj[h].type = "meta" /\ \A o \in Offsets : g.obj[o].type = "meta" => o \in {0, h}
        BY <2>12, <2>13, <2>20, <3>5
      <4> QED BY <2>10, <2>20, <4>1 DEF OneMap
    <3> QED BY <1>1, <3>2, <3>3, <3>4, <3>6 DEF Changes
  <2>21. f.entries - 1 \in Nat
    BY <1>2, <2>4
  <2>22. Changes(f, w.file, k, 0, None) /\ Changes(f, u, k, 0, None)
    BY <1>2, <2>15, <2>17, <2>20, <2>21
  <2>23. Under(f, w.file, k, None)
    <3>1. Counted(w.file)
      BY <2>4, <2>13, <2>15, WholeIs DEF Counted
    <3>2. Sound(f) /\ k \in Keys
      OBVIOUS
    <3> QED BY ONLY <2>22, <3>1, <3>2, ChangesUnder
  <2>24. Recounted(f, u, k, 0)
    BY <1>1, <1>4, <2>15, <2>17 DEF Recounted
  <2>25. Repointed(f, u, k, 0)
    <3>1. Map(u).ptr = p /\ Map(u).tombs = n
      BY <2>13, <2>15, <2>17 DEF Map
    <3>2. u.load = f.entries + Map(f).tombs /\ u.entries = f.entries - 1
      BY <1>2, <2>15, <2>17
    <3>3. u.load = u.entries + n
      BY <1>1, <1>2, <3>2
    <3> QED BY <1>1, <1>2, <3>1, <3>3 DEF Repointed
  <2>26. /\ Sound(u) /\ Under(f, u, k, None) /\ u.active = f.active
         /\ Recovered(u) = [Recovered(f) EXCEPT ![k] = None]
    <3>1. Sound(f) /\ k \in Keys
      OBVIOUS
    <3>2. Sound(u) /\ Under(f, u, k, None) /\ u.active = f.active
      BY ONLY <2>18, <2>22, <2>24, <2>25, <3>1, ChangesSound
    <3>3. Recovered(u) = [Recovered(f) EXCEPT ![k] = None]
      BY ONLY <2>18, <2>22, <2>24, <2>25, <3>1, ChangesSound
    <3> QED BY <3>2, <3>3
  <2>27. u.size = f.size /\ w.file.size = f.size /\ c.size = f.size /\ f.size \in Nat
    BY <2>2, <2>10, <2>15, <2>17, WholeIs DEF Sound
  <2>28. \A g \in q.past : g \in r.past \/ (Under(f, g, k, None) /\ g.size <= u.size)
    <3>1. \A g \in d.past : g \in r.past \/ Under(f, g, k, None)
      BY <2>2, <2>5, <2>6
    <3>2. \A g \in d.past : g \in r.past \/ g.size <= u.size
      BY <2>2, <2>27
    <3> QED BY <2>9, <2>13, <2>23, <2>26, <2>27, <3>1, <3>2
  <2> QED BY <2>9, <2>26, <2>27, <2>28 DEF Updated
<1> QED BY <1>3, <1>4

\* insert(): the file is sound and the key has the value; at each write it is
\* the map before or after.
LEMMA InsertIs ==
    ASSUME NEW r, Sound(r.file), r.file \in r.past, r.file.size < MaxSize, NEW k \in Keys,
           NEW v, NEW reuse \in BOOLEAN, reuse => Map(r.file).ptr[k] = 0,
           NEW q, q = InsertRun(r, k, v, reuse)
    PROVE  Updated(r, q, k, v)
<1> DEFINE f == r.file
<1>1. PICK old, a, put, n, p :
          /\ old = Map(f).ptr[k] /\ a = AllocAt(f, SizeOf(v)) /\ put = Put(r, k, v)
          /\ n = (IF reuse THEN Map(f).tombs - 1 ELSE Map(f).tombs)
          /\ p = [Map(f).ptr EXCEPT ![k] = a]
  OBVIOUS
<1>2. Map(f).tombs \in Int /\ f.load = f.entries + Map(f).tombs /\ f.entries \in Nat /\ n \in Int
  BY <1>1, EntriesIs DEF Sound, Tabled
<1>3. CASE old # 0 /\ v \notin Large /\ f.obj[old].size = 1
  <2>1. q = WriteObject(r, old, DataObj(1, k, v))
    BY <1>1, <1>3 DEF InsertRun
  <2> QED BY <1>1, <1>3, <2>1, InPlace
<1>4. CASE ~(old # 0 /\ v \notin Large /\ f.obj[old].size = 1)
  <2>1. /\ Whole(put.file) /\ Adds(f, put.file, k, a, v) /\ SameHead(f, put.file)
        /\ Map(put.file) = Map(f) /\ put.file \in put.past /\ f.size <= put.file.size
        /\ \A g \in put.past : g \in r.past \/ (Under(f, g, k, v) /\ g.size = put.file.size)
        /\ \A o \in Offsets : o # a /\ (InUse(f.obj[o]) \/ InUse(put.file.obj[o])) =>
               put.file.obj[o] = f.obj[o]
    BY <1>1, PutIs
  <2>2. /\ a \in Offsets /\ a # 0 /\ f.obj[a].type # "data" /\ But(f, put.file, a)
        /\ OneMap(f, put.file)
        /\ put.file.obj[a].type = "data" /\ put.file.obj[a].key = k /\ put.file.obj[a].val = v
    BY <2>1 DEF Adds
  <2>3. put.file.entries = f.entries /\ put.file.load = f.load /\ put.file.hm = f.hm
        /\ put.file.active = f.active
    BY <2>1 DEF SameHead
  <2>4. Under(f, put.file, k, v) \/ put.file \in r.past
    BY <2>1
  <2>5. CASE old = 0
    <3>1. PICK c, l : /\ l = (IF reuse THEN put.file.load ELSE put.file.load + 1)
                      /\ c = Count(put, reuse)
      OBVIOUS
    <3>2. c.file = [put.file EXCEPT !.load = l, !.entries = @ + 1] /\ c.past = put.past \cup {c.file}
      BY <3>1 DEF Count, Write
    <3>3. IsFile(put.file)
      BY <2>1, WholeIs
    <3>4. c.file = [size |-> put.file.size, active |-> put.file.active, hm |-> put.file.hm,
                    load |-> l, entries |-> put.file.entries + 1, free |-> put.file.free,
                    obj |-> put.file.obj]
      BY <3>2, <3>3 DEF IsFile
    <3>5. /\ IsFile(c.file) /\ c.file.size = put.file.size /\ c.file.active = put.file.active
          /\ c.file.hm = put.file.hm /\ c.file.load = l /\ c.file.entries = put.file.entries + 1
          /\ c.file.free = put.file.free /\ c.file.obj = put.file.obj
      BY <3>3, <3>4, HeadSet
    <3>6. Whole(c.file)
      BY <2>1, <3>5, WholeSame
    <3>7. Map(c.file) = Map(f)
      BY <2>1, <3>5 DEF Map
    <3>8. c.file.entries \in Nat /\ c.file.entries = f.entries + 1 /\ c.file.entries # 0
      BY <1>2, <2>3, <3>5
    <3>9. Changes(f, c.file, k, a, v)
      <4>1. OneMap(f, c.file)
        BY <2>2, <3>5, <3>8 DEF OneMap
      <4>2. Map(f).ptr[k] = 0 /\ c.file.obj[0].type # "data"
        BY <1>1, <2>5, <3>6, WholeIs
      <4>3. \A o \in Offsets :
                o # a /\ (f.obj[o].type = "data" \/ c.file.obj[o].type = "data") =>
                    c.file.obj[o] = f.obj[o]
        BY <2>2, <3>5 DEF But
      <4> QED BY <2>2, <3>5, <4>1, <4>2, <4>3 DEF Changes
    <3>10. Recounted(f, c.file, k, a)
      BY <1>1, <2>2, <2>5, <3>8 DEF Recounted
    <3>11. c.file.load = c.file.entries + n
      <4>1. l = (IF reuse THEN f.load ELSE f.load + 1)
        BY <2>3, <3>1
      <4> QED BY <1>1, <1>2, <3>5, <3>8, <4>1
    <3>12. q = WriteMap(c, p, n)
      <4>1. q = Point(c, k, a, reuse)
        BY <1>1, <1>4, <2>5, <3>1 DEF InsertRun
      <4> QED BY <1>1, <3>7, <4>1 DEF Point
    <3>13. /\ Sound(q.file) /\ Recovered(q.file) = [Recovered(f) EXCEPT ![k] = v]
           /\ Under(f, q.file, k, v) /\ q.file.active = f.active
           /\ q.past = c.past \cup {q.file} /\ q.file.size = c.file.size
      <4>1. Points(f, c, q, k, a, v, n)
        BY <1>1, <1>2, <3>6, <3>7, <3>9, <3>10, <3>11, <3>12 DEF Points
      <4>2. Sound(f) /\ k \in Keys
        OBVIOUS
      <4>5. Pointed(f, c, q, k, v)
        BY ONLY <4>1, <4>2, PointIs
      <4> QED BY <4>5 DEF Pointed
    <3>14. Under(f, c.file, k, v)
      <4>1. Counted(c.file) /\ Sound(f) /\ k \in Keys
        BY <3>6, <3>8, WholeIs DEF Counted
      <4> QED BY ONLY <3>9, <4>1, ChangesUnder
    <3>15. q.file.size = put.file.size /\ put.file.size \in Nat
      BY <2>1, <3>5, <3>13, WholeIs
    <3>16. \A g \in q.past : g \in r.past \/ (Under(f, g, k, v) /\ g.size <= q.file.size)
      <4>1. \A g \in put.past : g \in r.past \/ Under(f, g, k, v)
        BY <2>1
      <4>2. \A g \in put.past : g \in r.past \/ g.size <= q.file.size
        BY <2>1, <3>15
      <4>3. c.file.size <= q.file.size /\ q.file.size <= q.file.size
        BY <3>5, <3>15
      <4>4. q.past = (put.past \cup {c.file}) \cup {q.file}
        BY <3>2, <3>13
      <4> QED BY <3>13, <3>14, <4>1, <4>2, <4>3, <4>4
    <3> QED BY <2>1, <3>13, <3>15, <3>16 DEF Updated
  <2>6. CASE old # 0
    <3>1. PICK d, c : d = Dealloc(put, old) /\ c = d.file
      OBVIOUS
    <3>2. old \in Offsets /\ f.obj[old].type = "data"
      BY <1>1, <2>6, SoundData DEF Sound, Tabled
    <3>3. InUse(put.file.obj[old])
      BY <2>1, <2>2, <3>2 DEF InUse
    <3>4. /\ Whole(c) /\ Gives(put.file, c, old)
          /\ \A g \in d.past : \/ g \in put.past \/ Kin(put.file, g)
                               \/ (Gives(put.file, g, old) /\ Torn(g))
          /\ \A g \in d.past : g \in put.past \/ g.size = c.size
          /\ c.size = put.file.size /\ c \in d.past
      BY <2>1, <2>6, <3>1, <3>2, <3>3, DeallocIs
    <3>5. ASSUME NEW g, Gives(put.file, g, old)
          PROVE  Changes(f, g, k, a, v) /\ Map(g) = Map(f) /\ SameHead(f, g)
      BY <1>1, <2>1, <2>6, <3>5, OldGone
    <3>6. f.entries # 0
      BY <1>1, <2>6, EntriesLeft
    <3>7. ASSUME NEW g, Gives(put.file, g, old), Torn(g) PROVE Under(f, g, k, v)
      <4>1. Changes(f, g, k, a, v) /\ g.entries # 0
        BY <3>5, <3>6, <3>7 DEF SameHead
      <4>2. Counted(g) /\ Sound(f) /\ k \in Keys
        BY <3>7, <4>1 DEF Counted
      <4> QED BY ONLY <4>1, <4>2, ChangesUnder
    <3>8. Under(f, put.file, k, v)
      <4>1. Torn(put.file)
        BY <2>1, WholeIs
      <4> QED BY <2>1, <2>3, <4>1, AddsUnder
    <3>9. \A g : Kin(put.file, g) => Under(f, g, k, v)
      BY <3>8, UnderKin
    <3>10. Changes(f, c, k, a, v) /\ Map(c) = Map(f) /\ SameHead(f, c)
      BY <3>4, <3>5
    <3>11. c.load = f.load /\ c.entries = f.entries
      BY <3>10 DEF SameHead
    <3>12. ~reuse /\ n = Map(f).tombs
      BY <1>1, <2>6
    <3>13. Recounted(f, c, k, a)
      BY <1>1, <2>2, <2>6, <3>11 DEF Recounted
    <3>14. q = WriteMap(d, p, n)
      <4>1. q = Point(d, k, a, reuse)
        BY <1>1, <1>4, <2>6, <3>1 DEF InsertRun
      <4> QED BY <1>1, <3>1, <3>10, <4>1 DEF Point
    <3>15. /\ Sound(q.file) /\ Recovered(q.file) = [Recovered(f) EXCEPT ![k] = v]
           /\ Under(f, q.file, k, v) /\ q.file.active = f.active
           /\ q.past = d.past \cup {q.file} /\ q.file.size = d.file.size
      <4>1. Whole(d.file) /\ Map(d.file) = Map(f) /\ Changes(f, d.file, k, a, v)
            /\ Recounted(f, d.file, k, a) /\ d.file.load = d.file.entries + n
        BY <1>2, <3>1, <3>4, <3>10, <3>11, <3>12, <3>13
      <4>2. Points(f, d, q, k, a, v, n)
        BY <1>1, <1>2, <3>14, <4>1 DEF Points
      <4>3. Sound(f) /\ k \in Keys
        OBVIOUS
      <4>5. Pointed(f, d, q, k, v)
        BY ONLY <4>2, <4>3, PointIs
      <4> QED BY <4>5 DEF Pointed
    <3>16. q.file.size = put.file.size /\ put.file.size \in Nat /\ c.size = put.file.size
      BY <2>1, <3>1, <3>4, <3>15, WholeIs
    <3>17. \A g \in d.past : g \in r.past \/ Under(f, g, k, v)
      BY <2>1, <3>4, <3>7, <3>9
    <3>18. \A g \in d.past : g \in r.past \/ g.size <= q.file.size
      BY <2>1, <3>4, <3>16
    <3> QED BY <2>1, <3>15, <3>16, <3>17, <3>18 DEF Updated
  <2> QED BY <2>5, <2>6
<1> QED BY <1>3, <1>4
------------------------------------------------------------------------------
(* The loop of recover().                                                  *)

\* The loop of recover() before its first turn.
Begun(r) ==
    [run |-> r, free |-> [s \in Sizes |-> 0], ptr |-> NoPtrs, entries |-> 0, strays |-> {},
     at |-> 1]

\* The first n turns.
Scan(t, r, n) ==
    /\ t = [i \in 0..n |-> t[i]] /\ t[0] = Begun(r)
    /\ \A i \in 0..n : i # 0 =>
          t[i] = IF t[i - 1].at < r.file.size THEN Visit(t[i - 1]) ELSE t[i - 1]

\* The loop of recover() in turns,
LEMMA ScanExists ==
    ASSUME NEW r, NEW n \in Nat
    PROVE  \E t : Scan(t, r, n)
<1> DEFINE T == {m \in Nat : ~ \E t : Scan(t, r, m)}
<1>1. ASSUME T # {} PROVE FALSE
  <2>1. T \in SUBSET Nat
    OBVIOUS
  <2>2. PICK m \in T : \A i \in T : m <= i
    <3> HIDE DEF T
    <3> QED BY <1>1, <2>1, LeastOfNat
  <2>3. m \in Nat /\ ~ \E t : Scan(t, r, m)
    OBVIOUS
  <2>4. CASE m = 0
    <3>1. PICK t : t = [i \in 0..0 |-> Begun(r)]
      OBVIOUS
    <3>2. t = [i \in 0..0 |-> t[i]] /\ t[0] = Begun(r) /\ \A i \in 0..0 : i = 0
      BY <3>1
    <3>3. Scan(t, r, 0)
      BY <3>2 DEF Scan
    <3> QED BY <2>3, <2>4, <3>3
  <2>5. CASE m # 0
    <3>1. PICK h : h = m - 1
      OBVIOUS
    <3>2. h \in Nat /\ m = h + 1 /\ h \notin T
      <4>1. h \in Nat /\ m = h + 1 /\ ~(m <= h)
        BY <2>3, <2>5, <3>1
      <4> QED BY <2>2, <4>1
    <3>3. PICK t : Scan(t, r, h)
      BY <3>2
    <3>4. PICK w : w = IF t[h].at < r.file.size THEN Visit(t[h]) ELSE t[h]
      OBVIOUS
    <3>5. PICK u : u = [i \in 0..m |-> IF i = m THEN w ELSE t[i]]
      OBVIOUS
    <3>6. u[m] = w /\ \A i \in 0..h : u[i] = t[i] /\ i # m /\ i \in 0..m
      BY <2>3, <3>2, <3>5
    <3>7. u = [i \in 0..m |-> u[i]]
      BY <3>5
    <3>8. u[0] = Begun(r)
      <4>1. 0 \in 0..h
        BY <3>2
      <4> QED BY <3>3, <3>6, <4>1 DEF Scan
    <3>9. ASSUME NEW i \in 0..m, i # 0
          PROVE  u[i] = IF u[i - 1].at < r.file.size THEN Visit(u[i - 1]) ELSE u[i - 1]
      <4>1. i - 1 \in 0..h
        BY <2>3, <3>2, <3>9
      <4>2. u[i - 1] = t[i - 1]
        BY <3>6, <4>1
      <4>3. CASE i = m
        <5>1. i - 1 = h
          BY <3>1, <4>3
        <5> QED BY <3>4, <3>6, <4>2, <4>3, <5>1
      <4>4. CASE i # m
        <5>1. i \in 0..h
          BY <2>3, <3>2, <4>4
        <5>2. u[i] = t[i]
          BY <3>6, <5>1
        <5>3. t[i] = IF t[i - 1].at < r.file.size THEN Visit(t[i - 1]) ELSE t[i - 1]
          BY <3>3, <3>9, <5>1 DEF Scan
        <5> QED BY <4>2, <5>2, <5>3
      <4> QED BY <4>3, <4>4
    <3>10. Scan(u, r, m)
      BY <3>7, <3>8, <3>9 DEF Scan
    <3> QED BY <2>3, <3>10
  <2> QED BY <2>4, <2>5
<1> QED BY <1>1

\* of which Found is the last.
LEMMA FoundIs ==
    ASSUME NEW r, r.file.size \in Nat
    PROVE  \E t : Found(r) = t[r.file.size] /\ Scan(t, r, r.file.size)
<1> DEFINE Step(h, n) == LET w == h[n - 1] IN IF w.at < r.file.size THEN Visit(w) ELSE w
<1> DEFINE Loop(h) == h = [n \in 0..r.file.size |-> IF n = 0 THEN Begun(r) ELSE Step(h, n)]
<1>1. PICK t : Scan(t, r, r.file.size)
  BY ScanExists
<1>2. Loop(t)
  <2>1. \A n \in 0..r.file.size : t[n] = IF n = 0 THEN Begun(r) ELSE Step(t, n)
    BY <1>1 DEF Scan
  <2>2. t = [n \in 0..r.file.size |-> t[n]]
    BY <1>1 DEF Scan
  <2> HIDE DEF Step
  <2> QED BY <2>1, <2>2
<1>3. PICK g : g = CHOOSE h : Loop(h)
  OBVIOUS
<1>4. Loop(g)
  <2> HIDE DEF Loop
  <2> QED BY <1>2, <1>3
<1>5. Found(r) = g[r.file.size]
  BY <1>3 DEF Found, Begun
<1>6. Scan(g, r, r.file.size)
  <2>1. g = [n \in 0..r.file.size |-> IF n = 0 THEN Begun(r) ELSE Step(g, n)]
    BY <1>4
  <2>2. \A n \in 0..r.file.size : g[n] = IF n = 0 THEN Begun(r) ELSE Step(g, n)
    <3> HIDE DEF Step
    <3> QED BY <2>1
  <2>3. g = [n \in 0..r.file.size |-> g[n]]
    <3> HIDE DEF Step
    <3> QED BY <2>1, <2>2
  <2>4. 0 \in 0..r.file.size
    OBVIOUS
  <2> QED BY <2>2, <2>3, <2>4 DEF Scan
<1> QED BY <1>5, <1>6

\* An object that is one too many, if ptr are the first objects of the keys.
Stray(f, ptr, o) ==
    \/ f.obj[o].type = "data" /\ ptr[f.obj[o].key] # o
    \/ f.obj[o].type = "meta" /\ o # 0 /\ o # f.hm

\* The objects of the table ptr before n.
Chosen(f, n, ptr) == {o \in Offsets : o < n /\ f.obj[o].type = "data" /\ ptr[f.obj[o].key] = o}

\* What the loop knows of the objects before n.
Noted(f, n, ptr, entries, strays) ==
    /\ ptr \in [Keys -> Offsets]
    /\ \A k \in Keys : ptr[k] # 0 =>
          ptr[k] < n /\ ptr[k] \in KeyAt(f, k) /\ \A o \in KeyAt(f, k) : ptr[k] <= o
    /\ \A k \in Keys : ptr[k] = 0 => \A o \in KeyAt(f, k) : o >= n
    /\ strays = {o \in Offsets : o < n /\ Stray(f, ptr, o)}
    /\ entries = Cardinality(Chosen(f, n, ptr))

\* From a to n there is nothing but the object at a.
OneAhead(f, a, n) ==
    /\ a \in Offsets /\ a # 0 /\ n \in Nat /\ a < n
    /\ \A o \in Offsets : a < o /\ o < n => ~InUse(f.obj[o])
    /\ \A o \in Offsets : f.obj[o].type = "data" => f.obj[o].key \in Keys

\* What is in use before the next object is before this one, or is this one.
LEMMA OneAheadIs ==
    ASSUME NEW f, NEW a, NEW n, OneAhead(f, a, n)
    PROVE  \A o \in Offsets : InUse(f.obj[o]) /\ o < n => o < a \/ o = a
<1>1. \A o \in Offsets : o \in Nat
  BY OffsetsFinite
<1> QED BY <1>1 DEF OneAhead

\* A turn at a free object or at the hashmap notes nothing,
LEMMA NotedNothing ==
    ASSUME NEW f, NEW a, NEW n, OneAhead(f, a, n), NEW ptr, NEW entries, NEW strays,
           Noted(f, a, ptr, entries, strays),
           ~InUse(f.obj[a]) \/ (f.obj[a].type = "meta" /\ a = f.hm)
    PROVE  Noted(f, n, ptr, entries, strays)
<1>1. \A o \in Offsets : o \in Nat
  BY OffsetsFinite
<1>2. a \in Nat /\ n \in Nat /\ a < n /\ a \in Offsets
  BY <1>1 DEF OneAhead
<1>3. \A o \in Offsets : f.obj[o].type = "data" => (o < n <=> o < a)
  <2>1. \A o \in Offsets : f.obj[o].type = "data" => o # a /\ InUse(f.obj[o])
    BY DEF InUse
  <2>2. \A o \in Offsets : f.obj[o].type = "data" /\ o < n => o < a
    BY <2>1, OneAheadIs
  <2> QED BY <1>1, <1>2, <2>2
<1>4. \A o \in Offsets : Stray(f, ptr, o) => (o < n <=> o < a)
  <2>1. ASSUME NEW o \in Offsets, f.obj[o].type = "meta", o # 0, o # f.hm, o < n PROVE o < a
    <3>1. o # a /\ InUse(f.obj[o])
      BY <2>1 DEF InUse
    <3> QED BY <2>1, <3>1, OneAheadIs
  <2> QED BY <1>1, <1>2, <1>3, <2>1 DEF Stray
<1>5. \A k \in Keys : ptr[k] # 0 =>
          ptr[k] < n /\ ptr[k] \in KeyAt(f, k) /\ \A o \in KeyAt(f, k) : ptr[k] <= o
  <2>1. \A k \in Keys : ptr[k] \in Nat
    BY <1>1 DEF Noted
  <2>2. \A k \in Keys : ptr[k] < a => ptr[k] < n
    BY <1>2, <2>1
  <2> QED BY <2>2 DEF Noted
<1>6. \A k \in Keys : ptr[k] = 0 => \A o \in KeyAt(f, k) : o >= n
  <2>1. ASSUME NEW k \in Keys, ptr[k] = 0, NEW o \in KeyAt(f, k) PROVE o >= n
    <3>1. o \in Offsets /\ o \in Nat /\ f.obj[o].type = "data"
      BY <1>1 DEF KeyAt
    <3>2. o >= a
      BY <2>1 DEF Noted
    <3> QED BY <1>2, <1>3, <3>1, <3>2
  <2> QED BY <2>1
<1>7. strays = {o \in Offsets : o < n /\ Stray(f, ptr, o)}
  BY <1>4 DEF Noted
<1>8. Chosen(f, n, ptr) = Chosen(f, a, ptr)
  BY <1>3 DEF Chosen
<1> QED BY <1>5, <1>6, <1>7, <1>8 DEF Noted

\* one at the first object of a key notes it in the table,
LEMMA NotedFirst ==
    ASSUME NEW f, NEW a, NEW n, OneAhead(f, a, n), NEW ptr, NEW entries, NEW strays,
           Noted(f, a, ptr, entries, strays), f.obj[a].type = "data", ptr[f.obj[a].key] = 0,
           NEW p, p = [ptr EXCEPT ![f.obj[a].key] = a]
    PROVE  Noted(f, n, p, entries + 1, strays)
<1>1. \A o \in Offsets : o \in Nat
  BY OffsetsFinite
<1>2. a \in Nat /\ n \in Nat /\ a < n /\ a \in Offsets /\ a # 0
  BY <1>1 DEF OneAhead
<1>3. PICK j : j = f.obj[a].key
  OBVIOUS
<1>4. j \in Keys /\ ptr \in [Keys -> Offsets] /\ ptr[j] = 0
  BY <1>2, <1>3 DEF OneAhead, Noted
<1>5. p \in [Keys -> Offsets] /\ p[j] = a /\ \A k \in Keys : k # j => p[k] = ptr[k]
  BY <1>2, <1>3, <1>4
<1>6. \A o \in Offsets : f.obj[o].type = "data" /\ o < n => o < a \/ o = a
  BY OneAheadIs DEF InUse
<1>7. a \in KeyAt(f, j) /\ \A o \in KeyAt(f, j) : o >= a
  BY <1>2, <1>3, <1>4 DEF KeyAt, Noted
<1>8. ASSUME NEW k \in Keys, p[k] # 0
      PROVE  p[k] < n /\ p[k] \in KeyAt(f, k) /\ \A o \in KeyAt(f, k) : p[k] <= o
  <2>1. CASE k = j
    <3>1. \A o \in KeyAt(f, j) : o \in Nat
      BY <1>1 DEF KeyAt
    <3> QED BY <1>2, <1>5, <1>7, <2>1, <3>1
  <2>2. CASE k # j
    <3>1. p[k] = ptr[k] /\ ptr[k] \in Nat
      BY <1>1, <1>4, <1>5, <2>2
    <3>2. ptr[k] < a /\ ptr[k] \in KeyAt(f, k) /\ \A o \in KeyAt(f, k) : ptr[k] <= o
      BY <1>8, <3>1 DEF Noted
    <3>3. ptr[k] < n
      BY <1>2, <3>1, <3>2
    <3> QED BY <3>1, <3>2, <3>3
  <2> QED BY <2>1, <2>2
<1>9. ASSUME NEW k \in Keys, p[k] = 0, NEW o \in KeyAt(f, k) PROVE o >= n
  <2>1. k # j /\ ptr[k] = 0
    BY <1>2, <1>5, <1>9
  <2>2. o \in Offsets /\ o \in Nat /\ f.obj[o].type = "data" /\ f.obj[o].key = k
    BY <1>1 DEF KeyAt
  <2>3. o >= a
    BY <1>9, <2>1 DEF Noted
  <2>4. o # a
    BY <1>3, <2>1, <2>2
  <2> QED BY <1>2, <1>6, <2>2, <2>3, <2>4
<1>10. \A o \in Offsets : f.obj[o].type = "data" /\ o < a => p[f.obj[o].key] = ptr[f.obj[o].key]
  <2>1. ASSUME NEW o \in Offsets, f.obj[o].type = "data", o < a PROVE f.obj[o].key # j
    <3>1. f.obj[o].key = j => o >= a
      BY <1>7, <2>1 DEF KeyAt
    <3> QED BY <1>1, <1>2, <2>1, <3>1
  <2> QED BY <1>5, <2>1 DEF OneAhead
<1>11. ~Stray(f, p, a)
  BY <1>3, <1>5 DEF Stray
<1>12. \A o \in Offsets : o < a => (Stray(f, p, o) <=> Stray(f, ptr, o))
  BY <1>10 DEF Stray
<1>13. \A o \in Offsets : Stray(f, p, o) => InUse(f.obj[o])
  BY DEF Stray, InUse
<1>14. \A o \in Offsets : o < a => o < n
  BY <1>1, <1>2
<1>15. strays = {o \in Offsets : o < n /\ Stray(f, p, o)}
  <2>1. \A o \in Offsets : (o < n /\ Stray(f, p, o)) <=> (o < a /\ Stray(f, ptr, o))
    BY <1>11, <1>12, <1>13, <1>14, OneAheadIs
  <2> QED BY <2>1 DEF Noted
<1>16. entries + 1 = Cardinality(Chosen(f, n, p))
  <2>1. PICK C : C = Chosen(f, a, ptr)
    OBVIOUS
  <2>2. IsFiniteSet(C) /\ Cardinality(C) = entries /\ entries \in Nat
    <3>1. C \subseteq Offsets
      BY <2>1 DEF Chosen
    <3> QED BY <2>1, <3>1, OffsetsFinite DEF Noted
  <2>3. a \notin C
    BY <1>2, <2>1 DEF Chosen
  <2>4. \A o \in Offsets :
            (o < n /\ f.obj[o].type = "data" /\ p[f.obj[o].key] = o)
            <=> ((o < a /\ f.obj[o].type = "data" /\ ptr[f.obj[o].key] = o) \/ o = a)
    BY <1>2, <1>3, <1>5, <1>6, <1>10, <1>14
  <2>5. Chosen(f, n, p) = C \cup {a}
    BY <1>2, <2>1, <2>4 DEF Chosen
  <2> QED BY <2>2, <2>3, <2>5, FS_AddElement
<1> QED BY <1>5, <1>8, <1>9, <1>15, <1>16 DEF Noted

\* and one at another object of a key, or at another hashmap, that it is too
\* many.
LEMMA NotedStray ==
    ASSUME NEW f, NEW a, NEW n, OneAhead(f, a, n), NEW ptr, NEW entries, NEW strays,
           Noted(f, a, ptr, entries, strays),
           \/ f.obj[a].type = "data" /\ ptr[f.obj[a].key] # 0
           \/ f.obj[a].type = "meta" /\ a # f.hm,
           NEW more, more = strays \cup {a}
    PROVE  Noted(f, n, ptr, entries, more)
<1>1. \A o \in Offsets : o \in Nat
  BY OffsetsFinite
<1>2. a \in Nat /\ n \in Nat /\ a < n /\ a \in Offsets /\ a # 0
  BY <1>1 DEF OneAhead
<1>3. \A k \in Keys : ptr[k] # 0 => ptr[k] < a /\ ptr[k] \in Nat /\ ptr[k] # a
  <2>1. ASSUME NEW k \in Keys, ptr[k] # 0 PROVE ptr[k] < a /\ ptr[k] \in Nat /\ ptr[k] # a
    <3>1. PICK p \in Offsets : p = ptr[k]
      BY DEF Noted
    <3>2. p \in Nat /\ p < a
      BY <1>1, <2>1, <3>1 DEF Noted
    <3> QED BY <1>2, <3>1, <3>2
  <2> QED BY <2>1
<1>4. \A o \in Offsets : InUse(f.obj[o]) /\ o < n => o < a \/ o = a
  BY OneAheadIs
<1>5. Stray(f, ptr, a)
  BY <1>2, <1>3 DEF Stray, OneAhead
<1>6. \A k \in Keys : ptr[k] # 0 =>
          ptr[k] < n /\ ptr[k] \in KeyAt(f, k) /\ \A o \in KeyAt(f, k) : ptr[k] <= o
  <2>1. \A k \in Keys : ptr[k] # 0 => ptr[k] < n
    BY <1>2, <1>3
  <2> QED BY <2>1 DEF Noted
<1>7. ASSUME NEW k \in Keys, ptr[k] = 0, NEW o \in KeyAt(f, k) PROVE o >= n
  <2>1. o \in Offsets /\ o \in Nat /\ f.obj[o].type = "data" /\ f.obj[o].key = k
    BY <1>1 DEF KeyAt
  <2>2. o >= a
    BY <1>7 DEF Noted
  <2>3. o # a
    BY <1>7, <2>1
  <2>4. InUse(f.obj[o])
    BY <2>1 DEF InUse
  <2> QED BY <1>2, <1>4, <2>1, <2>2, <2>3, <2>4
<1>8. \A o \in Offsets : Stray(f, ptr, o) => InUse(f.obj[o])
  BY DEF Stray, InUse
<1>9. more = {o \in Offsets : o < n /\ Stray(f, ptr, o)}
  <2>1. \A o \in Offsets : (o < n /\ Stray(f, ptr, o)) <=> ((o < a /\ Stray(f, ptr, o)) \/ o = a)
    <3>1. \A o \in Offsets : o < a => o < n
      BY <1>1, <1>2
    <3> QED BY <1>2, <1>4, <1>5, <1>8, <3>1
  <2>2. strays = {o \in Offsets : o < a /\ Stray(f, ptr, o)}
    BY DEF Noted
  <2> QED BY <1>2, <2>1, <2>2
<1>10. Chosen(f, n, ptr) = Chosen(f, a, ptr)
  <2>1. \A o \in Offsets : f.obj[o].type = "data" /\ ptr[f.obj[o].key] = o => o # a /\ InUse(f.obj[o])
    BY <1>3, <1>5 DEF Stray, InUse
  <2>2. \A o \in Offsets : o < a => o < n
    BY <1>1, <1>2
  <2>3. \A o \in Offsets : f.obj[o].type = "data" /\ ptr[f.obj[o].key] = o =>
            (o < n <=> o < a)
    BY <1>4, <2>1, <2>2
  <2> QED BY <2>3 DEF Chosen
<1> QED BY <1>6, <1>7, <1>9, <1>10 DEF Noted

\* A place that is not in use gets the header of a free object.
LEMMA FilledDivided ==
    ASSUME NEW f, NEW z, Divided(f, z), NEW a \in DOMAIN z, Vacant(f.obj[a]),
           NEW g, IsFile(g), g.size = f.size, g.obj[a].type = "free", g.obj[a].size = z[a],
           \A o \in Offsets : a < o /\ o < a + z[a] => g.obj[o] = Junk,
           \A o \in Offsets : o # a /\ ~(a < o /\ o < a + z[a]) => g.obj[o] = f.obj[o]
    PROVE  Divided(g, z) /\ SameUse(f, g)
<1>1. PICK s : s = z[a]
  OBVIOUS
<1>2. /\ a \in Offsets /\ a \in Nat /\ s \in Nat /\ a + s <= f.size /\ f.size \in Nat
      /\ \A h \in DOMAIN z : h \in Offsets /\ h \in Nat /\ z[h] \in Nat
  BY <1>1, DividedSize
<1>3. \A o \in Offsets : o \in Nat
  BY OffsetsFinite
<1>4. \A h \in DOMAIN z : h # a => g.obj[h] = f.obj[h]
  <2>1. ASSUME NEW h \in DOMAIN z, h # a PROVE ~(a < h /\ h < a + z[a])
    <3>1. a < h => a <= h
      BY <1>2, <2>1
    <3> QED BY <2>1, <3>1, AloneInTile
  <2> QED BY <1>2, <2>1
<1>5. \A o \in Offsets : ~InUse(f.obj[o]) => ~InUse(g.obj[o])
  BY DEF InUse, Junk
<1>6. \A o \in Offsets : InUse(f.obj[o]) \/ InUse(g.obj[o]) => g.obj[o] = f.obj[o]
  <2>1. ASSUME NEW o \in Offsets, InUse(f.obj[o]) PROVE g.obj[o] = f.obj[o]
    <3>1. o \in DOMAIN z
      BY <2>1 DEF Divided
    <3>2. o # a
      BY <2>1 DEF InUse, Vacant
    <3> QED BY <1>4, <3>1, <3>2
  <2> QED BY <1>5, <2>1
<1>7. /\ g.size \in Sizes /\ g.size >= StartSize /\ Tiles(g.size, z)
      /\ 0 \in DOMAIN z /\ z[0] = 1 /\ g.obj[0].type = "meta"
  <2>1. f.obj[0].type = "meta" /\ 0 \in DOMAIN z
    BY DEF Divided
  <2>2. 0 # a
    BY <2>1 DEF Vacant
  <2> QED BY <1>4, <2>1, <2>2 DEF Divided
<1>8. \A h \in DOMAIN z : \/ g.obj[h].type \in {"free", "data", "meta"} /\ g.obj[h].size = z[h]
                          \/ g.obj[h].type = "blank" /\ 2 * h = g.size /\ z[h] = h
  <2>1. ASSUME NEW h \in DOMAIN z
        PROVE  \/ g.obj[h].type \in {"free", "data", "meta"} /\ g.obj[h].size = z[h]
               \/ g.obj[h].type = "blank" /\ 2 * h = g.size /\ z[h] = h
    <3>1. CASE h = a
      BY <3>1
    <3>2. CASE h # a
      BY <1>4, <3>2 DEF Divided
    <3> QED BY <3>1, <3>2
  <2> QED BY <2>1
<1>9. \A o \in Offsets \ DOMAIN z : ~InUse(g.obj[o])
  BY <1>5 DEF Divided
<1>10. ASSUME NEW h \in DOMAIN z, NEW o \in Offsets, InUse(g.obj[h]), h < o, o < h + z[h]
       PROVE  g.obj[o] = Junk
  <2>1. h \in Offsets /\ InUse(f.obj[h])
    BY <1>2, <1>6, <1>10
  <2>2. f.obj[o] = Junk
    BY <1>10, <2>1 DEF Divided
  <2>3. o # a
    BY <2>2 DEF Vacant, Junk
  <2> QED BY <2>2, <2>3
<1>11. \A o \in Offsets : o >= g.size => g.obj[o].type = "blank"
  <2>1. ASSUME NEW o \in Offsets, o >= f.size PROVE g.obj[o] = f.obj[o]
    <3>1. o # a /\ ~(a < o /\ o < a + s)
      BY <1>2, <1>3, <2>1, DividedSize
    <3> QED BY <1>1, <3>1
  <2> QED BY <2>1 DEF Divided
<1>12. \A h \in DOMAIN z, b \in DOMAIN z :
           Vacant(g.obj[h]) /\ Vacant(g.obj[b]) /\ z[h] = z[b] => b # Sibling(h, z[h])
  <2>1. \A h \in DOMAIN z : Vacant(g.obj[h]) => Vacant(f.obj[h])
    BY <1>4
  <2> QED BY <2>1 DEF Divided
<1>13. SameUse(f, g)
  BY <1>6 DEF SameUse
<1> QED BY <1>7, <1>8, <1>9, <1>10, <1>11, <1>12, <1>13 DEF Divided

\* The free objects that the loop has passed.
Passed(f, z, n) == {o \in FreeIn(f, z) : o < n}

\* The loop as it is at the object at w.at.
IsFound(w) ==
    w = [run |-> w.run, free |-> w.free, ptr |-> w.ptr, entries |-> w.entries,
         strays |-> w.strays, at |-> w.at]

\* What the loop has made of the objects before n: they are in the lists at
\* free if they are free, and the file still holds the same.
Walked(r, z, run, free, n) ==
    /\ Divided(run.file, z) /\ SameRoot(r.file, run.file) /\ SameUse(r.file, run.file)
    /\ run.file \in run.past
    /\ \A h \in run.past : h \in r.past \/ (Kin(r.file, h) /\ h.size = r.file.size)
    /\ \A o \in DOMAIN z : o < n => run.file.obj[o].type # "blank"
    /\ \A o \in Offsets \ DOMAIN z : o < n => run.file.obj[o] = Junk
    /\ free = [s \in Sizes |-> free[s]] /\ \A s \in Sizes : free[s] # End
    /\ Lists(free, run.file.obj, Passed(run.file, z, n))

\* The loop at an object, or at the end of the file.
Seen(r, z, w) ==
    /\ IsFound(w) /\ w.at \in Nat /\ w.at >= 1 /\ (w.at = r.file.size \/ w.at \in DOMAIN z)
    /\ Walked(r, z, w.run, w.free, w.at)
    /\ Noted(r.file, w.at, w.ptr, w.entries, w.strays)

\* Nothing changes at an object in use.
LEMMA WalkOn ==
    ASSUME NEW r, NEW z, NEW run, NEW free, NEW a \in DOMAIN z, Walked(r, z, run, free, a),
           InUse(run.file.obj[a]), NEW n, n = a + z[a]
    PROVE  Walked(r, z, run, free, n)
<1> DEFINE f == run.file
<1>1. /\ Divided(f, z)
      /\ \A o \in DOMAIN z : o < a => f.obj[o].type # "blank"
      /\ \A o \in Offsets \ DOMAIN z : o < a => f.obj[o] = Junk
      /\ Lists(free, f.obj, Passed(f, z, a))
  BY DEF Walked
<1>2. /\ a \in Nat /\ z[a] \in Nat /\ z[a] >= 1 /\ n \in Nat /\ a < n
      /\ \A o \in DOMAIN z : o \in Nat
  BY <1>1, DividedSize
<1>3. \A o \in Offsets : o \in Nat
  BY OffsetsFinite
<1>4. \A o \in DOMAIN z : o < n => o < a \/ o = a
  <2>1. ASSUME NEW o \in DOMAIN z, o < n, ~(o < a) PROVE o = a
    <3>1. a <= o /\ o < a + z[a]
      BY <1>2, <2>1
    <3> QED BY <1>1, <3>1, AloneInTile
  <2> QED BY <2>1
<1>5. \A o \in DOMAIN z : o < n => f.obj[o].type # "blank"
  BY <1>1, <1>4 DEF InUse
<1>6. \A o \in Offsets \ DOMAIN z : o < n => f.obj[o] = Junk
  <2>1. ASSUME NEW o \in Offsets \ DOMAIN z, o < n PROVE f.obj[o] = Junk
    <3>1. CASE o < a
      BY <1>1, <3>1
    <3>2. CASE a < o
      BY <1>1, <2>1, <3>2 DEF Divided
    <3> QED BY <1>2, <1>3, <2>1, <3>1, <3>2
  <2> QED BY <2>1
<1>7. Passed(f, z, n) = Passed(f, z, a)
  <2>1. \A o \in FreeIn(f, z) : o \in DOMAIN z /\ o # a
    BY DEF FreeIn, InUse
  <2>2. \A o \in FreeIn(f, z) : o < a => o < n
    BY <1>2, <2>1
  <2> QED BY <1>4, <2>1, <2>2 DEF Passed
<1> QED BY <1>1, <1>5, <1>6, <1>7 DEF Walked
\* The header of a free object at a, the first of the list for its size.
Fills(run, free, a, s, q, free2) ==
    /\ q = WriteObject(WritePrev(run, free[s], NextOf(a)), a, FreeObj(s, free[s], Root(s)))
    /\ free2 = [free EXCEPT ![s] = a]

\* The lists that the loop builds begin at an object it has passed.
LEMMA FirstPassed ==
    ASSUME NEW free, NEW obj, NEW F, Lists(free, obj, F), NEW s \in Sizes, free[s] # End
    PROVE  free[s] = 0 \/ (free[s] \in F /\ free[s] # 0)
<1>1. F \subseteq Offsets \ {0}
  BY DEF Lists
<1> QED BY <1>1 DEF Lists

\* One turn at a free object: it becomes the first of its list.
LEMMA WalkFill ==
    ASSUME NEW r, NEW z, NEW run, NEW free, NEW a \in DOMAIN z, Walked(r, z, run, free, a),
           Vacant(run.file.obj[a]), NEW s, s = z[a], NEW n, n = a + s,
           NEW q, NEW free2, Fills(run, free, a, s, q, free2)
    PROVE  Walked(r, z, q, free2, n)
<1> DEFINE f == run.file
<1> DEFINE F == Passed(f, z, a)
<1>1. /\ Divided(f, z) /\ IsFile(f) /\ f \in run.past /\ SameRoot(r.file, f) /\ SameUse(r.file, f)
      /\ \A o \in DOMAIN z : o < a => f.obj[o].type # "blank"
      /\ \A o \in Offsets \ DOMAIN z : o < a => f.obj[o] = Junk
      /\ Lists(free, f.obj, F)
      /\ free = [t \in Sizes |-> free[t]] /\ \A t \in Sizes : free[t] # End
  BY DEF Walked, Divided
<1>2. /\ a \in Nat /\ s \in Nat /\ s >= 1 /\ n \in Nat /\ a < n /\ s \in Sizes /\ a \in Offsets
      /\ \A o \in DOMAIN z : o \in Nat
  BY <1>1, DividedSize
<1>3. a # 0
  BY <1>1 DEF Divided, Vacant
<1>4. PICK first : first = free[s]
  OBVIOUS
<1>5. first = 0 \/ (first \in F /\ first # 0)
  BY <1>1, <1>2, <1>4, FirstPassed
<1>6. \A o \in F : o \in Offsets /\ o \in DOMAIN z /\ o < a /\ f.obj[o].type = "free"
  <2>1. F \subseteq Offsets
    BY <1>1 DEF Lists
  <2> QED BY <2>1 DEF Passed, FreeIn
<1>7. PICK w : w = WritePrev(run, first, NextOf(a))
  OBVIOUS
<1>8. first = 0 \/ first \in Offsets
  BY <1>5, <1>6
<1>9. /\ IsFile(w.file) /\ SameRoot(f, w.file) /\ w.file.free = f.free
      /\ first # 0 => w.file.obj[first] = FreeObj(f.obj[first].size, f.obj[first].next, NextOf(a))
      /\ \A o \in Offsets : first = 0 \/ o # first => w.file.obj[o] = f.obj[o]
      /\ w.past \subseteq run.past \cup {w.file}
  BY <1>1, <1>7, <1>8, WritePrevIs
<1>10. Alike(f, w.file)
  <2>1. ASSUME NEW o \in Offsets PROVE SameObj(f.obj[o], w.file.obj[o])
    <3>1. CASE first = 0 \/ o # first
      BY <1>9, <3>1 DEF SameObj
    <3>2. CASE ~(first = 0 \/ o # first)
      BY <1>5, <1>6, <1>9, <3>2, FreeObjIs DEF SameObj
    <3> QED BY <3>1, <3>2
  <2> QED BY <1>9, <2>1 DEF Alike
<1>11. Divided(w.file, z) /\ SameUse(f, w.file)
  BY <1>1, <1>10, AlikeDivided
<1>12. PICK x : x = FreeObj(s, first, Root(s))
  OBVIOUS
<1>13. x.size = s /\ x.type = "free" /\ x.next = first /\ x.prev = Root(s)
  BY <1>12, FreeObjIs
<1>14. q = WriteObject(w, a, x)
  BY <1>4, <1>7, <1>12 DEF Fills
<1>15. /\ IsFile(q.file) /\ SameRoot(w.file, q.file) /\ q.file.free = w.file.free
       /\ q.file.obj[a] = x
       /\ \A o \in Offsets : a < o /\ o < a + s => q.file.obj[o] = Junk
       /\ \A o \in Offsets : o # a /\ ~(a < o /\ o < a + s) => q.file.obj[o] = w.file.obj[o]
       /\ q.past = w.past \cup {q.file}
  BY <1>2, <1>9, <1>13, <1>14, WriteSized
<1>16. Vacant(w.file.obj[a])
  <2>1. SameObj(f.obj[a], w.file.obj[a])
    BY <1>2, <1>10 DEF Alike
  <2> QED BY <2>1 DEF SameObj, Vacant
<1>17. Divided(q.file, z) /\ SameUse(w.file, q.file)
  <2>1. q.file.size = w.file.size
    BY <1>15 DEF SameRoot
  <2>2. q.file.obj[a].type = "free" /\ q.file.obj[a].size = z[a]
    BY <1>13, <1>15
  <2>3. /\ \A o \in Offsets : a < o /\ o < a + z[a] => q.file.obj[o] = Junk
        /\ \A o \in Offsets : o # a /\ ~(a < o /\ o < a + z[a]) => q.file.obj[o] = w.file.obj[o]
    BY <1>15
  <2> QED BY <1>11, <1>15, <1>16, <2>1, <2>2, <2>3, FilledDivided
<1>18. SameRoot(r.file, w.file) /\ SameRoot(r.file, q.file)
  BY <1>1, <1>9, <1>15 DEF SameRoot
<1>19. SameUse(r.file, w.file) /\ SameUse(r.file, q.file)
  BY <1>1, <1>11, <1>17, SameUseTrans
<1>20. q.file \in q.past
  BY <1>15
<1>21. ASSUME NEW h \in q.past PROVE h \in r.past \/ (Kin(r.file, h) /\ h.size = r.file.size)
  <2>1. CASE h \in run.past
    BY <2>1 DEF Walked
  <2>2. CASE h = w.file
    BY <1>11, <1>18, <1>19, <2>2 DEF Kin, SameRoot, SameHead, Torn
  <2>3. CASE h = q.file
    BY <1>17, <1>18, <1>19, <2>3 DEF Kin, SameRoot, SameHead, Torn
  <2> QED BY <1>9, <1>15, <2>1, <2>2, <2>3
\* Before a nothing has changed but a link.
<1>22. \A o \in Offsets : o < a => SameObj(f.obj[o], q.file.obj[o])
  <2>1. ASSUME NEW o \in Offsets, o < a PROVE o # a /\ ~(a < o /\ o < a + s)
    <3>1. o \in Nat
      BY OffsetsFinite
    <3> QED BY <1>2, <2>1, <3>1
  <2>2. \A o \in Offsets : SameObj(f.obj[o], w.file.obj[o])
    BY <1>10 DEF Alike
  <2> QED BY <1>15, <2>1, <2>2
<1>23. \A o \in DOMAIN z : o < n => o < a \/ o = a
  <2>1. ASSUME NEW o \in DOMAIN z, o < n, ~(o < a) PROVE o = a
    <3>1. a <= o /\ o < a + z[a]
      BY <1>2, <2>1
    <3> QED BY <1>1, <3>1, AloneInTile
  <2> QED BY <2>1
<1>24. \A o \in DOMAIN z : o < n => q.file.obj[o].type # "blank"
  <2>1. ASSUME NEW o \in DOMAIN z, o < a PROVE q.file.obj[o].type # "blank"
    <3>1. o \in Offsets
      BY <1>1, DividedSize
    <3>2. SameObj(f.obj[o], q.file.obj[o])
      BY <1>22, <2>1, <3>1
    <3> QED BY <1>1, <2>1, <3>2 DEF SameObj
  <2> QED BY <1>13, <1>15, <1>23, <2>1
<1>25. \A o \in Offsets \ DOMAIN z : o < n => q.file.obj[o] = Junk
  <2>1. ASSUME NEW o \in Offsets \ DOMAIN z, o < n PROVE q.file.obj[o] = Junk
    <3>1. CASE o < a
      <4>1. f.obj[o] = Junk
        BY <1>1, <3>1
      <4>2. SameObj(f.obj[o], q.file.obj[o])
        BY <1>22, <3>1
      <4> QED BY <4>1, <4>2 DEF SameObj, Junk
    <3>2. CASE ~(o < a)
      <4>1. o \in Nat /\ o # a
        BY OffsetsFinite
      <4>2. a < o /\ o < a + s
        BY <1>2, <2>1, <3>2, <4>1
      <4> QED BY <1>15, <4>2
    <3> QED BY <3>1, <3>2
  <2> QED BY <2>1
<1>26. a \notin F
  BY <1>2 DEF Passed
<1>27. Passed(q.file, z, n) = F \cup {a}
  <2>1. ASSUME NEW o \in DOMAIN z
        PROVE  q.file.obj[o].type = "free" /\ o < n <=> (f.obj[o].type = "free" /\ o < a) \/ o = a
    <3>1. CASE o = a
      BY <1>2, <1>13, <1>15, <3>1
    <3>2. CASE o # a /\ o < a
      <4>1. o < n
        BY <1>2, <3>2
      <4>2. o \in Offsets
        BY <1>1, DividedSize
      <4>3. SameObj(f.obj[o], q.file.obj[o])
        BY <1>22, <3>2, <4>2
      <4> QED BY <3>2, <4>1, <4>3 DEF SameObj
    <3>3. CASE o # a /\ ~(o < a)
      BY <1>23, <3>3
    <3> QED BY <3>1, <3>2, <3>3
  <2>2. \A o : o \in Passed(q.file, z, n) <=> o \in DOMAIN z /\ q.file.obj[o].type = "free" /\ o < n
    BY DEF Passed, FreeIn
  <2>3. \A o : o \in F <=> o \in DOMAIN z /\ f.obj[o].type = "free" /\ o < a
    BY DEF Passed, FreeIn
  <2> QED BY <2>1, <2>2, <2>3
<1>28. free2 = [t \in Sizes |-> free2[t]] /\ free2[s] = a /\ \A t \in Sizes : t # s => free2[t] = free[t]
  BY <1>1, <1>2 DEF Fills
<1>29. \A t \in Sizes : free2[t] # End
  <2>1. a # End
    BY <1>2 DEF End
  <2> QED BY <1>1, <1>28, <2>1
<1>30. Pushes(free, f.obj, F, s, a, first, free2, q.file.obj)
  <2>1. \A o \in F : o # first => q.file.obj[o] = f.obj[o]
    <3>1. ASSUME NEW o \in F, o # first PROVE q.file.obj[o] = f.obj[o]
      <4>1. o \in Offsets /\ o < a /\ o \in Nat
        BY <1>6, OffsetsFinite
      <4>2. o # a /\ ~(a < o /\ o < a + s)
        BY <1>2, <4>1
      <4> QED BY <1>9, <1>15, <3>1, <4>1, <4>2
    <3> QED BY <3>1
  <2>2. first \in F => /\ q.file.obj[first].size = f.obj[first].size
                       /\ q.file.obj[first].next = f.obj[first].next
                       /\ q.file.obj[first].prev = a
    <3>1. SUFFICES ASSUME first \in F
                   PROVE  q.file.obj[first] = FreeObj(f.obj[first].size, f.obj[first].next, a)
      BY FreeObjIs
    <3>2. first \in Offsets /\ first < a /\ first \in Nat
      BY <1>6, <3>1, OffsetsFinite
    <3>3. first # a /\ ~(a < first /\ first < a + s)
      BY <1>2, <3>2
    <3>4. first # 0
      BY <1>1, <3>1 DEF Lists
    <3> QED BY <1>9, <1>15, <3>2, <3>3, <3>4 DEF NextOf
  <2>3. /\ \A o \in F : q.file.obj[o].size = f.obj[o].size /\ q.file.obj[o].next = f.obj[o].next
        /\ \A o \in F : o # first => q.file.obj[o].prev = f.obj[o].prev
    BY <2>1, <2>2
  <2>4. free[s] \in {0, End} => first = 0
    BY <1>1, <1>2, <1>4
  <2>5. free[s] \notin {0, End} => first = free[s]
    BY <1>4
  <2> HIDE DEF F
  <2> QED BY <1>2, <1>3, <1>13, <1>15, <1>26, <1>28, <2>2, <2>3, <2>4, <2>5 DEF Pushes
<1>31. Lists(free2, q.file.obj, Passed(q.file, z, n))
  BY <1>1, <1>27, <1>30, ListsPush
<1> QED BY <1>17, <1>18, <1>19, <1>20, <1>21, <1>24, <1>25, <1>28, <1>29, <1>31 DEF Walked

\* One turn of the loop, by its cases.
VisitFills(w, u, a, s) ==
    /\ Fills(w.run, w.free, a, s, u.run, u.free)
    /\ u.ptr = w.ptr /\ u.entries = w.entries /\ u.strays = w.strays

\* A turn that writes nothing.
VisitKeeps(w, u) == u.run = w.run /\ u.free = w.free

\* A turn, from w to u, at the object a of size s.
Visits(w, a, f, s, u) ==
    /\ IsFound(w) /\ a = w.at /\ f = w.run.file /\ s = SizeAt(f, a) /\ u = Visit(w)
    /\ f.obj[a].type \in {"blank", "free", "data", "meta"}

\* What the turn does, by what the object is.
VisitDoes(w, a, f, s, u) ==
    /\ IsFound(u) /\ u.at = a + s
    /\ Vacant(f.obj[a]) => VisitFills(w, u, a, s)
    /\ f.obj[a].type = "data" /\ w.ptr[f.obj[a].key] = 0 =>
           /\ VisitKeeps(w, u) /\ u.ptr = [w.ptr EXCEPT ![f.obj[a].key] = a]
           /\ u.entries = w.entries + 1 /\ u.strays = w.strays
    /\ (f.obj[a].type = "data" /\ w.ptr[f.obj[a].key] # 0) \/ (f.obj[a].type = "meta" /\ a # f.hm) =>
           /\ VisitKeeps(w, u) /\ u.ptr = w.ptr
           /\ u.entries = w.entries /\ u.strays = w.strays \cup {a}
    /\ f.obj[a].type = "meta" /\ a = f.hm =>
           /\ VisitKeeps(w, u) /\ u.ptr = w.ptr
           /\ u.entries = w.entries /\ u.strays = w.strays

\* One turn, by what the object is.
LEMMA VisitIs ==
    ASSUME NEW w, NEW a, NEW f, NEW s, NEW u, Visits(w, a, f, s, u)
    PROVE  VisitDoes(w, a, f, s, u)
<1> USE DEF Visits, VisitDoes
<1> DEFINE next == [w EXCEPT !.at = a + s]
<1>1. next = [run |-> w.run, free |-> w.free, ptr |-> w.ptr, entries |-> w.entries,
              strays |-> w.strays, at |-> a + s]
  BY DEF IsFound
<1>2. PICK x : x = f.obj[a]
  OBVIOUS
<1>3. x.type \in {"blank", "free", "data", "meta"}
  BY <1>2
<1>4. CASE x.type \in {"blank", "free"}
  <2>1. u = [next EXCEPT
                !.run = WriteObject(WritePrev(@, w.free[s], NextOf(a)), a,
                                    FreeObj(s, w.free[s], Root(s))),
                !.free[s] = a]
    BY <1>2, <1>4 DEF Visit
  <2>2. u = [run |-> WriteObject(WritePrev(w.run, w.free[s], NextOf(a)), a,
                                 FreeObj(s, w.free[s], Root(s))),
             free |-> [w.free EXCEPT ![s] = a], ptr |-> w.ptr, entries |-> w.entries,
             strays |-> w.strays, at |-> a + s]
    <3> HIDE DEF next
    <3> QED BY <1>1, <2>1
  <2>3. IsFound(u) /\ u.at = a + s /\ VisitFills(w, u, a, s)
    <3>1. PICK t, m : /\ t = WriteObject(WritePrev(w.run, w.free[s], NextOf(a)), a,
                                        FreeObj(s, w.free[s], Root(s)))
                      /\ m = [w.free EXCEPT ![s] = a]
      OBVIOUS
    <3>2. u = [run |-> t, free |-> m, ptr |-> w.ptr, entries |-> w.entries,
               strays |-> w.strays, at |-> a + s]
      BY <2>2, <3>1
    <3>3. /\ u.run = t /\ u.free = m /\ u.ptr = w.ptr /\ u.entries = w.entries
          /\ u.strays = w.strays /\ u.at = a + s /\ IsFound(u)
      BY ONLY <3>2 DEF IsFound
    <3> QED BY ONLY <3>1, <3>3 DEF VisitFills, Fills
  <2> QED BY <1>2, <1>4, <2>3
<1>5. CASE x.type = "data" /\ w.ptr[x.key] = 0
  <2>1. u = [next EXCEPT !.ptr[x.key] = a, !.entries = @ + 1]
    BY <1>2, <1>5 DEF Visit
  <2>2. u = [run |-> w.run, free |-> w.free, ptr |-> [w.ptr EXCEPT ![x.key] = a],
             entries |-> w.entries + 1, strays |-> w.strays, at |-> a + s]
    <3> HIDE DEF next
    <3> QED BY <1>1, <2>1
  <2>3. /\ IsFound(u) /\ u.at = a + s /\ VisitKeeps(w, u)
        /\ u.ptr = [w.ptr EXCEPT ![x.key] = a] /\ u.entries = w.entries + 1 /\ u.strays = w.strays
    BY <2>2 DEF IsFound, VisitKeeps
  <2> QED BY <1>2, <1>5, <2>3 DEF Vacant
<1>6. CASE (x.type = "data" /\ w.ptr[x.key] # 0) \/ (x.type = "meta" /\ a # f.hm)
  <2>1. u = [next EXCEPT !.strays = @ \cup {a}]
    <3>1. CASE x.type = "data" /\ w.ptr[x.key] # 0
      BY <1>2, <3>1 DEF Visit
    <3>2. CASE x.type = "meta" /\ a # f.hm
      BY <1>2, <3>2 DEF Visit
    <3> QED BY <1>6, <3>1, <3>2
  <2>2. u = [run |-> w.run, free |-> w.free, ptr |-> w.ptr, entries |-> w.entries,
             strays |-> w.strays \cup {a}, at |-> a + s]
    <3> HIDE DEF next
    <3> QED BY <1>1, <2>1
  <2>3. /\ IsFound(u) /\ u.at = a + s /\ VisitKeeps(w, u)
        /\ u.ptr = w.ptr /\ u.entries = w.entries /\ u.strays = w.strays \cup {a}
    BY <2>2 DEF IsFound, VisitKeeps
  <2> QED BY <1>2, <1>6, <2>3 DEF Vacant
<1>7. CASE x.type = "meta" /\ a = f.hm
  <2>1. u = next
    BY <1>2, <1>7 DEF Visit
  <2>2. /\ IsFound(u) /\ u.at = a + s /\ VisitKeeps(w, u)
        /\ u.ptr = w.ptr /\ u.entries = w.entries /\ u.strays = w.strays
    <3> HIDE DEF next
    <3> QED BY <1>1, <2>1 DEF IsFound, VisitKeeps
  <2> QED BY <1>2, <1>7, <2>2 DEF Vacant
<1> QED BY <1>3, <1>4, <1>5, <1>6, <1>7

\* The loop finds the size of each object, that of the one behind the old end
\* too.
LEMMA SizeAtIs ==
    ASSUME NEW f, NEW z, Divided(f, z), NEW a \in DOMAIN z
    PROVE  SizeAt(f, a) = z[a] /\ f.obj[a].type \in {"blank", "free", "data", "meta"}
<1>1. \/ f.obj[a].type \in {"free", "data", "meta"} /\ f.obj[a].size = z[a]
      \/ f.obj[a].type = "blank" /\ z[a] = a
  BY DEF Divided
<1>2. CASE f.obj[a].type \in {"free", "data", "meta"} /\ f.obj[a].size = z[a]
  BY <1>2 DEF SizeAt
<1>3. CASE f.obj[a].type = "blank" /\ z[a] = a
  <2>1. a \in Sizes
    BY <1>3, DividedSize
  <2> QED BY <1>3, <2>1, LowestBitIs DEF SizeAt
<1> QED BY <1>1, <1>2, <1>3

\* A turn goes on.
Advances(r, z, w, u) ==
    Seen(r, z, u) /\ u.at > w.at

\* One turn goes on to the next object and knows of one object more.
LEMMA VisitSeen ==
    ASSUME NEW r, NEW z, NEW w, Seen(r, z, w), w.at < r.file.size, NEW e, Single(r.file, e)
    PROVE  Advances(r, z, w, Visit(w))
<1> DEFINE f == w.run.file
<1>1. PICK a : a = w.at
  OBVIOUS
<1>2. PICK u : u = Visit(w)
  OBVIOUS
<1>3. /\ IsFound(w) /\ a \in Nat /\ a >= 1 /\ a \in DOMAIN z
      /\ Walked(r, z, w.run, w.free, a) /\ Noted(r.file, a, w.ptr, w.entries, w.strays)
  <2>1. w.at \in Nat /\ r.file.size \in Nat
    <3>1. Divided(f, z) /\ f.size = r.file.size
      BY DEF Seen, Walked, SameRoot
    <3> QED BY <3>1, DividedSize DEF Seen
  <2>2. w.at # r.file.size
    BY <2>1
  <2> QED BY <1>1, <2>2 DEF Seen
<1>4. Divided(f, z) /\ SameRoot(r.file, f) /\ SameUse(r.file, f)
  BY <1>3 DEF Walked
<1>5. /\ z[a] \in Nat /\ z[a] >= 1 /\ a \in Offsets /\ a + z[a] <= f.size /\ f.size \in Nat
      /\ \A o \in DOMAIN z : o \in Nat
  BY <1>3, <1>4, DividedSize
<1>6. PICK s : s = z[a]
  OBVIOUS
<1>7. s = SizeAt(f, a) /\ f.obj[a].type \in {"blank", "free", "data", "meta"}
  BY <1>3, <1>4, <1>6, SizeAtIs
<1>8. PICK n : n = a + s
  OBVIOUS
<1>9. n \in Nat /\ n > a /\ n >= 1
  BY <1>3, <1>5, <1>6, <1>8
<1>10. n = r.file.size \/ n \in DOMAIN z
  <2>1. Tiles(f.size, z) /\ f.size = r.file.size
    BY <1>4 DEF Divided, SameRoot
  <2> QED BY <1>3, <1>5, <1>6, <1>8, <2>1, NextTile
<1>11. OneAhead(r.file, a, n)
  <2>1. ASSUME NEW o \in Offsets, a < o, o < n, InUse(r.file.obj[o]) PROVE FALSE
    <3>1. InUse(f.obj[o])
      BY <1>4, <2>1 DEF SameUse
    <3>2. o \in DOMAIN z
      BY <1>4, <3>1 DEF Divided
    <3>3. o \in Nat
      BY <1>5, <3>2
    <3>4. a <= o /\ o < a + z[a] /\ o # a
      BY <1>3, <1>6, <1>8, <2>1, <3>3
    <3> QED BY <1>3, <1>4, <3>2, <3>4, AloneInTile
  <2>2. a # 0
    BY <1>3
  <2> QED BY <1>5, <1>9, <2>1, <2>2 DEF OneAhead, Single
<1>12. InUse(f.obj[a]) => f.obj[a] = r.file.obj[a]
  BY <1>4, <1>5 DEF SameUse
<1>13. Vacant(f.obj[a]) => ~InUse(r.file.obj[a])
  <2>1. InUse(r.file.obj[a]) => r.file.obj[a] = f.obj[a]
    BY <1>4, <1>5 DEF SameUse
  <2> QED BY <2>1 DEF Vacant, InUse
<1>14. f.hm = r.file.hm
  BY <1>4 DEF SameRoot
<1>15. /\ IsFound(u) /\ u.at = n
       /\ Vacant(f.obj[a]) => VisitFills(w, u, a, s)
       /\ f.obj[a].type = "data" /\ w.ptr[f.obj[a].key] = 0 =>
              /\ VisitKeeps(w, u) /\ u.ptr = [w.ptr EXCEPT ![f.obj[a].key] = a]
              /\ u.entries = w.entries + 1 /\ u.strays = w.strays
       /\ (f.obj[a].type = "data" /\ w.ptr[f.obj[a].key] # 0) \/ (f.obj[a].type = "meta" /\ a # f.hm) =>
              /\ VisitKeeps(w, u) /\ u.ptr = w.ptr
              /\ u.entries = w.entries /\ u.strays = w.strays \cup {a}
       /\ f.obj[a].type = "meta" /\ a = f.hm =>
              /\ VisitKeeps(w, u) /\ u.ptr = w.ptr
              /\ u.entries = w.entries /\ u.strays = w.strays
  <2>1. Visits(w, a, f, s, u)
    BY <1>1, <1>2, <1>3, <1>7 DEF Visits
  <2>2. VisitDoes(w, a, f, s, u)
    BY ONLY <2>1, VisitIs
  <2> QED BY ONLY <1>8, <2>2 DEF VisitDoes
<1>16. SUFFICES /\ Walked(r, z, u.run, u.free, n)
                /\ Noted(r.file, n, u.ptr, u.entries, u.strays)
  BY <1>1, <1>2, <1>9, <1>10, <1>15 DEF Advances, Seen
<1>17. CASE Vacant(f.obj[a])
  <2>1. VisitFills(w, u, a, s)
    BY <1>15, <1>17
  <2>2. Fills(w.run, w.free, a, s, u.run, u.free)
    BY <2>1 DEF VisitFills
  <2>3. Walked(r, z, u.run, u.free, n)
    BY <1>3, <1>6, <1>8, <1>17, <2>2, WalkFill
  <2>4. Noted(r.file, n, w.ptr, w.entries, w.strays)
    BY <1>3, <1>11, <1>13, <1>17, NotedNothing
  <2> QED BY <2>1, <2>3, <2>4 DEF VisitFills
<1>18. InUse(f.obj[a]) => Walked(r, z, w.run, w.free, n)
  BY <1>3, <1>6, <1>8, WalkOn
<1>19. CASE f.obj[a].type = "data" /\ w.ptr[f.obj[a].key] = 0
  <2>1. InUse(f.obj[a])
    BY <1>19 DEF InUse
  <2>2. r.file.obj[a].type = "data" /\ w.ptr[r.file.obj[a].key] = 0
    BY <1>12, <1>19, <2>1
  <2>3. /\ VisitKeeps(w, u) /\ u.ptr = [w.ptr EXCEPT ![r.file.obj[a].key] = a]
        /\ u.entries = w.entries + 1 /\ u.strays = w.strays
    BY <1>12, <1>15, <1>19, <2>1
  <2>4. Noted(r.file, n, u.ptr, w.entries + 1, w.strays)
    BY <1>3, <1>11, <2>2, <2>3, NotedFirst
  <2> QED BY <1>18, <2>1, <2>3, <2>4 DEF VisitKeeps
<1>20. CASE (f.obj[a].type = "data" /\ w.ptr[f.obj[a].key] # 0) \/ (f.obj[a].type = "meta" /\ a # f.hm)
  <2>1. InUse(f.obj[a])
    BY <1>20 DEF InUse
  <2>2. \/ r.file.obj[a].type = "data" /\ w.ptr[r.file.obj[a].key] # 0
        \/ r.file.obj[a].type = "meta" /\ a # r.file.hm
    BY <1>12, <1>14, <1>20, <2>1
  <2>3. /\ VisitKeeps(w, u) /\ u.ptr = w.ptr
        /\ u.entries = w.entries /\ u.strays = w.strays \cup {a}
    BY <1>15, <1>20
  <2>4. Noted(r.file, n, w.ptr, w.entries, u.strays)
    BY <1>3, <1>11, <2>2, <2>3, NotedStray
  <2> QED BY <1>18, <2>1, <2>3, <2>4 DEF VisitKeeps
<1>21. CASE f.obj[a].type = "meta" /\ a = f.hm
  <2>1. InUse(f.obj[a])
    BY <1>21 DEF InUse
  <2>2. r.file.obj[a].type = "meta" /\ a = r.file.hm
    BY <1>12, <1>14, <1>21, <2>1
  <2>3. /\ VisitKeeps(w, u) /\ u.ptr = w.ptr
        /\ u.entries = w.entries /\ u.strays = w.strays
    BY <1>15, <1>21
  <2>4. Noted(r.file, n, w.ptr, w.entries, w.strays)
    BY <1>3, <1>11, <2>2, NotedNothing
  <2> QED BY <1>18, <2>1, <2>3, <2>4 DEF VisitKeeps
<1> QED BY <1>7, <1>17, <1>19, <1>20, <1>21 DEF Vacant

\* Before the first turn it knows of none.
LEMMA BegunSeen ==
    ASSUME NEW r, r.file \in r.past, NEW z, Divided(r.file, z), NEW e, Single(r.file, e)
    PROVE  Seen(r, z, Begun(r))
<1> DEFINE f == r.file
<1> DEFINE free0 == [s \in Sizes |-> 0]
<1>1. /\ f.obj[0].type = "meta" /\ 0 \in DOMAIN z /\ z[0] = 1 /\ Tiles(f.size, z)
      /\ f.size \in Nat /\ 0 \in Offsets /\ \A o \in DOMAIN z : o \in Nat
  BY DividedSize, OffsetsFinite DEF Divided
<1>2. 1 = f.size \/ 1 \in DOMAIN z
  <2>1. 0 + z[0] = f.size \/ 0 + z[0] \in DOMAIN z
    BY <1>1, NextTile
  <2> QED BY <1>1, <2>1
<1>3. \A o \in Offsets : o < 1 <=> o = 0
  BY OffsetsFinite
<1>4. \A o \in DOMAIN z : o < 1 => o = 0
  BY <1>1
<1>5. Passed(f, z, 1) = {}
  BY <1>1, <1>4 DEF Passed, FreeIn
<1>6. Lists(free0, f.obj, {})
  BY DEF Lists
<1>7. Walked(r, z, r, free0, 1)
  <2>1. SameRoot(f, f) /\ SameUse(f, f)
    BY DEF SameRoot, SameUse
  <2>2. \A o \in DOMAIN z : o < 1 => f.obj[o].type # "blank"
    BY <1>1, <1>4
  <2>3. \A o \in Offsets \ DOMAIN z : o < 1 => f.obj[o] = Junk
    BY <1>1, <1>3
  <2>4. free0 = [s \in Sizes |-> free0[s]] /\ \A s \in Sizes : free0[s] # End
    BY DEF End
  <2> HIDE DEF free0
  <2> QED BY <1>5, <1>6, <2>1, <2>2, <2>3, <2>4 DEF Walked
<1>8. Noted(f, 1, NoPtrs, 0, {})
  <2>1. NoPtrs \in [Keys -> Offsets] /\ \A k \in Keys : NoPtrs[k] = 0
    BY <1>1 DEF NoPtrs
  <2>2. ASSUME NEW k \in Keys, NEW o \in KeyAt(f, k) PROVE o >= 1
    <3>1. o \in Nat /\ o # 0
      BY <1>1, OffsetsFinite DEF KeyAt
    <3> QED BY <3>1
  <2>3. \A o \in Offsets : ~(o < 1 /\ Stray(f, NoPtrs, o))
    BY <1>1, <1>3 DEF Stray
  <2>4. Chosen(f, 1, NoPtrs) = {}
    BY <1>1, <1>3 DEF Chosen
  <2>5. Cardinality({}) = 0
    BY FS_EmptySet
  <2> QED BY <2>1, <2>2, <2>3, <2>4, <2>5 DEF Noted
<1>9. /\ IsFound(Begun(r)) /\ Begun(r).run = r /\ Begun(r).free = free0 /\ Begun(r).ptr = NoPtrs
      /\ Begun(r).entries = 0 /\ Begun(r).strays = {} /\ Begun(r).at = 1
  BY DEF Begun, IsFound
<1> HIDE DEF free0
<1> QED BY <1>2, <1>7, <1>8, <1>9 DEF Seen

\* Every turn gets further, until the loop is at the end.
LEMMA ScanSeen ==
    ASSUME NEW r, r.file \in r.past, NEW z, Divided(r.file, z), NEW e, Single(r.file, e),
           NEW n, n = r.file.size, NEW t, Scan(t, r, n)
    PROVE  Seen(r, z, t[n]) /\ t[n].at = n
<1> DEFINE Far(i) == Seen(r, z, t[i]) /\ (t[i].at > i \/ t[i].at = n)
<1>1. n \in Nat
  BY DividedSize
<1>2. ASSUME NEW w, Seen(r, z, w) PROVE w.at \in Nat /\ w.at <= n
  <2>1. w.at \in Nat /\ Divided(w.run.file, z) /\ w.run.file.size = n /\ (w.at = n \/ w.at \in DOMAIN z)
    BY <1>2 DEF Seen, Walked, SameRoot
  <2>2. w.at \in DOMAIN z => w.at < n
    BY <2>1, DividedSize
  <2> QED BY <1>1, <2>1, <2>2
<1>3. Far(0)
  <2>1. t[0] = Begun(r) /\ Begun(r).at = 1
    BY <1>1 DEF Scan, Begun
  <2>2. Seen(r, z, t[0])
    BY <2>1, BegunSeen
  <2> QED BY <2>1, <2>2
<1>4. ASSUME NEW i \in 0..n, i # 0, Far(i - 1) PROVE Far(i)
  <2>1. PICK w : w = t[i - 1]
    OBVIOUS
  <2>2. t[i] = IF w.at < n THEN Visit(w) ELSE w
    <3>1. \A j \in 0..n : j # 0 =>
              t[j] = IF t[j - 1].at < n THEN Visit(t[j - 1]) ELSE t[j - 1]
      BY DEF Scan
    <3> QED BY <1>4, <2>1, <3>1
  <2>3. Seen(r, z, w) /\ (w.at > i - 1 \/ w.at = n)
    BY <1>4, <2>1
  <2>4. w.at \in Nat /\ w.at <= n
    BY <1>2, <2>3
  <2>5. CASE w.at < n
    <3>1. Advances(r, z, w, Visit(w))
      BY <2>3, <2>5, VisitSeen
    <3>2. t[i] = Visit(w)
      BY <2>2, <2>5
    <3>3. Seen(r, z, t[i]) /\ t[i].at > w.at
      BY <3>1, <3>2 DEF Advances
    <3>4. t[i].at \in Nat /\ t[i].at <= n
      BY <1>2, <3>3
    <3>5. w.at > i - 1
      BY <1>1, <2>3, <2>4, <2>5
    <3>6. t[i].at > i
      BY <1>1, <2>4, <3>3, <3>4, <3>5
    <3> QED BY <3>3, <3>6
  <2>6. CASE ~(w.at < n)
    <3>1. w.at = n
      BY <1>1, <2>4, <2>6
    <3>2. t[i] = w
      BY <2>2, <2>6
    <3> QED BY <2>3, <3>1, <3>2
  <2> QED BY <2>5, <2>6
<1>5. \A i \in 0..n : Far(i)
  <2> DEFINE T == {i \in 0..n : ~Far(i)}
  <2>1. ASSUME T # {} PROVE FALSE
    <3>1. T \in SUBSET Nat
      OBVIOUS
    <3>2. PICK m \in T : \A i \in T : m <= i
      <4> HIDE DEF T
      <4> QED BY <2>1, <3>1, LeastOfNat
    <3>3. m \in 0..n /\ ~Far(m)
      OBVIOUS
    <3>4. m # 0
      <4> HIDE DEF Far
      <4> QED BY <1>3, <3>3
    <3>5. PICK h : h = m - 1
      OBVIOUS
    <3>6. h \in 0..n /\ ~(m <= h)
      BY <1>1, <3>3, <3>4, <3>5
    <3>7. Far(h)
      <4>1. h \notin T
        <5> HIDE DEF T
        <5> QED BY <3>2, <3>6
      <4> HIDE DEF Far
      <4> QED BY <3>6, <4>1
    <3> HIDE DEF Far
    <3> QED BY <1>4, <3>3, <3>4, <3>5, <3>7
  <2> HIDE DEF Far
  <2> QED BY <2>1
<1>6. Seen(r, z, t[n]) /\ (t[n].at > n \/ t[n].at = n)
  BY <1>1, <1>5
<1>7. t[n].at \in Nat /\ t[n].at <= n
  BY <1>2, <1>6
<1> QED BY <1>1, <1>6, <1>7

\* What the loop has in the end.
Complete(f, w) ==
    /\ w.at = f.size /\ w.ptr \in [Keys -> Offsets] /\ w.ptr = [k \in Keys |-> Kept(f, k)]
    /\ \A k \in Keys : /\ w.ptr[k] = 0 => KeyAt(f, k) = {}
                       /\ w.ptr[k] # 0 => w.ptr[k] \in KeyAt(f, k)
    /\ w.strays = {o \in Offsets : Stray(f, w.ptr, o)}
    /\ w.entries = Cardinality({o \in DataIn(f) : w.ptr[f.obj[o].key] = o})
    /\ \A x \in w.strays, y \in w.strays : x = y

\* Whatever is too many is too many for the object e.
LEMMA OneStrayIs ==
    ASSUME NEW f, NEW e, Single(f, e), NEW ptr, \A k \in Keys : ptr[k] = Kept(f, k),
           NEW x \in Offsets, NEW y \in Offsets, Stray(f, ptr, x), Stray(f, ptr, y)
    PROVE  x = y
<1>1. ASSUME NEW o \in Offsets, Stray(f, ptr, o), o # e
      PROVE  /\ f.obj[o].type = "data" /\ f.obj[o].key \in Keys
             /\ e = ptr[f.obj[o].key] /\ e \in KeyAt(f, f.obj[o].key)
  <2>1. f.obj[o].type = "data" /\ ptr[f.obj[o].key] # o
    BY <1>1 DEF Stray, Single
  <2>2. PICK k : k = f.obj[o].key
    OBVIOUS
  <2>3. k \in Keys
    BY <2>1, <2>2 DEF Single
  <2>4. o \in KeyAt(f, k)
    BY <2>1, <2>2 DEF KeyAt
  <2>5. PICK p : p = ptr[k]
    OBVIOUS
  <2>6. p \in KeyAt(f, k) /\ p # o
    BY <2>1, <2>2, <2>3, <2>4, <2>5, KeptIs
  <2>7. p = e
    BY <1>1, <2>1, <2>2, <2>6 DEF Single, KeyAt
  <2> QED BY <2>1, <2>2, <2>3, <2>5, <2>6, <2>7
<1>2. ASSUME NEW a \in Offsets, NEW b \in Offsets, Stray(f, ptr, a), Stray(f, ptr, b), a = e, b # e
      PROVE  FALSE
  <2>1. e = ptr[f.obj[b].key] /\ e \in KeyAt(f, f.obj[b].key)
    BY <1>1, <1>2
  <2>2. f.obj[e].type = "data" /\ f.obj[e].key = f.obj[b].key
    BY <2>1 DEF KeyAt
  <2> QED BY <1>2, <2>1, <2>2 DEF Stray
<1>3. ASSUME x # e, y # e PROVE x = y
  <2>1. /\ f.obj[x].type = "data" /\ e \in KeyAt(f, f.obj[x].key)
        /\ f.obj[y].type = "data" /\ e \in KeyAt(f, f.obj[y].key)
    BY <1>1, <1>3
  <2>2. f.obj[x].key = f.obj[y].key
    BY <2>1 DEF KeyAt
  <2> QED BY <1>3, <2>1, <2>2 DEF Single
<1> QED BY <1>2, <1>3

\* At the end of the file it knows of all.
LEMMA SeenComplete ==
    ASSUME NEW r, NEW z, Divided(r.file, z), NEW e, Single(r.file, e), NEW w, Seen(r, z, w),
           w.at = r.file.size
    PROVE  Complete(r.file, w)
<1> DEFINE f == r.file
<1> DEFINE p == w.ptr
<1>1. Noted(f, f.size, p, w.entries, w.strays)
  BY DEF Seen
<1>2. ASSUME NEW o \in Offsets, InUse(f.obj[o]) PROVE o < f.size
  <2>1. o \in DOMAIN z
    BY <1>2 DEF Divided
  <2> QED BY <2>1, DividedSize
<1>3. f.size \in Nat
  BY DividedSize
<1>4. ASSUME NEW k \in Keys
      PROVE  p[k] = Kept(f, k) /\ (p[k] = 0 => KeyAt(f, k) = {}) /\ (p[k] # 0 => p[k] \in KeyAt(f, k))
  <2>1. CASE p[k] = 0
    <3>1. ASSUME NEW o \in KeyAt(f, k) PROVE FALSE
      <4>1. o \in Offsets /\ o \in Nat /\ InUse(f.obj[o])
        BY OffsetsFinite DEF KeyAt, InUse
      <4>2. o < f.size
        BY <1>2, <4>1
      <4>3. o >= f.size
        BY <1>1, <2>1 DEF Noted
      <4> QED BY <1>3, <4>1, <4>2, <4>3
    <3> QED BY <2>1, <3>1, KeptIs
  <2>2. CASE p[k] # 0
    <3>1. p[k] \in KeyAt(f, k) /\ \A o \in KeyAt(f, k) : p[k] <= o
      BY <1>1, <2>2 DEF Noted
    <3>2. Kept(f, k) \in KeyAt(f, k) /\ Kept(f, k) <= p[k]
      BY <3>1, KeptIs
    <3>3. Kept(f, k) \in Nat /\ p[k] \in Nat
      BY <3>1, <3>2, OffsetsFinite DEF KeyAt
    <3> QED BY <2>2, <3>1, <3>2, <3>3
  <2> QED BY <2>1, <2>2
<1>5. p \in [Keys -> Offsets]
  BY <1>1 DEF Noted
<1>6. p = [k \in Keys |-> Kept(f, k)]
  BY <1>4, <1>5
<1>7. w.strays = {o \in Offsets : Stray(f, p, o)}
  <2>1. \A o \in Offsets : Stray(f, p, o) => o < f.size
    BY <1>2 DEF Stray, InUse
  <2> QED BY <1>1, <2>1 DEF Noted
<1>8. Chosen(f, f.size, p) = {o \in DataIn(f) : p[f.obj[o].key] = o}
  <2>1. \A o \in Offsets : f.obj[o].type = "data" => o < f.size
    BY <1>2 DEF InUse
  <2> QED BY <2>1 DEF Chosen, DataIn
<1>9. w.entries = Cardinality({o \in DataIn(f) : p[f.obj[o].key] = o})
  BY <1>1, <1>8 DEF Noted
<1>10. \A x \in w.strays, y \in w.strays : x = y
  BY <1>4, <1>7, OneStrayIs
<1> QED BY <1>4, <1>5, <1>6, <1>7, <1>9, <1>10 DEF Complete

\* The loop reaches the end of a file that can be mended, and finds all that is
\* there to find.
LEMMA FoundSeen ==
    ASSUME NEW r, r.file \in r.past, Mendable(r.file), NEW w, w = Found(r)
    PROVE  /\ Complete(r.file, w)
           /\ \E z : Divided(r.file, z) /\ Seen(r, z, w)
<1>1. PICK z : Divided(r.file, z)
  BY DEF Mendable, Torn
<1>2. PICK e \in Offsets : Single(r.file, e)
  BY DEF Mendable
<1>3. r.file.size \in Nat
  BY <1>1, DividedSize
<1>4. PICK t : w = t[r.file.size] /\ Scan(t, r, r.file.size)
  BY <1>3, FoundIs
<1>5. Seen(r, z, w) /\ w.at = r.file.size
  BY <1>1, <1>2, <1>4, ScanSeen
<1> QED BY <1>1, <1>2, <1>5, SeenComplete

------------------------------------------------------------------------------
(* What recover() leaves.                                                  *)

\* g can be mended to the map that f holds.
Restores(f, g) == Mendable(g) /\ Recovered(g) = Recovered(f) /\ g.active = f.active

\* The root has been written, with the entries that the loop has counted.
Rooted(f, g, w) ==
    /\ SameData(f, g) /\ g.hm = f.hm /\ g.active = f.active /\ g.entries = w.entries
    /\ \A o \in Offsets : g.obj[o].type = "meta" <=> f.obj[o].type = "meta"

\* The hashmap is right, and what is too many is not in use.
Mended(f, g, w) ==
    /\ g.hm = f.hm /\ g.active = f.active /\ g.entries = w.entries /\ g.load = w.entries
    /\ Map(g).type = "meta" /\ Map(g).ptr = w.ptr /\ Map(g).tombs = 0
    /\ \A o \in Offsets : g.obj[o].type = "data" => f.obj[o].type = "data" /\ o \notin w.strays
    /\ \A o \in Offsets : f.obj[o].type = "data" /\ o \notin w.strays => g.obj[o] = f.obj[o]
    /\ \A o \in Offsets : g.obj[o].type = "meta" => o \in {0, g.hm}

\* The objects that the hashmap gets.
Chooses(f, w) == {o \in DataIn(f) : w.ptr[f.obj[o].key] = o}

\* The entries it counts are the objects in its table, which are all but the
\* one too many.
LEMMA ChoosesIs ==
    ASSUME NEW f, NEW e, Single(f, e), NEW w, Complete(f, w)
    PROVE  /\ w.entries \in Nat /\ w.entries = Cardinality(Chooses(f, w))
           /\ w.entries = 0 => DataIn(f) = {}
           /\ \A o \in Offsets : o \in Chooses(f, w) <=> f.obj[o].type = "data" /\ o \notin w.strays
<1>1. w.entries = Cardinality(Chooses(f, w))
  BY DEF Complete, Chooses
<1>2. Chooses(f, w) \subseteq Offsets /\ IsFiniteSet(Chooses(f, w)) /\ w.entries \in Nat
  <2>1. Chooses(f, w) \subseteq Offsets
    BY DEF Chooses, DataIn
  <2> QED BY <1>1, <2>1, OffsetsFinite
<1>3. \A o \in Offsets : o \in Chooses(f, w) <=> f.obj[o].type = "data" /\ o \notin w.strays
  BY DEF Complete, Chooses, DataIn, Stray
<1>4. ASSUME w.entries = 0, NEW o \in DataIn(f) PROVE FALSE
  <2>1. Chooses(f, w) = {}
    BY <1>1, <1>2, <1>4, FS_EmptySet
  <2>2. PICK k : k = f.obj[o].key
    OBVIOUS
  <2>3. o \in KeyAt(f, k) /\ k \in Keys
    BY <2>2 DEF KeyAt, DataIn, Single
  <2>4. w.ptr[k] \in KeyAt(f, k)
    BY <2>3 DEF Complete
  <2>5. w.ptr[k] \in Chooses(f, w)
    BY <2>4 DEF KeyAt, Chooses, DataIn
  <2> QED BY <2>1, <2>5
<1> QED BY <1>1, <1>2, <1>3, <1>4

\* The root may be written before the hashmap is.
LEMMA RootedRestores ==
    ASSUME NEW f, Mendable(f), ~Worthless(f), NEW w, Complete(f, w), NEW g, Torn(g),
           Rooted(f, g, w)
    PROVE  Restores(f, g)
<1>1. PICK e \in Offsets : Single(f, e)
  BY DEF Mendable
<1>2. w.entries \in Nat /\ (w.entries = 0 => DataIn(f) = {})
  BY <1>1, ChoosesIs
<1>3. SameData(f, g)
  BY DEF Rooted
<1>4. DataIn(g) = DataIn(f)
  BY <1>3, SameDataIn
<1>5. Counted(f)
  BY DEF Counted, Mendable, Worthless
<1>6. Counted(g)
  BY <1>2, <1>4 DEF Counted, Rooted
<1>7. \A k \in Keys : ValueOf(g, k) = ValueOf(f, k)
  BY <1>3, KeptSame, KeptIs DEF ValueOf
<1>8. Recovered(g) = Recovered(f)
  BY <1>5, <1>6, <1>7, RecoveredIs
<1>9. Single(g, e)
  <2>1. \A o \in Offsets : g.obj[o].type = "data" => g.obj[o] = f.obj[o]
    BY <1>3 DEF SameData
  <2>2. \A o \in Offsets : g.obj[o].type = "meta" <=> f.obj[o].type = "meta"
    BY DEF Rooted
  <2>3. g.hm = f.hm /\ g.entries \in Nat
    BY <1>2 DEF Rooted
  <2> QED BY <1>1, <2>1, <2>2, <2>3 DEF Single
<1> QED BY <1>1, <1>8, <1>9 DEF Restores, Mendable, Rooted

\* With the hashmap too, and without the object too many, the file has the map
\* it had.
LEMMA MendedRestores ==
    ASSUME NEW f, Mendable(f), ~Worthless(f), NEW w, Complete(f, w), NEW g, Torn(g),
           Mended(f, g, w)
    PROVE  Tabled(g) /\ Restores(f, g)
<1>1. PICK e \in Offsets : Single(f, e)
  BY DEF Mendable
<1>2. /\ w.entries \in Nat /\ w.entries = Cardinality(Chooses(f, w))
      /\ w.entries = 0 => DataIn(f) = {}
      /\ \A o \in Offsets : o \in Chooses(f, w) <=> f.obj[o].type = "data" /\ o \notin w.strays
  BY <1>1, ChoosesIs
<1>3. DataIn(g) = Chooses(f, w)
  <2>1. Chooses(f, w) \subseteq Offsets /\ DataIn(g) \subseteq Offsets
    BY DEF Chooses, DataIn
  <2>2. \A o \in Offsets : o \in DataIn(g) <=> f.obj[o].type = "data" /\ o \notin w.strays
    BY DEF Mended, DataIn
  <2> QED BY <1>2, <2>1, <2>2
<1>4. \A o \in DataIn(g) : /\ g.obj[o] = f.obj[o] /\ o \in Offsets
                           /\ w.ptr[f.obj[o].key] = o /\ f.obj[o].key \in Keys
  <2>1. \A o \in DataIn(g) : g.obj[o] = f.obj[o] /\ o \in Offsets
    BY DEF Mended, DataIn
  <2> QED BY <1>1, <1>3, <2>1 DEF Chooses, DataIn, Single
<1>5. ASSUME NEW k \in Keys
      PROVE  /\ w.ptr[k] = 0 => KeyAt(g, k) = {} /\ KeyAt(f, k) = {}
             /\ w.ptr[k] # 0 => /\ KeyAt(g, k) = {w.ptr[k]} /\ w.ptr[k] = Kept(f, k)
                                /\ KeyAt(f, k) # {} /\ g.obj[w.ptr[k]] = f.obj[w.ptr[k]]
                                /\ g.obj[w.ptr[k]].type = "data" /\ g.obj[w.ptr[k]].key = k
  <2>1. \A o \in KeyAt(g, k) : o = w.ptr[k] /\ o \in KeyAt(f, k)
    BY <1>4 DEF KeyAt, DataIn
  <2>2. CASE w.ptr[k] = 0
    BY <2>1, <2>2 DEF Complete
  <2>3. CASE w.ptr[k] # 0
    <3>1. w.ptr[k] \in KeyAt(f, k) /\ w.ptr[k] = Kept(f, k)
      BY <2>3 DEF Complete
    <3>2. w.ptr[k] \in Chooses(f, w)
      BY <3>1 DEF Chooses, DataIn, KeyAt
    <3>3. g.obj[w.ptr[k]] = f.obj[w.ptr[k]]
      BY <1>3, <1>4, <3>2
    <3> QED BY <2>1, <2>3, <3>1, <3>3 DEF KeyAt
  <2> QED BY <2>2, <2>3
<1>6. Tabled(g)
  <2>1. g.hm \in Offsets \ {0} /\ g.obj[g.hm].type = "meta"
    BY <1>1 DEF Single, Mended, Map
  <2>2. \A o \in Offsets : g.obj[o].type = "meta" => o \in {0, g.hm}
    BY DEF Mended
  <2>3. Map(g).ptr \in [Keys -> Offsets] /\ Map(g).tombs = 0 /\ Map(g).ptr = w.ptr
    BY DEF Mended, Complete
  <2>4. \A a \in Offsets : g.obj[a].type = "data" => g.obj[a].key \in Keys /\ w.ptr[g.obj[a].key] = a
    BY <1>4 DEF DataIn
  <2>5. g.entries = Cardinality(DataIn(g)) /\ g.load = g.entries + 0 /\ g.entries \in Nat
    BY <1>2, <1>3 DEF Mended
  <2>6. \A k \in Keys : w.ptr[k] # 0 => g.obj[w.ptr[k]].type = "data" /\ g.obj[w.ptr[k]].key = k
    BY <1>5
  <2> QED BY <2>1, <2>2, <2>3, <2>4, <2>5, <2>6 DEF Tabled
<1>7. Counted(f) /\ Counted(g)
  <2>1. g.entries = 0 => DataIn(g) = {}
    BY <1>6, EntriesIs
  <2> QED BY <2>1 DEF Counted, Mendable, Worthless
<1>8. \A k \in Keys : ValueOf(g, k) = ValueOf(f, k)
  <2>1. ASSUME NEW k \in Keys PROVE ValueOf(g, k) = ValueOf(f, k)
    <3>1. CASE w.ptr[k] = 0
      BY <1>5, <3>1 DEF ValueOf
    <3>2. CASE w.ptr[k] # 0
      <4>1. PICK a : a = w.ptr[k]
        OBVIOUS
      <4>2. KeyAt(g, k) = {a} /\ a = Kept(f, k) /\ KeyAt(f, k) # {} /\ g.obj[a] = f.obj[a]
        BY <1>5, <3>2, <4>1
      <4>3. Kept(g, k) = a
        BY ONLY <4>2, KeptOnly
      <4> QED BY <4>2, <4>3 DEF ValueOf
    <3> QED BY <3>1, <3>2
  <2> QED BY <2>1
<1>9. Recovered(g) = Recovered(f)
  BY <1>7, <1>8, RecoveredIs
<1>10. Single(g, 0) /\ 0 \in Offsets
  <2>1. 0 \in Offsets
    BY OffsetsFinite
  <2>2. g.entries \in Nat
    BY <1>6, EntriesIs
  <2> QED BY <1>6, <2>1, <2>2 DEF Tabled, Single
<1> QED BY <1>6, <1>9, <1>10 DEF Restores, Mendable, Mended

\* The marks for empty lists do not matter to the lists.
LEMMA ListsEnded ==
    ASSUME NEW free, NEW obj, NEW F, Lists(free, obj, F), \A s \in Sizes : free[s] # End
    PROVE  Lists(Ended(free), obj, F)
<1> DEFINE free2 == Ended(free)
<1>1. \A s \in Sizes : free2[s] = free[s] \/ (free[s] = 0 /\ free2[s] = End)
  <2>1. ASSUME NEW s \in Sizes PROVE free2[s] = free[s] \/ (free[s] = 0 /\ free2[s] = End)
    <3>1. free2[s] = IF \A t \in Sizes : t >= s => free[t] = 0 THEN End ELSE free[s]
      BY DEF Ended
    <3>2. s >= s
      BY SizeIs
    <3> QED BY <3>1, <3>2
  <2> QED BY <2>1
<1>2. \A s \in Sizes : free2[s] \notin {0, End} => free2[s] = free[s] /\ free[s] \notin {0, End}
  BY <1>1
<1>3. \A a \in F, s \in Sizes : free[s] = a => free2[s] = a
  <2>1. 0 \notin F
    BY DEF Lists
  <2> QED BY <1>1, <2>1
<1> HIDE DEF free2
<1>4. \A s \in Sizes : free2[s] \notin {0, End} =>
          free2[s] \in F /\ obj[free2[s]].size = s /\ obj[free2[s]].prev = Root(s)
  BY <1>2 DEF Lists
<1>5. \A a \in F : \/ obj[a].prev = Root(obj[a].size) /\ free2[obj[a].size] = a
                   \/ obj[a].prev \in F /\ obj[obj[a].prev].next = a
  BY <1>3 DEF Lists
<1> QED BY <1>4, <1>5 DEF Lists, free2

\* The root that the loop leaves.
RootFile(w, g) ==
    g = [w.run.file EXCEPT !.free = Ended(w.free), !.load = w.entries, !.entries = w.entries]

\* With the root that the loop leaves the file is whole.
LEMMA SeenWhole ==
    ASSUME NEW r, NEW z, NEW w, Seen(r, z, w), w.at = r.file.size,
           NEW g, RootFile(w, g)
    PROVE  /\ Whole(g) /\ g.size = r.file.size /\ g.active = r.file.active /\ g.hm = r.file.hm
           /\ g.load = w.entries /\ g.entries = w.entries /\ g.obj = w.run.file.obj
           /\ SameUse(r.file, g)
<1> DEFINE f == w.run.file
<1>1. /\ Divided(f, z) /\ IsFile(f) /\ SameRoot(r.file, f) /\ SameUse(r.file, f)
      /\ \A o \in DOMAIN z : o < f.size => f.obj[o].type # "blank"
      /\ \A o \in Offsets \ DOMAIN z : o < f.size => f.obj[o] = Junk
      /\ \A s \in Sizes : w.free[s] # End
      /\ Lists(w.free, f.obj, Passed(f, z, f.size))
  <2>1. f.size = r.file.size
    BY DEF Seen, Walked, SameRoot
  <2> QED BY <2>1 DEF Seen, Walked, Divided
<1>2. PICK free2 : free2 = Ended(w.free)
  OBVIOUS
<1>3. PICK n : n = w.entries
  OBVIOUS
<1>4. g = [size |-> f.size, active |-> f.active, hm |-> f.hm, load |-> n, entries |-> n,
           free |-> free2, obj |-> f.obj]
  BY <1>1, <1>2, <1>3 DEF IsFile, RootFile
<1>5. free2 = [s \in Sizes |-> free2[s]]
  BY <1>2 DEF Ended
<1>6. /\ g.size = f.size /\ g.active = f.active /\ g.hm = f.hm /\ g.load = n /\ g.entries = n
      /\ g.free = free2 /\ g.obj = f.obj
  <2> HIDE DEF f
  <2> QED BY ONLY <1>4
<1>7. IsFile(g)
  BY <1>1, <1>4, <1>5, <1>6 DEF IsFile
<1>8. Divided(g, z)
  <2>1. Divided(f, z) /\ g.size = f.size /\ g.obj = f.obj
    BY <1>1, <1>6
  <2> QED BY ONLY <1>7, <2>1 DEF Divided
<1>9. \A o \in DOMAIN z : o \in Offsets /\ o \in Nat /\ o < f.size
  BY <1>1, DividedSize
<1>10. Passed(f, z, f.size) = FreeIn(g, z)
  BY <1>6, <1>9 DEF Passed, FreeIn
<1>11. Lists(free2, f.obj, FreeIn(g, z))
  BY <1>1, <1>2, <1>10, ListsEnded
<1>12. Linked(g, FreeIn(g, z))
  BY <1>6, <1>7, <1>11 DEF Linked, FreeIn
<1>13. free2[MaxSize] = End
  <2>1. MaxSize \in Sizes /\ MaxSize \in Nat /\ MaxSize >= 1
    BY SizesOK, SizeIs
  <2>2. w.free[MaxSize] = 0
    <3>1. SUFFICES ASSUME w.free[MaxSize] # 0 PROVE FALSE
      OBVIOUS
    <3>2. PICK a : a = w.free[MaxSize]
      OBVIOUS
    <3>3. a \in Passed(f, z, f.size) /\ f.obj[a].size = MaxSize /\ a # 0
      BY <1>1, <2>1, <3>1, <3>2 DEF Lists
    <3>4. a \in DOMAIN z /\ f.obj[a].type = "free"
      BY <3>3 DEF Passed, FreeIn
    <3>5. z[a] = MaxSize
      BY <1>1, <3>3, <3>4 DEF Divided
    <3>6. a \in Nat /\ a + MaxSize <= f.size /\ f.size <= MaxSize /\ f.size \in Nat
      BY <1>1, <3>4, <3>5, DividedSize
    <3> QED BY <2>1, <3>3, <3>6
  <2>3. \A t \in Sizes : t >= MaxSize => t = MaxSize
    BY SizeIs
  <2> QED BY <1>2, <2>1, <2>2, <2>3 DEF Ended
<1>14. Tidy(g, z)
  <2>1. \A o \in DOMAIN z : g.obj[o].type # "blank"
    BY <1>1, <1>6, <1>9
  <2> QED BY <1>1, <1>6, <1>8, <1>12, <1>13, <2>1 DEF Tidy
<1>15. SameUse(r.file, g)
  BY <1>1, <1>6 DEF SameUse
<1> QED BY <1>1, <1>3, <1>6, <1>14, <1>15 DEF Whole, SameRoot

\* A write of the root and one of the hashmap, after which the objects that
\* are too many are all there is left to do.
Remade(f, g, w) ==
    /\ Whole(g) /\ g.size = f.size /\ g.hm = f.hm /\ g.active = f.active
    /\ g.entries = w.entries /\ g.load = w.entries
    /\ Map(g).type = "meta" /\ Map(g).ptr = w.ptr /\ Map(g).tombs = 0
    /\ \A o \in Offsets : o # f.hm /\ (InUse(f.obj[o]) \/ InUse(g.obj[o])) => g.obj[o] = f.obj[o]

\* And so at every write before.
RootRemade(r, q, w) ==
    /\ Remade(r.file, q.file, w) /\ q.file \in q.past
    /\ \A g \in q.past : g \in r.past \/ (Restores(r.file, g) /\ g.size = r.file.size)

\* The loop, and the writes of the root and the hashmap.
LEMMA RecoverRootIs ==
    ASSUME NEW r, r.file \in r.past, Mendable(r.file), ~Worthless(r.file),
           NEW w, w = Found(r), NEW q, q = RecoverRoot(w)
    PROVE  RootRemade(r, q, w)
<1> DEFINE f == w.run.file
<1> DEFINE h == r.file.hm
<1>1. PICK z : Divided(r.file, z) /\ Seen(r, z, w)
  BY FoundSeen
<1>2. Complete(r.file, w) /\ w.at = r.file.size
  <2>1. Complete(r.file, w)
    BY FoundSeen
  <2> QED BY <2>1 DEF Complete
<1>3. PICK e \in Offsets : Single(r.file, e)
  BY DEF Mendable
<1>4. Walked(r, z, w.run, w.free, w.at) /\ f.hm = h /\ SameUse(r.file, f)
  BY <1>1 DEF Seen, Walked, SameRoot
<1>5. PICK root : root = Write(w.run, [f EXCEPT !.free = Ended(w.free), !.load = w.entries,
                                                !.entries = w.entries])
  OBVIOUS
<1>6. PICK g : g = root.file
  OBVIOUS
<1>7. RootFile(w, g) /\ root.past = w.run.past \cup {g}
  BY <1>5, <1>6 DEF Write, RootFile
<1>8. /\ Whole(g) /\ g.size = r.file.size /\ g.active = r.file.active /\ g.hm = h
      /\ g.load = w.entries /\ g.entries = w.entries /\ g.obj = f.obj
      /\ SameUse(r.file, g)
  BY <1>1, <1>2, <1>7, SeenWhole
<1>9. h \in Offsets /\ h # 0 /\ r.file.obj[h].type = "meta"
  BY <1>3 DEF Single
<1>10. InUse(g.obj[h]) /\ g.obj[h].type = "meta"
  <2>1. g.obj[h] = r.file.obj[h]
    BY <1>8, <1>9 DEF SameUse, InUse
  <2> QED BY <1>9, <2>1 DEF InUse
<1>11. PICK x : x = Hashmap(g.obj[h].size, w.ptr, 0)
  OBVIOUS
<1>12. InUse(x) /\ x.size = g.obj[h].size /\ x.type = "meta" /\ x.ptr = w.ptr /\ x.tombs = 0
  BY <1>11 DEF Hashmap, InUse
<1>13. q = WriteObject(root, h, x)
  BY <1>4, <1>5, <1>8, <1>11 DEF RecoverRoot, Map
<1>14. /\ Whole(q.file) /\ SameRoot(g, q.file) /\ q.past = root.past \cup {q.file}
       /\ q.file.obj[h] = x /\ \A o \in Offsets : o # h => q.file.obj[o] = g.obj[o]
  <2>1. Whole(root.file) /\ InUse(root.file.obj[h]) /\ x.size = root.file.obj[h].size
    BY <1>6, <1>8, <1>10, <1>12
  <2> QED BY <1>6, <1>9, <1>12, <1>13, <2>1, UseRewritten
<1>15. Remade(r.file, q.file, w)
  <2>1. \A o \in Offsets : o # h /\ (InUse(r.file.obj[o]) \/ InUse(q.file.obj[o]))
            => q.file.obj[o] = r.file.obj[o]
    BY <1>8, <1>14 DEF SameUse
  <2>2. /\ q.file.size = r.file.size /\ q.file.hm = h /\ q.file.active = r.file.active
        /\ q.file.entries = w.entries /\ q.file.load = w.entries
    BY <1>8, <1>14 DEF SameRoot
  <2>3. Map(q.file) = x
    BY <1>14, <2>2 DEF Map
  <2> QED BY <1>12, <1>14, <2>1, <2>2, <2>3 DEF Remade
<1>16. Restores(r.file, g)
  <2>1. SameData(r.file, g)
    BY <1>8, UseData
  <2>2. \A o \in Offsets : g.obj[o].type = "meta" <=> r.file.obj[o].type = "meta"
    BY <1>8 DEF SameUse, InUse
  <2>3. Rooted(r.file, g, w)
    BY <1>8, <2>1, <2>2 DEF Rooted
  <2>4. Torn(g)
    BY <1>8, WholeIs
  <2> QED BY <1>2, <2>3, <2>4, RootedRestores
<1>17. Restores(r.file, q.file)
  <2>1. \A o \in Offsets : o # h /\ (InUse(r.file.obj[o]) \/ InUse(q.file.obj[o]))
            => q.file.obj[o] = r.file.obj[o]
    BY <1>15 DEF Remade
  <2>2. q.file.obj[h].type = "meta"
    BY <1>12, <1>14
  <2>3. SameData(r.file, q.file)
    BY <1>9, <2>1, <2>2 DEF SameData, InUse
  <2>4. \A o \in Offsets : q.file.obj[o].type = "meta" <=> r.file.obj[o].type = "meta"
    BY <1>9, <2>1, <2>2 DEF InUse
  <2>5. Rooted(r.file, q.file, w)
    BY <1>15, <2>3, <2>4 DEF Rooted, Remade
  <2>6. Torn(q.file)
    BY <1>14, WholeIs
  <2> QED BY <1>2, <2>5, <2>6, RootedRestores
<1>18. ASSUME NEW y \in q.past
       PROVE  y \in r.past \/ (Restores(r.file, y) /\ y.size = r.file.size)
  <2>1. CASE y \in w.run.past
    <3>1. y \in r.past \/ (Kin(r.file, y) /\ y.size = r.file.size)
      BY <1>4, <2>1 DEF Walked
    <3>2. Kin(r.file, y) => Restores(r.file, y)
      BY KinCalm, CalmRecovered DEF Restores, Calm
    <3> QED BY <3>1, <3>2
  <2>2. CASE y = g
    BY <1>8, <1>16, <2>2
  <2>3. CASE y = q.file
    BY <1>15, <1>17, <2>3 DEF Remade
  <2> QED BY <1>7, <1>14, <2>1, <2>2, <2>3
<1>19. q.file \in q.past
  BY <1>14
<1> QED BY <1>15, <1>18, <1>19 DEF RootRemade

\* They leave the data alone.
LEMMA RemadeSame ==
    ASSUME NEW f, Mendable(f), NEW w, NEW g, Remade(f, g, w)
    PROVE  /\ SameData(f, g)
           /\ \A o \in Offsets : g.obj[o].type = "meta" <=> f.obj[o].type = "meta"
<1>1. PICK e \in Offsets : Single(f, e)
  BY DEF Mendable
<1>2. f.hm \in Offsets /\ f.obj[f.hm].type = "meta" /\ g.obj[f.hm].type = "meta"
  BY <1>1 DEF Single, Remade, Map
<1>3. \A o \in Offsets : o # f.hm /\ (InUse(f.obj[o]) \/ InUse(g.obj[o])) => g.obj[o] = f.obj[o]
  BY DEF Remade
<1> QED BY <1>2, <1>3 DEF SameData, InUse

\* If no object is too many that is all.
LEMMA RemadeMended ==
    ASSUME NEW f, Mendable(f), NEW w, Complete(f, w), w.strays = {}, NEW g, Remade(f, g, w)
    PROVE  Mended(f, g, w)
<1>1. PICK e \in Offsets : Single(f, e)
  BY DEF Mendable
<1>2. f.hm \in Offsets /\ f.hm # 0 /\ f.obj[f.hm].type = "meta" /\ g.hm = f.hm
      /\ g.obj[f.hm].type = "meta"
  BY <1>1 DEF Single, Remade, Map
<1>3. \A o \in Offsets : o # f.hm /\ (InUse(f.obj[o]) \/ InUse(g.obj[o])) => g.obj[o] = f.obj[o]
  BY DEF Remade
<1>4. \A o \in Offsets : ~Stray(f, w.ptr, o)
  BY DEF Complete
<1>5. \A o \in Offsets : g.obj[o].type = "data" => f.obj[o].type = "data" /\ o \notin w.strays
  BY <1>2, <1>3 DEF InUse
<1>6. \A o \in Offsets : f.obj[o].type = "data" /\ o \notin w.strays => g.obj[o] = f.obj[o]
  BY <1>2, <1>3 DEF InUse
<1>7. \A o \in Offsets : g.obj[o].type = "meta" => o \in {0, g.hm}
  <2>1. ASSUME NEW o \in Offsets, g.obj[o].type = "meta", o # g.hm PROVE o = 0
    <3>1. f.obj[o].type = "meta" /\ o # f.hm
      BY <1>2, <1>3, <2>1 DEF InUse
    <3> QED BY <1>4, <3>1 DEF Stray
  <2> QED BY <2>1
<1> QED BY <1>5, <1>6, <1>7 DEF Mended, Remade

\* The one that is too many.
LEMMA StrayIs ==
    ASSUME NEW f, Mendable(f), NEW w, Complete(f, w), NEW x \in w.strays, NEW g, Remade(f, g, w)
    PROVE  /\ x \in Offsets /\ x # 0 /\ x # f.hm /\ InUse(g.obj[x]) /\ w.strays = {x}
           /\ \A o \in Offsets : Stray(f, w.ptr, o) => o = x
<1>1. PICK e \in Offsets : Single(f, e)
  BY DEF Mendable
<1>2. f.hm \in Offsets /\ f.hm # 0 /\ f.obj[f.hm].type = "meta" /\ f.obj[0].type = "meta"
  BY <1>1, TornIs DEF Single, Mendable
<1>3. w.strays = {o \in Offsets : Stray(f, w.ptr, o)} /\ \A y \in w.strays : x = y
  BY DEF Complete
<1>4. x \in Offsets /\ Stray(f, w.ptr, x)
  BY <1>3
<1>5. x # 0 /\ x # f.hm /\ InUse(f.obj[x])
  BY <1>2, <1>4 DEF Stray, InUse
<1>6. InUse(g.obj[x])
  BY <1>4, <1>5 DEF Remade
<1> QED BY <1>3, <1>4, <1>5, <1>6

\* If one is, its dealloc() is what is left.
LEMMA GivenMended ==
    ASSUME NEW f, Mendable(f), NEW w, Complete(f, w), NEW x \in w.strays, NEW g, Remade(f, g, w),
           NEW h, Gives(g, h, x)
    PROVE  Mended(f, h, w)
<1>1. PICK e \in Offsets : Single(f, e)
  BY DEF Mendable
<1>2. f.hm \in Offsets /\ f.hm # 0 /\ f.obj[f.hm].type = "meta" /\ g.hm = f.hm
      /\ g.obj[f.hm].type = "meta"
  BY <1>1 DEF Single, Remade, Map
<1>3. \A o \in Offsets : o # f.hm /\ (InUse(f.obj[o]) \/ InUse(g.obj[o])) => g.obj[o] = f.obj[o]
  BY DEF Remade
<1>4. /\ x \in Offsets /\ x # 0 /\ x # f.hm /\ InUse(g.obj[x]) /\ w.strays = {x}
      /\ \A o \in Offsets : Stray(f, w.ptr, o) => o = x
  BY StrayIs
<1>5. /\ SameHead(g, h) /\ ~InUse(h.obj[x])
      /\ \A o \in Offsets : o # x /\ (InUse(g.obj[o]) \/ InUse(h.obj[o])) => h.obj[o] = g.obj[o]
  BY DEF Gives
<1>6. h.obj[f.hm] = g.obj[f.hm] /\ h.hm = f.hm
  BY <1>2, <1>4, <1>5 DEF InUse, SameHead
<1>7. \A o \in Offsets : g.obj[o].type = "data" => f.obj[o].type = "data" /\ g.obj[o] = f.obj[o]
  BY <1>2, <1>3 DEF InUse
<1>8. \A o \in Offsets : f.obj[o].type = "data" => g.obj[o] = f.obj[o]
  BY <1>2, <1>3 DEF InUse
<1>9. \A o \in Offsets : h.obj[o].type = "data" => f.obj[o].type = "data" /\ o \notin w.strays
  <2>1. \A o \in Offsets : h.obj[o].type = "data" => o # x /\ h.obj[o] = g.obj[o]
    BY <1>5 DEF InUse
  <2> QED BY <1>4, <1>7, <2>1
<1>10. \A o \in Offsets : f.obj[o].type = "data" /\ o \notin w.strays => h.obj[o] = f.obj[o]
  <2>1. \A o \in Offsets : g.obj[o].type = "data" /\ o # x => h.obj[o] = g.obj[o]
    BY <1>5 DEF InUse
  <2> QED BY <1>4, <1>8, <2>1
<1>11. \A o \in Offsets : h.obj[o].type = "meta" => o \in {0, h.hm}
  <2>1. ASSUME NEW o \in Offsets, h.obj[o].type = "meta", o # h.hm PROVE o = 0
    <3>1. o # x /\ g.obj[o].type = "meta"
      BY <1>5, <2>1 DEF InUse
    <3>2. f.obj[o].type = "meta" /\ o # f.hm
      BY <1>3, <1>6, <2>1, <3>1 DEF InUse
    <3> QED BY <1>4, <3>1, <3>2 DEF Stray
  <2> QED BY <2>1
<1>12. /\ h.hm = f.hm /\ h.active = f.active /\ h.entries = w.entries /\ h.load = w.entries
       /\ Map(h).type = "meta" /\ Map(h).ptr = w.ptr /\ Map(h).tombs = 0
  BY <1>5, <1>6 DEF Map, SameHead, Remade
<1> QED BY <1>9, <1>10, <1>11, <1>12 DEF Mended

\* r, and then the run q finds the same when the file is opened.
Restored(r, q) ==
    /\ Sound(q.file) /\ q.file.size = r.file.size /\ q.file.active = r.file.active
    /\ q.file \in q.past /\ Recovered(q.file) = Recovered(r.file)
    /\ \A g \in q.past : g \in r.past \/ (Restores(r.file, g) /\ g.size = r.file.size)

\* recover() makes a file sound that can be mended and has something free, with
\* the map it found, and at every write what it leaves can be mended to the same
\* map.
LEMMA RecoverIs ==
    ASSUME NEW r, r.file \in r.past, Mendable(r.file), ~Worthless(r.file),
           \E s \in Sizes : Found(r).free[s] # 0,
           NEW q, q = RecoverRun(r)
    PROVE  Restored(r, q)
<1>1. PICK w : w = Found(r)
  OBVIOUS
<1>2. Complete(r.file, w)
  BY <1>1, FoundSeen
<1>3. PICK root : root = RecoverRoot(w)
  OBVIOUS
<1>4. RootRemade(r, root, w)
  BY <1>1, <1>3, RecoverRootIs
<1>5. /\ Remade(r.file, root.file, w) /\ root.file \in root.past
      /\ \A g \in root.past : g \in r.past \/ (Restores(r.file, g) /\ g.size = r.file.size)
  BY <1>4 DEF RootRemade
<1>6. Whole(root.file) /\ root.file.size = r.file.size
  BY <1>5 DEF Remade
<1>7. CASE w.strays = {}
  <2>1. q = root
    BY <1>1, <1>3, <1>7 DEF RecoverRun
  <2>2. Mended(r.file, root.file, w)
    BY <1>2, <1>5, <1>7, RemadeMended
  <2>3. Torn(root.file)
    BY <1>6, WholeIs
  <2>4. Tabled(root.file) /\ Restores(r.file, root.file)
    BY <1>2, <2>2, <2>3, MendedRestores
  <2> QED BY <1>5, <1>6, <2>1, <2>4 DEF Restored, Restores, Sound
<1>8. CASE w.strays # {}
  <2>1. PICK x : x \in w.strays
    BY <1>8
  <2>2. /\ x \in Offsets /\ x # 0 /\ x # r.file.hm /\ InUse(root.file.obj[x]) /\ w.strays = {x}
    BY <1>2, <1>5, <2>1, StrayIs
  <2>3. Max(w.strays) = x
    <3>1. x >= x
      BY <2>2, OffsetsFinite
    <3> QED BY <2>2, <3>1 DEF Max
  <2>4. q = Dealloc(root, x)
    BY <1>1, <1>3, <1>8, <2>3 DEF RecoverRun
  <2>5. /\ Whole(q.file) /\ Gives(root.file, q.file, x)
        /\ \A g \in q.past : \/ g \in root.past \/ Kin(root.file, g)
                             \/ Gives(root.file, g, x) /\ Torn(g)
        /\ \A g \in q.past : g \in root.past \/ g.size = q.file.size
        /\ q.file.size = root.file.size /\ q.file \in q.past
    BY <1>6, <2>2, <2>4, DeallocIs
  <2>6. ASSUME NEW g, Gives(root.file, g, x), Torn(g) PROVE Tabled(g) /\ Restores(r.file, g)
    <3>1. Mended(r.file, g, w)
      BY <1>2, <1>5, <2>1, <2>6, GivenMended
    <3> QED BY <1>2, <2>6, <3>1, MendedRestores
  <2>7. Torn(q.file)
    BY <2>5, WholeIs
  <2>8. Tabled(q.file) /\ Restores(r.file, q.file)
    BY <2>5, <2>6, <2>7
  <2>9. Restores(r.file, root.file)
    <3>1. SameData(r.file, root.file)
      BY <1>5, RemadeSame
    <3>2. \A o \in Offsets : root.file.obj[o].type = "meta" <=> r.file.obj[o].type = "meta"
      BY <1>5, RemadeSame
    <3>3. Rooted(r.file, root.file, w)
      BY <1>5, <3>1, <3>2 DEF Rooted, Remade
    <3>4. Torn(root.file)
      BY <1>6, WholeIs
    <3> QED BY <1>2, <3>3, <3>4, RootedRestores
  <2>10. ASSUME NEW g, Kin(root.file, g) PROVE Restores(r.file, g)
    <3>1. Mendable(root.file)
      BY <2>9 DEF Restores
    <3>2. Calm(root.file, g)
      BY <2>10, <3>1, KinCalm
    <3>3. Recovered(g) = Recovered(root.file)
      BY <3>1, <3>2, CalmRecovered
    <3> QED BY <2>9, <3>2, <3>3 DEF Restores, Calm
  <2>11. \A g \in q.past : g \in r.past \/ (Restores(r.file, g) /\ g.size = r.file.size)
    BY <1>5, <1>6, <2>5, <2>6, <2>10
  <2> QED BY <1>6, <2>5, <2>8, <2>11 DEF Restored, Restores, Sound
<1> QED BY <1>7, <1>8

------------------------------------------------------------------------------
(* A new file.                                                             *)

\* The objects of a new file: behind the hashmap there is one free object of
\* each size.
NewParts == {s \in Sizes : 2 <= s /\ s < StartSize}

\* The size of a new file.
LEMMA StartIs ==
    /\ StartSize \in Sizes /\ StartSize \in Nat /\ StartSize >= 4 /\ StartSize < MaxSize
    /\ MaxSize \in Sizes /\ MaxSize \in Nat /\ 1 \in Sizes
    /\ \A s \in Sizes : s \in Nat /\ s >= 1
    /\ Offsets = 0..(MaxSize - 1)
BY SizesOK, SizeIs, StaticmapOK DEF Offsets

\* The objects of a new file tile it.
LEMMA NewTiles ==
    \E z : /\ Tiles(StartSize, z) /\ DOMAIN z = {0, 1} \cup NewParts /\ z[0] = 1 /\ z[1] = 1
           /\ \A s \in NewParts : z[s] = s
<1>1. /\ StartSize \in Sizes /\ StartSize \in Nat /\ StartSize >= 4
      /\ 1 \in Sizes /\ \A s \in Sizes : s \in Nat /\ s >= 1
  BY StartIs
<1>2. PICK y : y = [o \in {0} |-> StartSize]
  OBVIOUS
<1>3. DOMAIN y = {0} /\ y[0] = StartSize
  BY <1>2
<1>4. Tiles(StartSize, y)
  <2>1. Mult(0, StartSize)
    BY <1>1, MultSelf
  <2>2. \A o \in 0..(StartSize - 1) : \E a \in DOMAIN y : a <= o /\ o < a + y[a]
    BY <1>1, <1>3
  <2> QED BY <1>1, <1>3, <2>1, <2>2 DEF Tiles
<1>5. PICK P : P = Parts(0, 1, StartSize)
  OBVIOUS
<1>6. P = {1} \cup NewParts
  <2>1. \A s \in Sizes : 0 + s = s
    BY <1>1
  <2>2. P = {s \in Sizes : 1 <= s /\ s < StartSize}
    BY <1>5, <2>1 DEF Parts
  <2>3. \A s \in Sizes : 1 <= s /\ s < StartSize <=> s = 1 \/ (2 <= s /\ s < StartSize)
    BY <1>1
  <2> QED BY <1>1, <2>2, <2>3 DEF NewParts
<1>7. \A s \in P : s \in Nat /\ s >= 1
  BY <1>1, <1>6 DEF NewParts
<1>8. PICK z : z = [o \in {0} \cup P |-> IF o = 0 THEN 1 ELSE o]
  OBVIOUS
<1>9. DOMAIN z = {0} \cup P /\ z[0] = 1 /\ \A s \in P : z[s] = s
  BY <1>7, <1>8
<1>10. Tiles(StartSize, z)
  <2>1. /\ DOMAIN z = DOMAIN y \cup Parts(0, 1, y[0])
        /\ \A b \in Parts(0, 1, y[0]) : z[b] = b - 0
        /\ \A b \in DOMAIN y : b # 0 => z[b] = y[b]
    BY <1>3, <1>5, <1>7, <1>9
  <2>2. 0 \in DOMAIN y /\ 1 <= y[0] /\ z[0] = 1
    BY <1>1, <1>3, <1>9
  <2> QED BY <1>1, <1>4, <2>1, <2>2, TilesCut
<1> QED BY <1>6, <1>9, <1>10

\* What the headers say.
NewHeaders(g) ==
    /\ IsFile(g) /\ g.size = StartSize /\ g.active = TRUE /\ g.hm = 1 /\ g.load = 0 /\ g.entries = 0
    /\ g.free = [s \in Sizes |-> IF s = 1 THEN 0 ELSE IF s < StartSize THEN s ELSE End]
    /\ g.obj[0] = RootObj /\ g.obj[1] = Hashmap(1, NoPtrs, 0)
    /\ \A o \in Offsets : o >= 2 /\ o < StartSize =>
           g.obj[o] = IF o \in Sizes THEN FreeObj(o, 0, Root(o)) ELSE Junk
    /\ \A o \in Offsets : o >= StartSize => g.obj[o] = Blank

\* What create() leaves.
LEMMA HeadersIs ==
    ASSUME NEW f
    PROVE  NewHeaders(Headers(f, StartSize))
<1> DEFINE new == NewFile(f)
<1> DEFINE g == Headers(f, StartSize)
<1>1. /\ StartSize \in Nat /\ StartSize >= 4 /\ 0 \in Offsets /\ 1 \in Offsets
      /\ \A o \in Offsets : o \in Nat
  BY StartIs
<1>2. PICK free : free = [s \in Sizes |-> IF s = 1 THEN 0 ELSE IF s < StartSize THEN s ELSE End]
  OBVIOUS
<1>3. PICK size : size = IF f.size > 2 THEN f.size ELSE 2
  OBVIOUS
<1>4. PICK old : old = [o \in Offsets |-> IF o = 0 THEN RootObj
                                ELSE IF o = 1 THEN Hashmap(1, NoPtrs, 0)
                                ELSE IF o < StartSize /\ o < f.size THEN f.obj[o] ELSE Blank]
  OBVIOUS
<1>5. new = [size |-> size, active |-> TRUE, hm |-> 1, load |-> 0, entries |-> 0,
             free |-> free, obj |-> old]
  BY <1>2, <1>3, <1>4 DEF NewFile
<1>6. PICK obj : obj = [o \in Offsets |-> IF o < 2 \/ o >= StartSize THEN old[o]
                                   ELSE IF o \in Sizes THEN FreeObj(o, 0, Root(o)) ELSE Junk]
  OBVIOUS
<1>7. g = [new EXCEPT !.size = StartSize,
                      !.obj = [o \in Offsets |-> IF o < 2 \/ o >= StartSize THEN @[o]
                                   ELSE IF o \in Sizes THEN FreeObj(o, 0, Root(o)) ELSE Junk]]
  BY DEF Headers
<1>8. new.obj = old
  <2> HIDE DEF new
  <2> QED BY <1>5
<1>9. g = [new EXCEPT !.size = StartSize, !.obj = obj]
  <2> HIDE DEF new, g
  <2> QED BY <1>6, <1>7, <1>8
<1>10. g = [size |-> StartSize, active |-> TRUE, hm |-> 1, load |-> 0, entries |-> 0,
            free |-> free, obj |-> obj]
  <2> HIDE DEF new, g
  <2> QED BY <1>5, <1>9
<1>11. /\ g.size = StartSize /\ g.active = TRUE /\ g.hm = 1 /\ g.load = 0 /\ g.entries = 0
       /\ g.free = free /\ g.obj = obj
  <2> HIDE DEF g
  <2> QED BY <1>10
<1>12. obj = [o \in Offsets |-> obj[o]] /\ free = [s \in Sizes |-> free[s]]
  BY <1>2, <1>6
<1>13. IsFile(g)
  <2> HIDE DEF g
  <2> QED BY <1>10, <1>11, <1>12 DEF IsFile
<1>14. old[0] = RootObj /\ old[1] = Hashmap(1, NoPtrs, 0)
       /\ \A o \in Offsets : o >= StartSize => old[o] = Blank
  <2>1. \A o \in Offsets : o >= StartSize => ~(o < StartSize) /\ o # 0 /\ o # 1
    BY <1>1
  <2> QED BY <1>1, <1>4, <2>1
<1>15. obj[0] = RootObj /\ obj[1] = Hashmap(1, NoPtrs, 0)
       /\ \A o \in Offsets : o >= StartSize => obj[o] = Blank
  BY <1>1, <1>6, <1>14
<1>16. \A o \in Offsets : o >= 2 /\ o < StartSize =>
           obj[o] = IF o \in Sizes THEN FreeObj(o, 0, Root(o)) ELSE Junk
  <2>1. \A o \in Offsets : o >= 2 /\ o < StartSize => ~(o < 2 \/ o >= StartSize)
    BY <1>1
  <2> QED BY <1>6, <2>1
<1> HIDE DEF g
<1>17. NewHeaders(g)
  BY <1>2, <1>11, <1>13, <1>15, <1>16 DEF NewHeaders
<1> QED BY <1>17 DEF g

\* A new file is sound and holds nothing.
LEMMA NewSound ==
    ASSUME NEW g, NewHeaders(g)
    PROVE  Sound(g) /\ DataIn(g) = {}
<1>1. /\ StartSize \in Sizes /\ StartSize \in Nat /\ StartSize >= 4 /\ StartSize < MaxSize
      /\ MaxSize \in Sizes /\ MaxSize \in Nat /\ 1 \in Sizes
      /\ \A s \in Sizes : s \in Nat /\ s >= 1
      /\ Offsets = 0..(MaxSize - 1)
  BY StartIs
<1>2. 0 \in Offsets /\ 1 \in Offsets /\ \A o \in Offsets : o \in Nat
  BY <1>1
<1>3. PICK z : /\ Tiles(StartSize, z) /\ DOMAIN z = {0, 1} \cup NewParts /\ z[0] = 1 /\ z[1] = 1
               /\ \A s \in NewParts : z[s] = s
  BY NewTiles
<1>4. \A o \in NewParts : /\ o \in Sizes /\ o \in Offsets /\ o >= 2 /\ o < StartSize /\ o \in Nat
  BY <1>1 DEF NewParts
<1>5. \A o \in NewParts : /\ g.obj[o].type = "free" /\ g.obj[o].size = o /\ g.obj[o].next = 0
                          /\ g.obj[o].prev = Root(o)
  <2>1. \A o \in NewParts : g.obj[o] = FreeObj(o, 0, Root(o))
    BY <1>4 DEF NewHeaders
  <2> QED BY <2>1, FreeObjIs
<1>6. /\ g.obj[0].type = "meta" /\ g.obj[0].size = 1 /\ g.obj[1].type = "meta" /\ g.obj[1].size = 1
      /\ g.obj[1].ptr = NoPtrs /\ g.obj[1].tombs = 0
  BY DEF NewHeaders, RootObj, Hashmap
<1>7. \A o \in Offsets \ DOMAIN z : o < StartSize => g.obj[o] = Junk
  <2>1. ASSUME NEW o \in Offsets \ DOMAIN z, o < StartSize PROVE g.obj[o] = Junk
    <3>1. o # 0 /\ o # 1 /\ o \notin NewParts /\ o \in Nat
      BY <1>2, <1>3, <2>1
    <3>2. o >= 2 /\ o \notin Sizes
      BY <2>1, <3>1 DEF NewParts
    <3> QED BY <2>1, <3>2 DEF NewHeaders
  <2> QED BY <2>1
<1>8. \A o \in Offsets : o >= StartSize => g.obj[o].type = "blank"
  BY DEF NewHeaders, Blank
<1>9. \A o \in Offsets \ DOMAIN z : ~InUse(g.obj[o])
  <2>1. \A o \in Offsets : o < StartSize \/ o >= StartSize
    BY <1>1, <1>2
  <2> QED BY <1>7, <1>8, <2>1 DEF InUse, Junk
<1>10. \A a \in DOMAIN z : g.obj[a].type \in {"free", "data", "meta"} /\ g.obj[a].size = z[a]
  BY <1>3, <1>5, <1>6
<1>11. \A a \in DOMAIN z, o \in Offsets :
          InUse(g.obj[a]) /\ a < o /\ o < a + z[a] => g.obj[o] = Junk
  <2>1. \A a \in DOMAIN z : InUse(g.obj[a]) => a = 0 \/ a = 1
    BY <1>3, <1>5 DEF InUse
  <2>2. \A o \in Offsets : ~(0 < o /\ o < 0 + 1) /\ ~(1 < o /\ o < 1 + 1)
    BY <1>2
  <2> QED BY <1>3, <2>1, <2>2
<1>12. \A a \in DOMAIN z, b \in DOMAIN z :
          Vacant(g.obj[a]) /\ Vacant(g.obj[b]) /\ z[a] = z[b] => b # Sibling(a, z[a])
  <2>1. ASSUME NEW a \in DOMAIN z, NEW b \in DOMAIN z, Vacant(g.obj[a]), Vacant(g.obj[b]),
               z[a] = z[b]
        PROVE  b # Sibling(a, z[a])
    <3>1. a \in NewParts /\ b \in NewParts
      BY <1>3, <1>6, <2>1 DEF Vacant
    <3>2. a = b /\ z[a] = a
      BY <1>3, <2>1, <3>1
    <3>3. a \in Nat \ {0} /\ Mult(a, a)
      BY <1>4, <3>1, MultSelf
    <3> QED BY <3>2, <3>3, SiblingBack
  <2> QED BY <2>1
<1>13. Divided(g, z)
  <2>1. IsFile(g) /\ g.size = StartSize
    BY DEF NewHeaders
  <2>2. g.size \in Sizes /\ g.size >= StartSize
    BY <1>1, <2>1
  <2> QED BY <1>3, <1>6, <1>8, <1>9, <1>10, <1>11, <1>12, <2>1, <2>2 DEF Divided
<1>14. FreeIn(g, z) = NewParts
  BY <1>3, <1>5, <1>6 DEF FreeIn
<1>15. g.free[MaxSize] = End /\ \A s \in Sizes : g.free[s] \notin {0, End} => s \in NewParts /\ g.free[s] = s
  <2>1. \A s \in Sizes : g.free[s] = IF s = 1 THEN 0 ELSE IF s < StartSize THEN s ELSE End
    BY DEF NewHeaders
  <2>2. MaxSize # 1 /\ ~(MaxSize < StartSize)
    BY <1>1
  <2>3. \A s \in Sizes : s # 1 => 2 <= s
    BY <1>1
  <2> QED BY <1>1, <2>1, <2>2, <2>3 DEF NewParts
<1>16. \A s \in NewParts : g.free[s] = s
  <2>1. \A s \in NewParts : s # 1
    BY <1>4
  <2> QED BY <1>4, <2>1 DEF NewHeaders
<1>17. Lists(g.free, g.obj, NewParts)
  <2>1. NewParts \subseteq Offsets \ {0}
    BY <1>4
  <2>2. \A s \in Sizes : g.free[s] \notin {0, End} =>
            g.free[s] \in NewParts /\ g.obj[g.free[s]].size = s /\ g.obj[g.free[s]].prev = Root(s)
    BY <1>5, <1>15
  <2>3. \A S \in SUBSET NewParts : S # {} => \E a \in S : g.obj[a].prev \notin S
    <3>1. ASSUME NEW S \in SUBSET NewParts, NEW a \in S PROVE g.obj[a].prev \notin S
      <4>1. g.obj[a].prev \notin Offsets
        BY <1>4, <1>5, RootIs
      <4> QED BY <1>4, <4>1
    <3> QED BY <3>1
  <2> QED BY <1>4, <1>5, <1>16, <2>1, <2>2, <2>3 DEF Lists
<1>18. Tidy(g, z)
  <2>1. Linked(g, FreeIn(g, z))
    BY <1>5, <1>14, <1>17 DEF Linked, NewHeaders
  <2>2. \A a \in DOMAIN z : g.obj[a].type # "blank"
    BY <1>10
  <2>3. g.size = StartSize
    BY DEF NewHeaders
  <2> QED BY <1>7, <1>13, <1>15, <2>1, <2>2, <2>3 DEF Tidy
<1>19. \A o \in Offsets : InUse(g.obj[o]) => o = 0 \/ o = 1
  BY <1>3, <1>5, <1>9 DEF InUse
<1>20. DataIn(g) = {} /\ \A o \in Offsets : g.obj[o].type # "data"
  BY <1>6, <1>19 DEF DataIn, InUse
<1>21. Tabled(g)
  <2>1. Map(g) = g.obj[1] /\ g.hm = 1 /\ g.load = 0 /\ g.entries = 0
    BY DEF Map, NewHeaders
  <2>2. NoPtrs \in [Keys -> Offsets] /\ \A k \in Keys : NoPtrs[k] = 0
    BY <1>2 DEF NoPtrs
  <2>3. Cardinality(DataIn(g)) = 0
    BY <1>20, FS_EmptySet
  <2>4. \A o \in Offsets : g.obj[o].type = "meta" => o \in {0, g.hm}
    BY <1>19, <2>1 DEF InUse
  <2> QED BY <1>2, <1>6, <1>20, <2>1, <2>2, <2>3, <2>4 DEF Tabled
<1> QED BY <1>18, <1>20, <1>21 DEF Sound, Whole

\* create(), from its first write on, is in a file that holds nothing.
Nothing == [k \in Keys |-> None]

\* A file that will be made anew has the empty map.
LEMMA WorthlessRecovered ==
    ASSUME NEW f, Worthless(f)
    PROVE  Recovered(f) = Nothing
BY DEF Recovered, Nothing

\* r, and then the run q makes a new file.
Created(r, q) ==
    /\ Sound(q.file) /\ q.file.size = StartSize /\ q.file.active = TRUE
    /\ Recovered(q.file) = Nothing /\ q.file \in q.past
    /\ \A g \in q.past : g \in r.past \/ (g.active = TRUE /\ Worthless(g))

\* create() makes a sound file with an empty map, and at every write of it the
\* file holds nothing.
LEMMA CreateIs ==
    ASSUME NEW r, NEW q, q = CreateRun(r)
    PROVE  Created(r, q)
<1> DEFINE f == r.file
<1>1. q.file = Headers(f, StartSize)
      /\ q.past = r.past \cup {NewFile(f)}
                    \cup {Headers(f, t) : t \in {s \in Sizes : 2 <= s /\ s <= StartSize}}
  BY DEF CreateRun
<1>2. NewHeaders(q.file)
  BY <1>1, HeadersIs
<1>3. NewFile(f).active = TRUE /\ NewFile(f).entries = 0
  BY DEF NewFile
<1>4. \A t : Headers(f, t).active = TRUE /\ Headers(f, t).entries = 0
  <2>1. PICK size, hm, load, free, obj :
            NewFile(f) = [size |-> size, active |-> TRUE, hm |-> hm, load |-> load, entries |-> 0,
                          free |-> free, obj |-> obj]
    BY DEF NewFile
  <2> QED BY <2>1 DEF Headers
<1>5. \A g \in q.past : g \in r.past \/ (g.active = TRUE /\ Worthless(g))
  BY <1>1, <1>3, <1>4 DEF Worthless
<1>6. q.file \in q.past
  <2>1. StartSize \in {s \in Sizes : 2 <= s /\ s <= StartSize}
    BY StartIs
  <2> QED BY <1>1, <2>1
<1>7. Worthless(q.file)
  BY <1>2 DEF NewHeaders, Worthless
<1> QED BY <1>2, <1>5, <1>6, <1>7, NewSound, WorthlessRecovered DEF NewHeaders, Created

------------------------------------------------------------------------------
(* What fsck() requires of objects, lists, hashmap and counts.             *)

\* The objects of a tidy file are the heads that fsck() finds,
LEMMA TidyHeads ==
    ASSUME NEW f, NEW z, Tidy(f, z)
    PROVE  /\ Heads(f) = DOMAIN z
           /\ \A a \in DOMAIN z : f.obj[a].type \in {"free", "data", "meta"} /\ f.obj[a].size = z[a]
<1>1. Divided(f, z)
  BY DEF Tidy
<1>2. \A a \in DOMAIN z : a \in Offsets /\ a < f.size
  BY <1>1, DividedSize
<1>3. \A a \in DOMAIN z : f.obj[a].type \in {"free", "data", "meta"} /\ f.obj[a].size = z[a]
  BY <1>1 DEF Tidy, Divided
<1>4. \A o \in Offsets \ DOMAIN z : o < f.size => f.obj[o].type = "junk"
  BY DEF Tidy, Junk
<1> QED BY <1>2, <1>3, <1>4 DEF Heads

\* they tile it,
LEMMA TidyTiled ==
    ASSUME NEW f, NEW z, Tidy(f, z)
    PROVE  Tiled(f)
<1>1. /\ Heads(f) = DOMAIN z
      /\ \A a \in DOMAIN z : f.obj[a].type \in {"free", "data", "meta"} /\ f.obj[a].size = z[a]
  BY TidyHeads
<1>2. Tiles(f.size, z) /\ f.size \in Nat
  BY DividedSize DEF Tidy, Divided
<1>3. OfType(f, "blank") = {}
  BY <1>1 DEF OfType
<1>4. \A a \in DOMAIN z : a % z[a] = 0
  BY <1>2 DEF Tiles, Mult
<1>5. \A a \in DOMAIN z : a + z[a] = f.size \/ a + z[a] \in DOMAIN z
  BY <1>2, NextTile
<1>6. \A a \in DOMAIN z, o \in DOMAIN z : o > a => o >= a + z[a]
  <2>1. ASSUME NEW a \in DOMAIN z, NEW o \in DOMAIN z, o > a PROVE o >= a + z[a]
    <3>1. a \in Nat /\ o \in Nat /\ z[a] \in Nat
      BY <1>2, TileIs
    <3>2. a < o
      BY <2>1, <3>1
    <3>3. a + z[a] <= o
      BY <1>2, <3>2 DEF Tiles
    <3> QED BY <3>1, <3>3
  <2> QED BY <2>1
<1> QED BY <1>1, <1>3, <1>4, <1>5, <1>6 DEF Tiled

\* The sibling of a free object is an object of the file, or inside one.
LEMMA SiblingInside ==
    ASSUME NEW f, NEW z, Divided(f, z), NEW a \in DOMAIN z, a # 0, NEW s, s = z[a],
           NEW b, b = Sibling(a, s)
    PROVE  b \in Offsets /\ b < f.size
<1>1. /\ a \in Nat /\ a < f.size /\ a + s <= f.size /\ s \in Sizes /\ s \in Nat /\ s >= 1 /\ Mult(a, s)
      /\ f.size \in Nat /\ f.size <= MaxSize /\ MaxSize \in Nat
  BY DividedSize
<1>2. f.size \in Sizes
  BY DEF Divided
<1>3. s < f.size
  BY <1>1
<1>4. 2 * s <= f.size /\ Mult(f.size, 2 * s)
  BY <1>1, <1>2, <1>3, SizesDouble
<1>5. /\ b \in Nat
      /\ Mult(a, 2 * s) => b = a + s
      /\ ~Mult(a, 2 * s) => b = a - s
  BY <1>1, SiblingIs
<1>6. b < f.size
  <2>1. CASE Mult(a, 2 * s)
    <3>1. PICK d : d = 2 * s
      OBVIOUS
    <3>2. d \in Nat \ {0} /\ Mult(f.size, d) /\ Mult(a, d)
      BY <1>1, <1>4, <2>1, <3>1
    <3>3. a + d <= f.size
      BY <1>1, <3>2, MultApart
    <3> QED BY <1>1, <1>5, <2>1, <3>1, <3>3
  <2>2. CASE ~Mult(a, 2 * s)
    BY <1>1, <1>5, <2>2
  <2> QED BY <2>1, <2>2
<1> QED BY <1>1, <1>5, <1>6 DEF Offsets

\* and its lists are whole.
LEMMA TidyLists ==
    ASSUME NEW f, NEW z, Tidy(f, z)
    PROVE  ListsWhole(f)
<1>1. /\ Heads(f) = DOMAIN z
      /\ \A a \in DOMAIN z : f.obj[a].type \in {"free", "data", "meta"} /\ f.obj[a].size = z[a]
  BY TidyHeads
<1>2. PICK F : F = FreeIn(f, z)
  OBVIOUS
<1>3. OfType(f, "free") = F
  BY <1>1, <1>2 DEF OfType, FreeIn
<1>4. Lists(f.free, f.obj, F) /\ Divided(f, z)
  BY <1>2 DEF Tidy, Linked
<1>5. ASSUME NEW a \in F
      PROVE  ~(f.obj[Sibling(a, f.obj[a].size)].type = "free"
               /\ f.obj[Sibling(a, f.obj[a].size)].size = f.obj[a].size)
  <2>1. a \in DOMAIN z /\ f.obj[a].type = "free" /\ f.obj[a].size = z[a] /\ a # 0
    BY <1>1, <1>2, <1>4 DEF FreeIn, Lists
  <2>2. PICK b : b = Sibling(a, z[a])
    OBVIOUS
  <2>3. b \in Offsets /\ b < f.size
    BY <1>4, <2>1, <2>2, SiblingInside
  <2>4. ASSUME f.obj[b].type = "free", f.obj[b].size = z[a] PROVE FALSE
    <3>1. b \in DOMAIN z
      BY <2>3, <2>4 DEF Tidy, Junk
    <3>2. z[b] = z[a]
      BY <1>1, <2>4, <3>1
    <3> QED BY <1>4, <2>1, <2>2, <2>4, <3>1, <3>2 DEF Divided, Vacant
  <2> QED BY <2>1, <2>2, <2>4
<1>6. \A s \in Sizes : f.free[s] \notin {0, End} =>
          f.free[s] \in F /\ f.obj[f.free[s]].prev = Root(s) /\ f.obj[f.free[s]].size = s
  BY <1>4 DEF Lists
<1>7. \A a \in F : /\ f.obj[a].next # 0 => /\ f.obj[a].next \in F
                                           /\ f.obj[f.obj[a].next].prev = NextOf(a)
                                           /\ f.obj[f.obj[a].next].size = f.obj[a].size
                   /\ \/ f.obj[a].prev = Root(f.obj[a].size) /\ f.free[f.obj[a].size] = a
                      \/ f.obj[a].prev \in F /\ f.obj[f.obj[a].prev].next = a
  BY <1>4 DEF Lists, NextOf
<1>8. \A S \in SUBSET F : S # {} => \E a \in S : f.obj[a].prev \notin S
  BY <1>4 DEF Lists
<1> QED BY <1>3, <1>5, <1>6, <1>7, <1>8 DEF ListsWhole

\* So is the hashmap of a sound file.
LEMMA SoundTable ==
    ASSUME NEW f, Sound(f)
    PROVE  TableWhole(f)
<1>1. /\ \A o \in Offsets : InUse(f.obj[o]) => o < f.size
      /\ f.obj[0].type = "meta" /\ 0 \in Offsets
  BY WholeIs DEF Sound
<1>2. Tabled(f)
  BY DEF Sound
<1>3. f.hm \in Offsets /\ f.hm # 0 /\ f.obj[f.hm].type = "meta"
  BY <1>2 DEF Tabled
<1>4. OfType(f, "meta") = {0, f.hm}
  <2>1. \A o \in Offsets : f.obj[o].type = "meta" <=> o \in {0, f.hm}
    BY <1>1, <1>2, <1>3 DEF Tabled
  <2>2. \A o \in Offsets : f.obj[o].type = "meta" => o < f.size /\ f.obj[o].type # "junk"
    BY <1>1 DEF InUse
  <2> QED BY <1>1, <1>3, <2>1, <2>2 DEF OfType, Heads
<1>5. OfType(f, "data") = DataIn(f)
  <2>1. \A o \in Offsets : f.obj[o].type = "data" => o < f.size /\ f.obj[o].type # "junk"
    BY <1>1 DEF InUse
  <2> QED BY <2>1 DEF OfType, Heads, DataIn
<1>6. {Map(f).ptr[k] : k \in Keys} \ {0} = DataIn(f)
  <2>1. \A k \in Keys : Map(f).ptr[k] # 0 => Map(f).ptr[k] \in DataIn(f)
    BY <1>2 DEF Tabled, DataIn
  <2>2. \A o \in DataIn(f) : f.obj[o].key \in Keys /\ Map(f).ptr[f.obj[o].key] = o /\ o # 0
    BY <1>1, <1>2 DEF Tabled, DataIn
  <2> QED BY <2>1, <2>2
<1>7. \A k \in Keys : Map(f).ptr[k] # 0 => f.obj[Map(f).ptr[k]].key = k
  BY <1>2 DEF Tabled
<1>8. f.entries = Cardinality(DataIn(f)) /\ f.load = f.entries + Map(f).tombs
  BY <1>2 DEF Tabled
<1> QED BY <1>4, <1>5, <1>6, <1>7, <1>8 DEF TableWhole

\* A sound file is well formed.
LEMMA SoundWellFormed ==
    ASSUME NEW f, Sound(f)
    PROVE  Tiled(f) /\ ListsWhole(f) /\ TableWhole(f)
<1>1. PICK z : Tidy(f, z)
  BY DEF Sound, Whole
<1> QED BY <1>1, TidyTiled, TidyLists, SoundTable

------------------------------------------------------------------------------
(* The states of the system.                                               *)

\* Between two operations the file is sound.  If nobody has it open it is
\* nothing, or cleanly closed and sound, or says that it is in use: then it
\* holds nothing, or recover() can mend it.  So it could if the process ended
\* in an operation on it and it does not say so, but open() will not call it.
Ok(f, u, l) ==
    /\ u \in BOOLEAN /\ l \in BOOLEAN /\ f.active \in BOOLEAN
    /\ u => Sound(f) /\ f.size < MaxSize /\ ~l
    /\ ~u /\ (f.active \/ l) => Worthless(f) \/ (Mendable(f) /\ f.size < MaxSize)
    /\ ~u /\ ~f.active /\ ~l => f.size = 0 \/ (Sound(f) /\ f.size < MaxSize)

\* The inductive invariant.
IInv == Ok(file, up, lost)

\* The file g can be mended, and holds c or d.
Resumes(g, c, d) == g.active \in BOOLEAN /\ Mendable(g) /\ Recovered(g) \in {c, d}

\* The file f, marked as in use, is as it was or still is marked.
StaysMarked(f, g) == synced \/ f.active => g = f \/ g.active = TRUE

\* The mark that the file is in use changes nothing else.
LEMMA Reactivated ==
    ASSUME NEW f, Sound(f), NEW b, NEW g, g = [f EXCEPT !.active = b]
    PROVE  Sound(g) /\ g.size = f.size /\ g.active = b /\ Recovered(g) = Recovered(f)
<1>1. IsFile(f)
  BY WholeIs DEF Sound
<1>2. g = [size |-> f.size, active |-> b, hm |-> f.hm, load |-> f.load,
           entries |-> f.entries, free |-> f.free, obj |-> f.obj]
  BY <1>1 DEF IsFile
<1>3. /\ IsFile(g) /\ g.size = f.size /\ g.active = b /\ g.hm = f.hm /\ g.load = f.load
      /\ g.entries = f.entries /\ g.free = f.free /\ g.obj = f.obj
  BY ONLY <1>1, <1>2 DEF IsFile
<1>4. Whole(g)
  BY <1>3, WholeSame DEF Sound
<1>5. Tabled(g)
  <2>1. Tabled(f) /\ Map(g) = Map(f) /\ DataIn(g) = DataIn(f)
    BY <1>3 DEF Sound, Map, DataIn
  <2> QED BY <1>3, <2>1 DEF Tabled
<1>6. Recovered(g) = Recovered(f)
  <2>1. \A k : Kept(g, k) = Kept(f, k)
    BY <1>3 DEF Kept
  <2>2. Worthless(g) <=> Worthless(f)
    BY <1>3 DEF Worthless
  <2> QED BY <1>3, <2>1, <2>2 DEF Recovered
<1> QED BY <1>3, <1>4, <1>5, <1>6 DEF Sound

\* desync() changes nothing but that mark.
LEMMA DesyncIs ==
    ASSUME NEW f, Sound(f), f.active \in BOOLEAN, NEW d, d = Desync(Start(f))
    PROVE  /\ Sound(d.file) /\ d.file \in d.past /\ d.file.size = f.size
           /\ Recovered(d.file) = Recovered(f) /\ d.file.active \in BOOLEAN
           /\ synced \/ f.active => d.file.active = TRUE
           /\ \A g \in d.past : g = f \/ g = d.file
<1>1. CASE ~synced
  <2>1. d.file = f /\ d.past = {f}
    BY <1>1 DEF Desync, Start
  <2> QED BY <1>1, <2>1
<1>2. CASE synced
  <2>1. PICK g : g = [f EXCEPT !.active = TRUE]
    OBVIOUS
  <2>2. d.file = g /\ d.past = {f, g}
    BY <1>2, <2>1 DEF Desync, Start, Write
  <2>3. Sound(g) /\ g.size = f.size /\ g.active = TRUE /\ Recovered(g) = Recovered(f)
    BY <2>1, Reactivated
  <2> QED BY <2>2, <2>3
<1> QED BY <1>1, <1>2

\* A run of an operation on key k, which v is the value of afterwards.
Done(f, q, k, v) ==
    /\ Sound(q.file) /\ q.file.active \in BOOLEAN
    /\ Recovered(q.file) = [Recovered(f) EXCEPT ![k] = v]
    /\ \A g \in q.past : /\ Resumes(g, Recovered(f), [Recovered(f) EXCEPT ![k] = v])
                         /\ StaysMarked(f, g) /\ g.size <= q.file.size

\* An update after desync() and rehash_if_needed() is an update of the file as
\* it was.
LEMMA UpdatedDone ==
    ASSUME NEW f, Sound(f), f.active \in BOOLEAN, NEW r, Sound(r.file),
           Recovered(r.file) = Recovered(f), r.file.active \in BOOLEAN, f.size <= r.file.size,
           synced \/ f.active => r.file.active = TRUE,
           \A g \in r.past : /\ g.active \in BOOLEAN /\ Mendable(g) /\ StaysMarked(f, g)
                             /\ Recovered(g) = Recovered(f) /\ g.size <= r.file.size,
           NEW k, NEW v, NEW q, Updated(r, q, k, v)
    PROVE  Done(f, q, k, v)
<1>1. PICK c : c = Recovered(f)
  OBVIOUS
<1>2. PICK d : d = [Recovered(f) EXCEPT ![k] = v]
  OBVIOUS
<1>3. /\ Sound(q.file) /\ q.file.active = r.file.active /\ Recovered(q.file) = d
      /\ r.file.size <= q.file.size
      /\ \A g \in q.past : g \in r.past \/ (Under(r.file, g, k, v) /\ g.size <= q.file.size)
  BY <1>2 DEF Updated
<1>4. \A g : Under(r.file, g, k, v) =>
          Mendable(g) /\ g.active = r.file.active /\ Recovered(g) \in {c, d}
  BY <1>1, <1>2 DEF Under
<1>5. r.file.size \in Nat /\ q.file.size \in Nat
  BY <1>3, WholeIs DEF Sound
<1>6. \A g : Mendable(g) => g.size \in Nat
  BY TornIs DEF Mendable
<1>8. ASSUME NEW g \in q.past
      PROVE  Resumes(g, c, d) /\ StaysMarked(f, g) /\ g.size <= q.file.size
  <2>1. CASE g \in r.past
    <3>1. /\ g.active \in BOOLEAN /\ Mendable(g) /\ StaysMarked(f, g) /\ Recovered(g) = c
          /\ g.size <= r.file.size
      BY <1>1, <1>8, <2>1
    <3>2. g.size \in Nat
      BY <1>6, <3>1
    <3>3. g.size <= q.file.size
      BY <1>3, <1>5, <3>1, <3>2
    <3> QED BY <3>1, <3>3 DEF Resumes
  <2>2. CASE Under(r.file, g, k, v) /\ g.size <= q.file.size
    <3>1. Mendable(g) /\ g.active = r.file.active /\ Recovered(g) \in {c, d}
      BY <1>4, <2>2
    <3> QED BY <2>2, <3>1 DEF Resumes, StaysMarked
  <2> QED BY <1>3, <2>1, <2>2
<1> QED BY <1>1, <1>2, <1>3, <1>8 DEF Done

\* insert() in full.
LEMMA InsertDone ==
    ASSUME NEW f, Sound(f), f.active \in BOOLEAN, f.size < MaxSize,
           NEW r, r = Rehash(Desync(Start(f))), r.file.size < MaxSize,
           NEW k \in Keys, NEW v, NEW reuse \in BOOLEAN, reuse => Map(r.file).ptr[k] = 0,
           NEW q, q = InsertRun(r, k, v, reuse)
    PROVE  Done(f, q, k, v)
<1>1. PICK d : d = Desync(Start(f))
  OBVIOUS
<1>2. /\ Sound(d.file) /\ d.file \in d.past /\ d.file.size = f.size
      /\ Recovered(d.file) = Recovered(f) /\ d.file.active \in BOOLEAN
      /\ synced \/ f.active => d.file.active = TRUE
      /\ \A g \in d.past : g = f \/ g = d.file
  BY <1>1, DesyncIs
<1>3. r = Rehash(d) /\ d.file.size < MaxSize
  BY <1>1, <1>2
<1>4. Rearranged(d, r)
  BY <1>2, <1>3, RehashIs
<1>5. /\ Sound(r.file) /\ SameData(d.file, r.file) /\ r.file.entries = d.file.entries
      /\ r.file.active = d.file.active /\ r.file \in r.past /\ d.file.size <= r.file.size
      /\ \A g \in r.past : g \in d.past \/ (Calm(d.file, g) /\ g.size <= r.file.size)
  BY <1>4 DEF Rearranged
<1>6. Mendable(d.file) /\ Mendable(r.file)
  BY <1>2, <1>5, SoundMendable
<1>7. Recovered(r.file) = Recovered(f)
  <2>1. Calm(d.file, r.file)
    BY <1>5, <1>6 DEF Calm
  <2> QED BY <1>2, <1>6, <2>1, CalmRecovered
<1>8. Updated(r, q, k, v)
  BY <1>5, InsertIs
<1>9. f.size <= r.file.size /\ r.file.active \in BOOLEAN
  BY <1>2, <1>5
<1>10. synced \/ f.active => d.file.active = TRUE /\ r.file.active = TRUE
  BY <1>2, <1>5
<1>11. ASSUME NEW g \in r.past
       PROVE  /\ g.active \in BOOLEAN /\ Mendable(g) /\ StaysMarked(f, g)
              /\ Recovered(g) = Recovered(f) /\ g.size <= r.file.size
  <2>1. CASE g = f
    BY <1>9, <2>1, SoundMendable DEF StaysMarked
  <2>2. CASE g = d.file
    BY <1>2, <1>5, <1>6, <1>10, <2>2 DEF StaysMarked
  <2>3. CASE Calm(d.file, g) /\ g.size <= r.file.size
    <3>1. Recovered(g) = Recovered(d.file)
      BY <1>6, <2>3, CalmRecovered
    <3>2. Mendable(g) /\ g.active = d.file.active
      BY <2>3 DEF Calm
    <3> QED BY <1>2, <1>10, <2>3, <3>1, <3>2 DEF StaysMarked
  <2> QED BY <1>2, <1>5, <2>1, <2>2, <2>3
<1>12. synced \/ f.active => r.file.active = TRUE
  BY <1>10
<1> QED BY <1>5, <1>7, <1>8, <1>9, <1>11, <1>12, UpdatedDone

\* remove() in full.
LEMMA RemoveDone ==
    ASSUME NEW f, Sound(f), f.active \in BOOLEAN, NEW k \in Keys,
           NEW q, q = RemoveRun(Desync(Start(f)), k)
    PROVE  Done(f, q, k, None) /\ q.file.size = f.size
<1>1. PICK d : d = Desync(Start(f))
  OBVIOUS
<1>2. /\ Sound(d.file) /\ d.file \in d.past /\ d.file.size = f.size
      /\ Recovered(d.file) = Recovered(f) /\ d.file.active \in BOOLEAN
      /\ synced \/ f.active => d.file.active = TRUE
      /\ \A g \in d.past : g = f \/ g = d.file
  BY <1>1, DesyncIs
<1>3. Updated(d, q, k, None) /\ q.file.size = f.size
  BY <1>1, <1>2, RemoveIs
<1>4. f.size \in Nat /\ f.size <= d.file.size /\ Mendable(d.file)
  BY <1>2, WholeIs, SoundMendable DEF Sound
<1>5. ASSUME NEW g \in d.past
      PROVE  /\ g.active \in BOOLEAN /\ Mendable(g) /\ StaysMarked(f, g)
             /\ Recovered(g) = Recovered(f) /\ g.size <= d.file.size
  <2>1. CASE g = f
    BY <1>4, <2>1, SoundMendable DEF StaysMarked
  <2>2. CASE g = d.file
    BY <1>2, <1>4, <2>2 DEF StaysMarked
  <2> QED BY <1>2, <2>1, <2>2
<1> QED BY <1>2, <1>3, <1>4, <1>5, UpdatedDone

\* Under the invariant the map of AtomicMap is what recover() would find.
LEMMA ContentIs ==
    /\ IInv /\ ~lost => Content = Recovered(file)
    /\ IInv' /\ ~lost' => Content' = Recovered(file')
<1> DEFINE ContentOf(f, u) ==
        [k \in Keys |->
            LET a == IF ~u /\ f.active THEN Kept(f, k) ELSE Map(f).ptr[k]
            IN  IF f.size = 0 \/ ((~u /\ f.active) /\ Worthless(f)) \/ a = 0
                THEN None ELSE f.obj[a].val]
<1>1. ASSUME NEW f, NEW u, NEW l, Ok(f, u, l), ~l PROVE ContentOf(f, u) = Recovered(f)
  <2>1. CASE ~u /\ f.active
    <3>1. f.size = 0 => Worthless(f)
      BY DEF Worthless
    <3> QED BY <2>1, <3>1 DEF Recovered
  <2>2. CASE ~(~u /\ f.active) /\ f.size = 0
    <3>1. Worthless(f)
      BY <2>2 DEF Worthless
    <3> QED BY <2>2, <3>1 DEF Recovered
  <2>3. CASE ~(~u /\ f.active) /\ f.size # 0
    <3>1. Sound(f)
      BY <1>1, <2>3 DEF Ok
    <3>2. \A k \in Keys : Kept(f, k) = Map(f).ptr[k]
      BY <3>1, SoundKept
    <3>3. ASSUME Worthless(f), NEW k \in Keys PROVE Kept(f, k) = 0
      <4>1. f.entries = 0
        BY <3>1, <3>3, WholeIs DEF Sound, Worthless
      <4>2. DataIn(f) = {}
        BY <3>1, <4>1, EntriesIs DEF Sound
      <4>3. KeyAt(f, k) = {}
        BY <4>2 DEF KeyAt, DataIn
      <4> QED BY <4>3, KeptIs
    <3> QED BY <2>3, <3>2, <3>3 DEF Recovered
  <2> QED BY <2>1, <2>2, <2>3
<1>2. Content = ContentOf(file, up) /\ Content' = ContentOf(file', up')
  BY DEF Content, Recovers
<1> HIDE DEF ContentOf
<1> QED BY <1>1, <1>2 DEF IInv

\* An operation on one key keeps the invariant, and does that operation or
\* nothing.
LEMMA DoneStep ==
    ASSUME Sound(file), up = TRUE, lost = FALSE, file.active \in BOOLEAN, file.size < MaxSize,
           NEW q, NEW k, NEW v, Done(file, q, k, v),
           q.file.size < MaxSize, NEW op, Performs(q, op)
    PROVE  /\ IInv'
           /\ \/ up /\ up' = up /\ last' = op
                 /\ Recovered(file') = [Recovered(file) EXCEPT ![k] = v]
              \/ up /\ up' = FALSE /\ last' = <<"in", op>>
                 /\ Recovered(file') \in {Recovered(file), [Recovered(file) EXCEPT ![k] = v]}
<1>1. PICK c, d : c = Recovered(file) /\ d = [Recovered(file) EXCEPT ![k] = v]
  OBVIOUS
<1>2. CASE file' = q.file /\ last' = op /\ synced' = FALSE /\ UNCHANGED <<up, lost>>
  <2>1. Sound(q.file) /\ q.file.active \in BOOLEAN /\ Recovered(q.file) = d
    BY <1>1 DEF Done
  <2> QED BY <1>1, <1>2, <2>1 DEF IInv, Ok
<1>3. CASE EndsIn(q) /\ last' = <<"in", op>> /\ lost' = ~Marked
  <2>1. /\ file' \in q.past /\ up' = FALSE /\ last' = <<"in", op>>
        /\ lost' = ~(synced \/ file.active)
    BY <1>3 DEF Marked, EndsIn
  <2>2. Resumes(file', c, d) /\ StaysMarked(file, file') /\ file'.size <= q.file.size
    BY <1>1, <2>1 DEF Done
  <2>3. Recovered(file') \in {c, d} /\ file'.active \in BOOLEAN /\ Mendable(file')
    BY <2>2 DEF Resumes
  <2>4. file'.size < MaxSize
    <3>1. file'.size \in Nat /\ q.file.size \in Nat /\ MaxSize \in Nat
      BY <2>3, TornIs, WholeIs, StartIs DEF Mendable, Done, Sound
    <3> QED BY <2>2, <3>1
  <2>5. lost' \in BOOLEAN
    BY <2>1
  <2>6. ~file'.active /\ ~lost' => file' = file
    BY <2>1, <2>2 DEF StaysMarked
  <2>7. IInv'
    BY <2>1, <2>3, <2>4, <2>5, <2>6 DEF IInv, Ok
  <2> QED BY <1>1, <2>1, <2>3, <2>7
<1> QED BY <1>2, <1>3 DEF Performs

\* What a step does to the file and the map: it becomes c, or if the process
\* ends c or d.
LEMMA InsertStep ==
    ASSUME IInv, NEW k \in Keys, NEW v \in Vals, Insert(k, v)
    PROVE  /\ IInv'
           /\ \/ up /\ up' = up /\ last' = <<"insert", k, v>>
                 /\ Recovered(file') = [Recovered(file) EXCEPT ![k] = v]
              \/ up /\ up' = FALSE /\ last' = <<"in", <<"insert", k, v>>>>
                 /\ Recovered(file') \in {Recovered(file), [Recovered(file) EXCEPT ![k] = v]}
<1>1. up = TRUE /\ lost = FALSE /\ Sound(file) /\ file.active \in BOOLEAN /\ file.size < MaxSize
  BY DEF Insert, IInv, Ok
<1>2. PICK r : r = Rehash(Desync(Start(file)))
  OBVIOUS
<1>3. PICK reuse \in BOOLEAN :
          /\ r.file.size < MaxSize
          /\ reuse => Map(r.file).ptr[k] = 0
          /\ \E done \in {InsertRun(r, k, v, reuse)} :
                done.file.size < MaxSize /\ Performs(done, <<"insert", k, v>>)
  BY <1>2 DEF Insert
<1>4. PICK q : /\ q = InsertRun(r, k, v, reuse) /\ q.file.size < MaxSize
               /\ Performs(q, <<"insert", k, v>>)
  BY <1>3
<1>5. Done(file, q, k, v)
  BY <1>1, <1>2, <1>3, <1>4, InsertDone
<1> QED BY <1>1, <1>4, <1>5, DoneStep

\* Such as remove().
LEMMA RemoveStep ==
    ASSUME IInv, NEW k \in Keys, RemoveKey(k)
    PROVE  /\ IInv'
           /\ \/ up /\ up' = up /\ last' = <<"remove", k>>
                 /\ Recovered(file') = [Recovered(file) EXCEPT ![k] = None]
              \/ up /\ up' = FALSE /\ last' = <<"in", <<"remove", k>>>>
                 /\ Recovered(file') \in {Recovered(file), [Recovered(file) EXCEPT ![k] = None]}
<1>1. up = TRUE /\ lost = FALSE /\ Sound(file) /\ file.active \in BOOLEAN /\ file.size < MaxSize
  BY DEF RemoveKey, IInv, Ok
<1>2. PICK q : q = RemoveRun(Desync(Start(file)), k) /\ Performs(q, <<"remove", k>>)
  BY DEF RemoveKey
<1>3. Done(file, q, k, None) /\ q.file.size < MaxSize
  BY <1>1, <1>2, RemoveDone
<1> QED BY <1>1, <1>2, <1>3, DoneStep

\* reset() keeps it and empties the map, or ends as if it had or had not.
LEMMA ResetStep ==
    ASSUME IInv, Reset
    PROVE  /\ IInv'
           /\ \/ up /\ up' = up /\ last' = <<"reset">> /\ Recovered(file') = Nothing
              \/ up /\ up' = FALSE /\ last' = <<"in", <<"reset">>>>
                 /\ Recovered(file') \in {Recovered(file), Nothing}
<1>1. /\ up = TRUE /\ lost = FALSE /\ lost' = FALSE
      /\ Sound(file) /\ file.active \in BOOLEAN /\ file.size < MaxSize
  BY DEF Reset, IInv, Ok
<1>2. PICK q : /\ q = CreateRun(Write(Start(file), EmptyFile))
               /\ \/ file' = q.file /\ last' = <<"reset">> /\ UNCHANGED <<up, synced>>
                  \/ EndsIn(q) /\ last' = <<"in", <<"reset">>>>
  BY DEF Reset
<1>3. Created(Write(Start(file), EmptyFile), q)
  BY <1>2, CreateIs
<1>4. /\ Sound(q.file) /\ q.file.size < MaxSize /\ q.file.active = TRUE
      /\ Recovered(q.file) = Nothing
      /\ \A g \in q.past : \/ g = file \/ g = EmptyFile \/ (g.active = TRUE /\ Worthless(g))
  BY <1>3, StartIs DEF Created, Write, Start
<1>5. CASE file' = q.file /\ last' = <<"reset">> /\ UNCHANGED <<up, synced>>
  BY <1>1, <1>4, <1>5 DEF IInv, Ok
<1>6. CASE EndsIn(q) /\ last' = <<"in", <<"reset">>>>
  <2>1. file' \in q.past /\ up' = FALSE
    BY <1>6 DEF EndsIn
  <2>2. EmptyFile.size = 0 /\ EmptyFile.active = FALSE
    BY DEF EmptyFile
  <2>3. CASE file' = file
    BY <1>1, <1>6, <2>1, <2>3, SoundMendable DEF IInv, Ok
  <2>4. CASE file' = EmptyFile
    <3>1. Worthless(file')
      BY <2>2, <2>4 DEF Worthless
    <3> QED BY <1>1, <1>6, <2>1, <2>2, <2>4, <3>1, WorthlessRecovered DEF IInv, Ok
  <2>5. CASE file'.active = TRUE /\ Worthless(file')
    BY <1>1, <1>6, <2>1, <2>5, WorthlessRecovered DEF IInv, Ok
  <2> QED BY <1>4, <2>1, <2>3, <2>4, <2>5
<1> QED BY <1>2, <1>5, <1>6

\* sync() changes nothing of the map,
LEMMA SyncStep ==
    ASSUME IInv, Sync
    PROVE  IInv' /\ up' = up /\ last' = last /\ Recovered(file') = Recovered(file)
<1>1. up = TRUE /\ lost = FALSE /\ lost' = FALSE /\ Sound(file) /\ file.size < MaxSize
  BY DEF Sync, IInv, Ok
<1>2. IsFile(file)
  BY <1>1, WholeIs DEF Sound
<1>3. PICK f : f = file
  OBVIOUS
<1>4. PICK g : g = file'
  OBVIOUS
<1>5. g = [f EXCEPT !.active = FALSE] /\ up' = up /\ last' = last
  BY <1>3, <1>4 DEF Sync
<1>6. Sound(g) /\ g.size = f.size /\ g.active = FALSE /\ Recovered(g) = Recovered(f)
  BY <1>1, <1>2, <1>3, <1>5, Reactivated
<1> QED BY <1>1, <1>3, <1>4, <1>5, <1>6 DEF IInv, Ok

\* nor does the end of the process between two operations,
LEMMA CloseStep ==
    ASSUME IInv, Close
    PROVE  IInv' /\ up /\ up' = FALSE /\ last' = None /\ Recovered(file') = Recovered(file)
<1>1. /\ up = TRUE /\ lost = FALSE /\ lost' = FALSE
      /\ Sound(file) /\ file.active \in BOOLEAN /\ file.size < MaxSize
  BY DEF Close, IInv, Ok
<1>2. file' = file /\ up' = FALSE /\ last' = None
  BY DEF Close, EndsIn, Start
<1> QED BY <1>1, <1>2, SoundMendable DEF IInv, Ok

\* nor open(), whether it recovers the file or not, and wherever the process
\* ends in it.
LEMMA OpenStep ==
    ASSUME IInv, Open
    PROVE  /\ IInv' /\ Recovered(file') = Recovered(file)
           /\ \/ ~up /\ up' = TRUE /\ last' = None
              \/ ~up /\ up' = FALSE /\ last' = last
<1>1. /\ up = FALSE /\ lost = FALSE /\ lost' = FALSE /\ file.active \in BOOLEAN
      /\ ~Overruns(file)
  BY DEF Open, IInv, Ok
<1>2. PICK q : /\ q = OpenRun(file)
               /\ \/ file' = q.file /\ up' = TRUE /\ last' = None /\ UNCHANGED synced
                  \/ EndsIn(q) /\ UNCHANGED last
  BY DEF Open
<1>3. PICK r : r = Start(file)
  OBVIOUS
<1>4. r.file = file /\ r.past = {file}
  BY <1>3 DEF Start
<1>5. SUFFICES
        /\ Sound(q.file) /\ q.file.size < MaxSize /\ q.file.active \in BOOLEAN
        /\ Recovered(q.file) = Recovered(file)
        /\ \A g \in q.past : Ok(g, FALSE, FALSE) /\ Recovered(g) = Recovered(file)
  BY <1>1, <1>2 DEF EndsIn, IInv, Ok
<1>6. Ok(file, FALSE, FALSE)
  BY <1>1 DEF IInv
<1>7. CASE file.size = 0 \/ (file.active /\ Worthless(file))
  <2>1. q = CreateRun(r)
    BY <1>2, <1>3, <1>7 DEF OpenRun
  <2>2. Created(r, q)
    BY <2>1, CreateIs
  <2>3. Worthless(file)
    BY <1>7 DEF Worthless
  <2>4. Recovered(file) = Nothing
    BY <2>3, WorthlessRecovered
  <2>5. \A g \in q.past : g = file \/ (g.active = TRUE /\ Worthless(g))
    BY <1>4, <2>2 DEF Created
  <2> QED BY <1>6, <2>2, <2>4, <2>5, WorthlessRecovered, StartIs DEF Created, Ok
<1>8. CASE file.size # 0 /\ ~file.active
  <2>1. q = r
    BY <1>2, <1>3, <1>8 DEF OpenRun
  <2>2. Sound(file) /\ file.size < MaxSize
    BY <1>6, <1>8 DEF Ok
  <2> QED BY <1>1, <1>4, <1>6, <2>1, <2>2
<1>9. CASE file.size # 0 /\ file.active /\ ~Worthless(file)
  <2>1. q = RecoverRun(r)
    BY <1>2, <1>3, <1>9 DEF OpenRun
  <2>2. Mendable(file) /\ file.size < MaxSize
    BY <1>6, <1>9 DEF Ok
  <2>3. \E s \in Sizes : Found(r).free[s] # 0
    BY <1>1, <1>3, <1>9 DEF Overruns
  <2>4. Restored(r, q)
    BY <1>4, <1>9, <2>1, <2>2, <2>3, RecoverIs
  <2>5. /\ Sound(q.file) /\ q.file.size = file.size /\ q.file.active = file.active
        /\ q.file \in q.past /\ Recovered(q.file) = Recovered(file)
        /\ \A g \in q.past : g = file \/ (Restores(file, g) /\ g.size = file.size)
    BY <1>4, <2>4 DEF Restored
  <2>6. file.active = TRUE
    BY <1>1, <1>9
  <2>7. ASSUME NEW g \in q.past PROVE Ok(g, FALSE, FALSE) /\ Recovered(g) = Recovered(file)
    BY <1>6, <2>2, <2>5, <2>6 DEF Restores, Ok
  <2> QED BY <2>2, <2>5, <2>6, <2>7
<1> QED BY <1>1, <1>7, <1>8, <1>9

\* Nor does open() of a file with nothing free change it before it is lost.
LEMMA OverrunStep ==
    ASSUME IInv, Overrun
    PROVE  IInv' /\ lost'
BY DEF Overrun, Overruns, IInv, Ok

------------------------------------------------------------------------------
(* Theorems.                                                               *)

\* A new file has the invariant and an empty map.
LEMMA InitOk ==
    ASSUME Init
    PROVE  IInv /\ up = TRUE /\ last = None /\ lost = FALSE /\ Recovered(file) = Nothing
<1>1. PICK q : /\ q = CreateRun(Start(EmptyFile)) /\ file = q.file
               /\ up = TRUE /\ last = None /\ lost = FALSE
  BY DEF Init
<1>2. Created(Start(EmptyFile), q)
  BY <1>1, CreateIs
<1> QED BY <1>1, <1>2, StartIs DEF Created, IInv, Ok

\* Every step keeps the invariant.
LEMMA NextOk ==
    ASSUME IInv, [Next]_vars
    PROVE  IInv'
<1>1. CASE UNCHANGED vars
  BY <1>1 DEF vars, IInv
<1>2. ASSUME NEW k \in Keys, NEW v \in Vals, Insert(k, v) PROVE IInv'
  BY <1>2, InsertStep
<1>3. ASSUME NEW k \in Keys, RemoveKey(k) PROVE IInv'
  BY <1>3, RemoveStep
<1>4. CASE Reset
  BY <1>4, ResetStep
<1>5. CASE Sync
  BY <1>5, SyncStep
<1>6. CASE Close
  BY <1>6, CloseStep
<1>7. CASE Open
  BY <1>7, OpenStep
<1>8. CASE Overrun
  BY <1>8, OverrunStep
<1> QED BY <1>1, <1>2, <1>3, <1>4, <1>5, <1>6, <1>7, <1>8 DEF Next

\* Between two operations the file is sound, and wherever the process ended, it
\* is one that recover() can mend, or that holds nothing and is made anew.  Of
\* what becomes of it after an end in an operation on a file not marked as in
\* use, or in the recovery of one with nothing free, it says nothing.
THEOREM Mends == Spec => []IInv
<1>1. Init => IInv
  BY InitOk
<1>2. IInv /\ [Next]_vars => IInv'
  BY NextOk
<1> QED BY <1>1, <1>2, PTL DEF Spec

\* Between two operations objects, lists, hashmap and counts are what fsck()
\* (staticmap.cpp:510) requires of them, in every file and for every map: after
\* any operations, ends of the process in the middle of them or of a recovery,
\* and recoveries.  Of the marks of empty lists, which fsck() looks at too, it
\* says nothing.
THEOREM StaysWellFormed == Spec => []WellFormed
<1>1. IInv => WellFormed
  BY SoundWellFormed DEF IInv, Ok, WellFormed
<1> QED BY <1>1, Mends, PTL

\* recover() gets to the end of the file, misses no object, and finds at most
\* one that is too many (the comment at staticmap.cpp:141).
THEOREM OneStrayHolds == Spec => []OneStray
<1>1. ASSUME IInv, ~up, file.active \/ lost, ~Worthless(file) PROVE OneStray
  <2>1. Mendable(file)
    BY <1>1 DEF IInv, Ok
  <2>2. PICK r : r = Start(file)
    OBVIOUS
  <2>3. r.file = file /\ r.file \in r.past
    BY <2>2 DEF Start
  <2>4. PICK w : w = Found(r)
    OBVIOUS
  <2>5. Complete(file, w)
    BY <2>1, <2>3, <2>4, FoundSeen
  <2>6. w.at = file.size /\ w.ptr = [k \in Keys |-> Kept(file, k)]
        /\ w.strays \subseteq Offsets /\ \A x \in w.strays, y \in w.strays : x = y
    BY <2>5 DEF Complete
  <2>7. Cardinality(w.strays) <= 1
    <3>1. CASE w.strays = {}
      BY <3>1, FS_EmptySet
    <3>2. CASE w.strays # {}
      <4>1. PICK x : x \in w.strays
        BY <3>2
      <4>2. w.strays = {x}
        BY <2>6, <4>1
      <4>3. Cardinality(w.strays) = 1
        BY ONLY <4>2, FS_Singleton
      <4> QED BY <4>3
    <3> QED BY <3>1, <3>2
  <2> QED BY <2>2, <2>4, <2>6, <2>7 DEF OneStray
<1>2. IInv => OneStray
  BY <1>1 DEF OneStray
<1> QED BY <1>2, Mends, PTL

\* Every step after which the file is not lost is one of AtomicMap or leaves its
\* state alone.
LEMMA MapStep ==
    ASSUME IInv, Next, ~lost'
    PROVE  [Promise!Next]_(Promise!mapVars)
<1> DEFINE c == Recovered(file)
<1> DEFINE d == Recovered(file')
<1>0. ~lost /\ ~Overrun
  BY DEF Next, Insert, RemoveKey, Reset, Sync, Close, Open, Overrun, IInv, Ok
<1>1. Content = c /\ Content' = d
  <2>1. IInv'
    BY NextOk
  <2> QED BY <1>0, <2>1, ContentIs
<1>2. \A k \in Keys, v \in Vals : <<"insert", k, v>> \in Promise!Ops
  BY DEF Promise!Ops
<1>3. \A k \in Keys : <<"remove", k>> \in Promise!Ops
  BY DEF Promise!Ops
<1>4. <<"reset">> \in Promise!Ops
  BY DEF Promise!Ops
<1>6. ASSUME NEW op \in Promise!Ops, NEW x, Promise!Apply(op) = x,
             \/ up /\ up' = up /\ last' = op /\ d = x
             \/ up /\ up' = FALSE /\ last' = <<"in", op>> /\ d \in {c, x}
      PROVE  Promise!Next
  <2>1. CASE up /\ up' = up /\ last' = op /\ d = x
    BY <1>1, <1>6, <2>1 DEF Promise!Next, Promise!Do
  <2>2. CASE up /\ up' = FALSE /\ last' = <<"in", op>> /\ d \in {c, x}
    BY <1>1, <1>6, <2>2 DEF Promise!Next, Promise!End
  <2> QED BY <1>6, <2>1, <2>2
<1>7. ASSUME NEW k \in Keys, NEW v \in Vals, Insert(k, v) PROVE Promise!Next
  <2>1. PICK op : op = <<"insert", k, v>>
    OBVIOUS
  <2>2. op[1] = "insert" /\ op[2] = k /\ op[3] = v
    BY <2>1
  <2>3. Promise!Apply(op) = [c EXCEPT ![k] = v]
    BY <1>1, <2>2 DEF Promise!Apply
  <2>4. PICK x : x = [c EXCEPT ![k] = v]
    OBVIOUS
  <2>5. \/ up /\ up' = up /\ last' = op /\ d = x
        \/ up /\ up' = FALSE /\ last' = <<"in", op>> /\ d \in {c, x}
    BY <1>7, <2>1, <2>4, InsertStep
  <2> QED BY <1>2, <1>6, <2>1, <2>3, <2>4, <2>5
<1>8. ASSUME NEW k \in Keys, RemoveKey(k) PROVE Promise!Next
  <2>1. PICK op : op = <<"remove", k>>
    OBVIOUS
  <2>2. op[1] = "remove" /\ op[2] = k
    BY <2>1
  <2>3. Promise!Apply(op) = [c EXCEPT ![k] = None]
    BY <1>1, <2>2 DEF Promise!Apply
  <2>4. PICK x : x = [c EXCEPT ![k] = None]
    OBVIOUS
  <2>5. \/ up /\ up' = up /\ last' = op /\ d = x
        \/ up /\ up' = FALSE /\ last' = <<"in", op>> /\ d \in {c, x}
    BY <1>8, <2>1, <2>4, RemoveStep
  <2> QED BY <1>3, <1>6, <2>1, <2>3, <2>4, <2>5
<1>9. CASE Reset
  <2>1. PICK op : op = <<"reset">>
    OBVIOUS
  <2>2. op[1] = "reset"
    BY <2>1
  <2>3. Promise!Apply(op) = Nothing
    BY <2>2 DEF Promise!Apply, Nothing
  <2>4. \/ up /\ up' = up /\ last' = op /\ d = Nothing
        \/ up /\ up' = FALSE /\ last' = <<"in", op>> /\ d \in {c, Nothing}
    BY <1>9, <2>1, ResetStep
  <2> QED BY <1>4, <1>6, <2>1, <2>3, <2>4
<1>10. CASE Sync
  BY <1>1, <1>10, SyncStep DEF Promise!mapVars
<1>11. CASE Close
  BY <1>1, <1>11, CloseStep DEF Promise!Next, Promise!EndIdle
<1>12. CASE Open
  <2>1. d = c /\ \/ ~up /\ up' = TRUE /\ last' = None
                 \/ ~up /\ up' = FALSE /\ last' = last
    BY <1>12, OpenStep
  <2>2. CASE ~up /\ up' = TRUE /\ last' = None
    BY <1>1, <2>1, <2>2 DEF Promise!Next, Promise!Reopen
  <2>3. CASE ~up /\ up' = FALSE /\ last' = last
    <3>1. up' = up
      BY <2>3 DEF IInv, Ok
    <3> QED BY <1>1, <2>1, <2>3, <3>1 DEF Promise!mapVars
  <2> QED BY <2>1, <2>2, <2>3
<1> QED BY <1>0, <1>7, <1>8, <1>9, <1>10, <1>11, <1>12 DEF Next

\* The file implements a map of which each operation happens at once, or, if
\* the process ends in it, happened or did not; what has returned stays.  Until
\* a step that makes the file lost: an end in an operation on a file not marked
\* as in use, or the recovery of one with nothing free.
THEOREM MapKept == Spec => KeepsMap
<1>1. Init => Promise!Init
  <2>1. SUFFICES ASSUME Init PROVE Promise!Init
    OBVIOUS
  <2>2. IInv /\ up = TRUE /\ last = None /\ lost = FALSE /\ Recovered(file) = Nothing
    BY <2>1, InitOk
  <2>3. Content = Nothing
    BY <2>2, ContentIs
  <2> QED BY <2>2, <2>3 DEF Promise!Init, Nothing
<1>2. IInv /\ [Next]_vars => [~lost' => Promise!Next]_(Promise!mapVars)
  <2>1. CASE UNCHANGED vars
    <3>1. Content' = Content
      BY <2>1 DEF vars, Content, Recovers
    <3> QED BY <2>1, <3>1 DEF vars, Promise!mapVars
  <2>2. ASSUME IInv, Next PROVE [~lost' => Promise!Next]_(Promise!mapVars)
    BY <2>2, MapStep
  <2> QED BY <2>1, <2>2
<1> QED BY <1>1, <1>2, Mends, PTL DEF Spec, KeepsMap
=============================================================================

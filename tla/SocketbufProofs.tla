--------------------------- MODULE SocketbufProofs ---------------------------
(***************************************************************************)
(* Proofs about Bytepipe and Socketbuf, for buffers and reads of any size. *)
(* A pipe holds the bytes a+1 to b of a stream, wherever they lie in its   *)
(* two buffers (Holds); what each method does to a and b is a lemma, and   *)
(* the invariant of the socketbuf says which bytes its two pipes hold.     *)
(***************************************************************************)
EXTENDS Socketbuf, FunctionTheorems, SequenceTheorems, WellFoundedInduction,
        NaturalsInduction, TLAPS

Pipe == [buf1 : Seq(Int), st1 : Nat, end1 : Nat, buf2 : Seq(Int), st2 : Nat, end2 : Nat]

\* Both buffers have room for something, and what is used of them is inside:
\* in the first the bytes a+1, a+2 ... and in the second those that follow, up
\* to b.
Lies(b1, s1, e1, b2, s2, e2, a, b) ==
    /\ s1 <= e1 /\ e1 <= Len(b1) /\ 1 <= Len(b1)
    /\ s2 <= e2 /\ e2 <= Len(b2) /\ 1 <= Len(b2)
    /\ b - a = (e1 - s1) + (e2 - s2)
    /\ \A k \in Nat : s1 < k /\ k <= e1 => b1[k] = a + (k - s1)
    /\ \A k \in Nat : s2 < k /\ k <= e2 => b2[k] = a + (e1 - s1) + (k - s2)

\* The pipe holds the bytes a+1 to b of a stream, in order.
Holds(p, a, b) ==
    p \in Pipe /\ Lies(p.buf1, p.st1, p.end1, p.buf2, p.st2, p.end2, a, b)

-----------------------------------------------------------------------------
(* How a buffer grows.                                                     *)

\* Every nonempty set of naturals has a least element.
LEMMA LeastOfNat ==
    ASSUME NEW T \in SUBSET Nat, T # {}
    PROVE  \E m \in T : \A k \in T : m <= k
<1>1. \A j, k \in Nat : j < k => <<j, k>> \in OpToRel(<, Nat)
  BY Zenon DEF OpToRel
<1>2. PICK R : IsWellFoundedOn(R, Nat) /\ \A j, k \in Nat : j < k => <<j, k>> \in R
  BY <1>1, NatLessThanWellFounded, Zenon
<1>3. T \subseteq Nat /\ T # {} /\ IsWellFoundedOn(R, Nat)
  BY <1>2
<1>4. \E m \in T : \A k \in T : ~(<<k, m>> \in R)
  BY <1>3, WFMin, Zenon
<1>5. PICK m \in T : \A k \in T : ~(<<k, m>> \in R)
  BY <1>4
<1>6. \A k \in T : ~(k < m)
  BY <1>2, <1>5, Zenon
<1> QED BY <1>6

\* The sizes s, 2s, 4s ... up to the n-th.
Sizes(f, s, n) ==
    /\ f \in [0..n -> Nat]
    /\ f[0] = s
    /\ \A k \in 1..n : f[k] = 2 * f[k - 1]

\* There are such sizes, as many as one likes.
LEMMA SizesExist ==
    ASSUME NEW s \in Nat, NEW n \in Nat
    PROVE  \E f : Sizes(f, s, n)
<1> DEFINE T == {k \in Nat : ~ \E f : Sizes(f, s, k)}
<1>1. SUFFICES ASSUME T # {} PROVE FALSE
  OBVIOUS
<1>2. PICK m \in T : \A k \in T : m <= k
  BY <1>1, LeastOfNat
<1>3. m # 0
  <2>1. Sizes([k \in 0..0 |-> s], s, 0)
    BY DEF Sizes
  <2> QED BY <2>1
<1>4. m - 1 \in Nat /\ m - 1 \notin T
  BY <1>2, <1>3
<1>5. PICK f : Sizes(f, s, m - 1)
  BY <1>4
<1> DEFINE g == [k \in 0..m |-> IF k = m THEN 2 * f[m - 1] ELSE f[k]]
<1>6. Sizes(g, s, m)
  <2>1. m - 1 \in 0..(m - 1) /\ f[m - 1] \in Nat
    BY <1>4, <1>5 DEF Sizes
  <2>2. \A k \in 0..m : g[k] \in Nat
    BY <1>5, <2>1 DEF Sizes
  <2>3. g \in [0..m -> Nat]
    BY <2>2
  <2>4. g[0] = s
    BY <1>3, <1>5 DEF Sizes
  <2>5. \A k \in 1..m : g[k] = 2 * g[k - 1]
    BY <1>5 DEF Sizes
  <2> HIDE DEF g
  <2> QED BY <2>3, <2>4, <2>5 DEF Sizes
<1> QED BY <1>6

\* And they are the same however many are asked for.
LEMMA SizesAgree ==
    ASSUME NEW s \in Nat, NEW m \in Nat, NEW n \in Nat, m <= n,
           NEW f, NEW g, Sizes(f, s, m), Sizes(g, s, n),
           NEW k \in 0..m
    PROVE  f[k] = g[k]
<1> DEFINE T == {j \in 0..m : f[j] # g[j]}
<1>1. SUFFICES ASSUME T # {} PROVE FALSE
  OBVIOUS
<1>2. PICK j \in T : \A i \in T : j <= i
  <2>1. T \in SUBSET Nat
    OBVIOUS
  <2> HIDE DEF T
  <2> QED BY <1>1, <2>1, LeastOfNat
<1>3. j # 0
  BY DEF Sizes
<1>4. j - 1 \in 0..m /\ j - 1 \notin T
  BY <1>2, <1>3
<1> QED BY <1>2, <1>3, <1>4 DEF Sizes

\* The recursion of Doubled has the solution it seems to have.
LEMMA SizesDefined ==
    ASSUME NEW s \in Nat
    PROVE  \E f : f = [k \in Nat |-> IF k = 0 THEN s ELSE 2 * f[k - 1]]
<1> DEFINE upTo(n) == CHOOSE f : Sizes(f, s, n)
           F == [n \in Nat |-> upTo(n)[n]]
<1>1. \A n \in Nat : Sizes(upTo(n), s, n)
  BY SizesExist
<1> HIDE DEF upTo
<1>2. F[0] = s
  BY <1>1 DEF Sizes
<1>3. ASSUME NEW k \in Nat, k # 0 PROVE F[k] = 2 * F[k - 1]
  <2>1. k - 1 \in Nat /\ k - 1 <= k /\ k - 1 \in 0..(k - 1) /\ k \in 1..k
    BY <1>3
  <2>2. upTo(k - 1)[k - 1] = upTo(k)[k - 1]
    BY <1>1, <2>1, SizesAgree
  <2>3. upTo(k)[k] = 2 * upTo(k)[k - 1]
    BY <1>1, <2>1 DEF Sizes
  <2> QED BY <2>1, <2>2, <2>3
<1>4. F = [k \in Nat |-> IF k = 0 THEN s ELSE 2 * F[k - 1]]
  <2>1. \A k \in Nat : F[k] = IF k = 0 THEN s ELSE 2 * F[k - 1]
    BY <1>2, <1>3
  <2>2. F = [k \in Nat |-> F[k]]
    OBVIOUS
  <2> HIDE DEF F
  <2> QED BY <2>1, <2>2
<1> QED BY <1>4

\* The loop of push_begin() ends with a buffer that is large enough, and not
\* smaller than it was, if it was not empty.
LEMMA DoubledFits ==
    ASSUME NEW s \in Nat, s >= 1, NEW need \in Nat
    PROVE  Doubled(s, need) \in Nat /\ Doubled(s, need) >= need /\ Doubled(s, need) >= s
<1> DEFINE size == CHOOSE f : f = [k \in Nat |-> IF k = 0 THEN s ELSE 2 * f[k - 1]]
           fits(k) == size[k] >= need /\ \A j \in 0..(k - 1) : size[j] < need
           last == CHOOSE k \in 0..need : fits(k)
<1>1. size = [k \in Nat |-> IF k = 0 THEN s ELSE 2 * size[k - 1]]
  BY SizesDefined
<1>2. Doubled(s, need) = size[last]
  BY DEF Doubled
<1> HIDE DEF size
<1>3. size[0] = s /\ \A k \in Nat : k # 0 => size[k] = 2 * size[k - 1]
  BY <1>1
<1>4. \A k \in Nat : size[k] \in Nat /\ size[k] >= k + 1 /\ size[k] >= s
  <2> DEFINE T == {k \in Nat : ~(size[k] \in Nat /\ size[k] >= k + 1 /\ size[k] >= s)}
  <2>1. SUFFICES ASSUME T # {} PROVE FALSE
    OBVIOUS
  <2>2. PICK m \in T : \A k \in T : m <= k
    BY <2>1, LeastOfNat
  <2>3. m # 0
    BY <1>3
  <2>4. m - 1 \in Nat /\ m - 1 \notin T
    BY <2>2, <2>3
  <2> QED BY <1>3, <2>2, <2>3, <2>4
<1>5. \E k \in 0..need : fits(k)
  <2> DEFINE T == {k \in Nat : size[k] >= need}
  <2>1. need \in T
    BY <1>4
  <2>2. PICK m \in T : \A k \in T : m <= k
    BY <2>1, LeastOfNat
  <2>3. m \in 0..need
    BY <2>1, <2>2
  <2>4. \A j \in 0..(m - 1) : size[j] < need
    BY <1>4, <2>2
  <2> QED BY <2>2, <2>3, <2>4
<1>6. last \in 0..need /\ size[last] >= need
  BY <1>5
<1> HIDE DEF last
<1> QED BY <1>2, <1>4, <1>6

-----------------------------------------------------------------------------
(* What the buffers are copied and cut into.                               *)

\* A function on 1..n is a sequence of that length.
LEMMA SeqOfLen ==
    ASSUME NEW n \in Nat, NEW c \in [1..n -> Int]
    PROVE  c \in Seq(Int) /\ Len(c) = n
<1>1. c \in Seq(Int)
  BY SeqDef
<1>2. Len(c) \in Nat /\ 1..Len(c) = 1..n
  BY <1>1, LenProperties
<1>3. \A i \in Int : i \in 1..Len(c) <=> i \in 1..n
  BY <1>2, Zenon
<1>4. (Len(c) >= 1 => Len(c) <= n) /\ (n >= 1 => n <= Len(c))
  BY <1>2, <1>3
<1> QED BY <1>1, <1>2, <1>4

\* A new buffer has its size and any contents.
LEMMA FreshIs ==
    ASSUME NEW n \in Nat
    PROVE  Fresh(n) \in Seq(Int) /\ Len(Fresh(n)) = n
<1>1. Fresh(n) \in [1..n -> Int]
  BY DEF Fresh
<1> QED BY <1>1, SeqOfLen

\* The bytes fit into the buffer from st on.
Fits(buf, st, bytes) ==
    buf \in Seq(Int) /\ st \in Nat /\ bytes \in Seq(Int) /\ st + Len(bytes) <= Len(buf)

\* The buffer c is buf, with the bytes from st on.
IsCopied(c, buf, st, bytes) ==
    /\ c \in Seq(Int) /\ Len(c) = Len(buf)
    /\ \A i \in 1..Len(buf) :
          c[i] = IF st < i /\ i <= st + Len(bytes) THEN bytes[i - st] ELSE buf[i]

\* What memcpy() does to a buffer.
LEMMA CopiedIs ==
    ASSUME NEW buf, NEW st, NEW bytes, Fits(buf, st, bytes)
    PROVE  IsCopied(Copied(buf, st, bytes), buf, st, bytes)
<1> USE DEF Fits, IsCopied
<1> DEFINE c == Copied(buf, st, bytes)
<1>1. Len(buf) \in Nat /\ Len(bytes) \in Nat
  BY LenProperties
<1>2. \A i \in 1..Len(buf) :
         c[i] = IF st < i /\ i <= st + Len(bytes) THEN bytes[i - st] ELSE buf[i]
  <2> SUFFICES ASSUME NEW i \in 1..Len(buf)
               PROVE  c[i] = IF st < i /\ i <= st + Len(bytes) THEN bytes[i - st] ELSE buf[i]
    OBVIOUS
  <2>1. i \in (st + 1)..(st + Len(bytes)) <=> st < i /\ i <= st + Len(bytes)
    BY <1>1
  <2>2. c[i] = IF i \in (st + 1)..(st + Len(bytes)) THEN bytes[i - st] ELSE buf[i]
    BY DEF Copied
  <2> QED BY <2>1, <2>2, Zenon
<1>3. \A i \in 1..Len(buf) : c[i] \in Int
  <2> SUFFICES ASSUME NEW i \in 1..Len(buf) PROVE c[i] \in Int
    OBVIOUS
  <2>1. st < i /\ i <= st + Len(bytes) => i - st \in 1..Len(bytes)
    BY <1>1
  <2>2. buf[i] \in Int
    BY ElementOfSeq
  <2>3. st < i /\ i <= st + Len(bytes) => bytes[i - st] \in Int
    BY <2>1, ElementOfSeq
  <2> QED BY <1>2, <2>2, <2>3
<1>4. c = [i \in 1..Len(buf) |-> c[i]]
  BY DEF Copied
<1> HIDE DEF c
<1>5. c \in [1..Len(buf) -> Int]
  BY <1>3, <1>4
<1>6. c \in Seq(Int) /\ Len(c) = Len(buf)
  BY <1>1, <1>5, SeqOfLen
<1> QED BY <1>2, <1>6 DEF c

\* Two ends of a part of a buffer.
IsPart(buf, st, end) ==
    buf \in Seq(Int) /\ st \in Nat /\ end \in Nat /\ st <= end /\ end <= Len(buf)

\* The bytes between them.
IsSlice(c, buf, st, end) ==
    /\ c \in Seq(Int) /\ Len(c) = end - st
    /\ \A i \in 1..(end - st) : c[i] = buf[st + i]

\* The bytes of a buffer from st to end.
LEMMA SliceIs ==
    ASSUME NEW buf, NEW st, NEW end, IsPart(buf, st, end)
    PROVE  IsSlice(Slice(buf, st, end), buf, st, end)
<1> USE DEF IsPart, IsSlice
<1>1. Len(buf) \in Nat
  BY LenProperties
<1>2. \A i \in (st + 1)..end : i \in 1..Len(buf)
  BY <1>1
<1>3. \A i \in (st + 1)..end : buf[i] \in Int
  BY <1>2, ElementOfSeq
<1> DEFINE c == SubSeq(buf, st + 1, end)
<1>4. /\ c \in Seq(Int)
      /\ Len(c) = IF st + 1 <= end THEN end - (st + 1) + 1 ELSE 0
      /\ \A i \in 1..(end - (st + 1) + 1) : c[i] = buf[st + 1 + i - 1]
  BY <1>3, SubSeqProperties
<1> HIDE DEF c
<1>5. Len(c) = end - st /\ end - (st + 1) + 1 = end - st
  BY <1>4
<1>6. \A i \in 1..(end - st) : st + 1 + i - 1 = st + i
  OBVIOUS
<1>7. \A i \in 1..(end - st) : c[i] = buf[st + i]
  BY <1>4, <1>5, <1>6
<1> QED BY <1>4, <1>5, <1>7 DEF c, Slice

\* A run of the stream.
LEMMA BytesIs ==
    ASSUME NEW a \in Nat, NEW n \in Nat
    PROVE  /\ Bytes(a, n) \in Seq(Int) /\ Len(Bytes(a, n)) = n
           /\ \A i \in 1..n : Bytes(a, n)[i] = a + i
<1>1. Bytes(a, n) \in [1..n -> Int] /\ \A i \in 1..n : Bytes(a, n)[i] = a + i
  BY DEF Bytes
<1> QED BY <1>1, SeqOfLen

-----------------------------------------------------------------------------
(* The methods of the pipe.                                                *)

\* A pipe, made of its parts.
PipeOf(b1, s1, e1, b2, s2, e2) ==
    [buf1 |-> b1, st1 |-> s1, end1 |-> e1, buf2 |-> b2, st2 |-> s2, end2 |-> e2]

\* A pipe that holds bytes has two buffers in which they lie,
LEMMA PipeParts ==
    ASSUME NEW p, NEW a, NEW b, Holds(p, a, b)
    PROVE  \E b1, b2 \in Seq(Int), s1, e1, s2, e2 \in Nat :
              p = PipeOf(b1, s1, e1, b2, s2, e2) /\ Lies(b1, s1, e1, b2, s2, e2, a, b)
<1>1. /\ p.buf1 \in Seq(Int) /\ p.buf2 \in Seq(Int)
      /\ p.st1 \in Nat /\ p.end1 \in Nat /\ p.st2 \in Nat /\ p.end2 \in Nat
      /\ p = PipeOf(p.buf1, p.st1, p.end1, p.buf2, p.st2, p.end2)
  BY DEF Holds, Pipe, PipeOf
<1>2. Lies(p.buf1, p.st1, p.end1, p.buf2, p.st2, p.end2, a, b)
  BY DEF Holds
<1> QED BY <1>1, <1>2, Zenon

\* and two such buffers are a pipe that holds them.
LEMMA PartsHold ==
    ASSUME NEW a, NEW b, NEW b1 \in Seq(Int), NEW b2 \in Seq(Int),
           NEW s1 \in Nat, NEW e1 \in Nat, NEW s2 \in Nat, NEW e2 \in Nat,
           Lies(b1, s1, e1, b2, s2, e2, a, b)
    PROVE  Holds(PipeOf(b1, s1, e1, b2, s2, e2), a, b)
<1> DEFINE p == PipeOf(b1, s1, e1, b2, s2, e2)
<1>1. p \in Pipe
  BY DEF PipeOf, Pipe
<1>2. /\ p.buf1 = b1 /\ p.st1 = s1 /\ p.end1 = e1
      /\ p.buf2 = b2 /\ p.st2 = s2 /\ p.end2 = e2
  BY DEF PipeOf
<1> HIDE DEF p
<1>3. Holds(p, a, b)
  BY <1>1, <1>2 DEF Holds
<1> QED BY <1>3 DEF p

\* The size is what the pipe holds.
LEMMA SizeIs ==
    ASSUME NEW p, NEW a \in Nat, NEW b \in Nat, Holds(p, a, b)
    PROVE  Size(p) = b - a /\ b - a \in Nat
<1>1. PICK b1, b2 \in Seq(Int), s1, e1, s2, e2 \in Nat :
         p = PipeOf(b1, s1, e1, b2, s2, e2) /\ Lies(b1, s1, e1, b2, s2, e2, a, b)
  BY PipeParts
<1>2. Size(p) = e1 - s1 + e2 - s2
  BY <1>1 DEF Size, PipeOf
<1>3. b - a = (e1 - s1) + (e2 - s2) /\ s1 <= e1 /\ s2 <= e2
  BY <1>1 DEF Lies
<1> QED BY <1>2, <1>3

\* What comes out is what the pipe holds.
LEMMA ContentIs ==
    ASSUME NEW p, NEW a \in Nat, NEW b \in Nat, Holds(p, a, b)
    PROVE  Content(p) = Bytes(a, b - a)
<1>1. PICK b1, b2 \in Seq(Int), s1, e1, s2, e2 \in Nat :
         p = PipeOf(b1, s1, e1, b2, s2, e2) /\ Lies(b1, s1, e1, b2, s2, e2, a, b)
  BY PipeParts
<1>2. /\ s1 <= e1 /\ e1 <= Len(b1) /\ s2 <= e2 /\ e2 <= Len(b2)
      /\ b - a = (e1 - s1) + (e2 - s2)
  BY <1>1 DEF Lies
<1>3. PICK n1 \in Nat : n1 = e1 - s1
  BY <1>2
<1>4. PICK n2 \in Nat : n2 = e2 - s2
  BY <1>2
<1>5. b - a = n1 + n2 /\ b - a \in Nat
  BY <1>2, <1>3, <1>4
<1>6. PICK c1 : c1 = Slice(b1, s1, e1)
  OBVIOUS
<1>7. PICK c2 : c2 = Slice(b2, s2, e2)
  OBVIOUS
<1>8. c1 \in Seq(Int) /\ Len(c1) = n1 /\ \A i \in 1..n1 : c1[i] = a + i
  <2>1. c1 \in Seq(Int) /\ Len(c1) = e1 - s1 /\ \A i \in 1..(e1 - s1) : c1[i] = b1[s1 + i]
    <3>1. /\ Slice(b1, s1, e1) \in Seq(Int) /\ Len(Slice(b1, s1, e1)) = e1 - s1
          /\ \A i \in 1..(e1 - s1) : Slice(b1, s1, e1)[i] = b1[s1 + i]
      <4>1. IsPart(b1, s1, e1)
        BY <1>2 DEF IsPart
      <4>2. IsSlice(Slice(b1, s1, e1), b1, s1, e1)
        BY ONLY <4>1, SliceIs
      <4> QED BY ONLY <4>2 DEF IsSlice
    <3> QED BY <1>6, <3>1
  <2>2. \A i \in 1..n1 : s1 + i \in Nat /\ s1 < s1 + i /\ s1 + i <= e1 /\ (s1 + i) - s1 = i
    BY <1>3
  <2>3. \A k \in Nat : s1 < k /\ k <= e1 => b1[k] = a + (k - s1)
    BY <1>1 DEF Lies
  <2> QED BY <1>3, <2>1, <2>2, <2>3
<1>9. c2 \in Seq(Int) /\ Len(c2) = n2 /\ \A i \in 1..n2 : c2[i] = a + n1 + i
  <2>1. c2 \in Seq(Int) /\ Len(c2) = e2 - s2 /\ \A i \in 1..(e2 - s2) : c2[i] = b2[s2 + i]
    <3>1. /\ Slice(b2, s2, e2) \in Seq(Int) /\ Len(Slice(b2, s2, e2)) = e2 - s2
          /\ \A i \in 1..(e2 - s2) : Slice(b2, s2, e2)[i] = b2[s2 + i]
      <4>1. IsPart(b2, s2, e2)
        BY <1>2 DEF IsPart
      <4>2. IsSlice(Slice(b2, s2, e2), b2, s2, e2)
        BY ONLY <4>1, SliceIs
      <4> QED BY ONLY <4>2 DEF IsSlice
    <3> QED BY <1>7, <3>1
  <2>2. \A i \in 1..n2 : s2 + i \in Nat /\ s2 < s2 + i /\ s2 + i <= e2 /\ (s2 + i) - s2 = i
    BY <1>4
  <2>3. \A k \in Nat : s2 < k /\ k <= e2 => b2[k] = a + n1 + (k - s2)
    BY <1>1, <1>3 DEF Lies
  <2> QED BY <1>4, <2>1, <2>2, <2>3
<1>10. PICK c : c = c1 \o c2
  OBVIOUS
<1>11. /\ c \in Seq(Int) /\ Len(c) = n1 + n2
       /\ \A i \in 1..(n1 + n2) : c[i] = IF i <= n1 THEN c1[i] ELSE c2[i - n1]
  <2>1. c1 \in Seq(Int) /\ c2 \in Seq(Int) /\ Len(c1) = n1 /\ Len(c2) = n2 /\ c = c1 \o c2
    BY <1>8, <1>9, <1>10
  <2> QED BY ONLY <2>1, ConcatProperties
<1>12. ASSUME NEW i \in 1..(n1 + n2) PROVE c[i] = a + i
  <2>1. i <= n1 => i \in 1..n1
    OBVIOUS
  <2>2. ~(i <= n1) => i - n1 \in 1..n2 /\ a + n1 + (i - n1) = a + i
    OBVIOUS
  <2> QED BY <1>8, <1>9, <1>11, <2>1, <2>2
<1>13. PICK d : d = Bytes(a, b - a)
  OBVIOUS
<1>14. d \in Seq(Int) /\ Len(d) = n1 + n2 /\ \A i \in 1..(n1 + n2) : d[i] = a + i
  <2>1. PICK n \in Nat : n = b - a
    BY <1>5
  <2>2. d \in Seq(Int) /\ Len(d) = n /\ \A i \in 1..n : d[i] = a + i
    <3>1. d = Bytes(a, n) /\ a \in Nat /\ n \in Nat
      BY <1>13, <2>1
    <3> QED BY ONLY <3>1, BytesIs
  <2> QED BY <1>5, <2>1, <2>2
<1>15. c = d
  BY <1>11, <1>12, <1>14, SeqEqual
<1>16. Content(p) = c
  BY <1>1, <1>6, <1>7, <1>10 DEF Content, PipeOf
<1> QED BY <1>13, <1>15, <1>16

\* A new pipe holds nothing.
LEMMA NewHolds ==
    ASSUME NEW cap \in Nat, cap >= 1, NEW a \in Nat
    PROVE  Holds(New(cap), a, a)
<1>1. PICK f : f = Fresh(cap)
  OBVIOUS
<1>2. f \in Seq(Int) /\ Len(f) = cap
  BY <1>1, FreshIs
<1>3. New(cap) = PipeOf(f, 0, 0, f, 0, 0)
  BY <1>1 DEF New, PipeOf
<1>4. Lies(f, 0, 0, f, 0, 0, a, a)
  BY <1>2 DEF Lies
<1> QED BY <1>2, <1>3, <1>4, PartsHold

\* Swapping the buffers changes nothing that comes out.
LEMMA TrySwapHolds ==
    ASSUME NEW p, NEW a \in Nat, NEW b \in Nat, Holds(p, a, b)
    PROVE  Holds(TrySwap(p), a, b)
<1>1. PICK b1, b2 \in Seq(Int), s1, e1, s2, e2 \in Nat :
         p = PipeOf(b1, s1, e1, b2, s2, e2) /\ Lies(b1, s1, e1, b2, s2, e2, a, b)
  BY PipeParts
<1>2. CASE ~(s1 = e1 /\ e2 # 0)
  <2>1. TrySwap(p) = p
    BY <1>1, <1>2 DEF TrySwap, PipeOf
  <2> QED BY <2>1
<1>3. CASE s1 = e1 /\ e2 # 0
  <2>1. TrySwap(p) = PipeOf(b2, s2, e2, b1, 0, 0)
    BY <1>1, <1>3 DEF TrySwap, PipeOf
  <2>2. Lies(b2, s2, e2, b1, 0, 0, a, b)
    BY <1>1, <1>3, LenProperties DEF Lies
  <2> QED BY <2>1, <2>2, PartsHold
<1> QED BY <1>2, <1>3

\* There is room for n bytes after push_begin(n).
LEMMA PushBeginHolds ==
    ASSUME NEW p, NEW a \in Nat, NEW b \in Nat, Holds(p, a, b), NEW n \in Nat
    PROVE  /\ Holds(PushBegin(p, n), a, b)
           /\ n <= Len(PushBegin(p, n).buf2) - PushBegin(p, n).end2
           /\ Len(PushBegin(p, n).buf2) - PushBegin(p, n).end2 \in Nat
<1>1. PICK q : q = IF Len(p.buf2) - p.end2 < n THEN TrySwap(p) ELSE p
  OBVIOUS
<1>2. Holds(q, a, b)
  BY <1>1, TrySwapHolds
<1>3. PICK b1, b2 \in Seq(Int), s1, e1, s2, e2 \in Nat :
         q = PipeOf(b1, s1, e1, b2, s2, e2) /\ Lies(b1, s1, e1, b2, s2, e2, a, b)
  BY <1>2, PipeParts
<1>4. Len(b2) \in Nat /\ 1 <= Len(b2) /\ e2 <= Len(b2)
  BY <1>3, LenProperties DEF Lies
<1>5. PICK size : size = Doubled(Len(b2), e2 + n)
  OBVIOUS
<1>6. size \in Nat /\ size >= e2 + n /\ size >= Len(b2)
  <2>1. e2 + n \in Nat /\ Len(b2) >= 1
    BY <1>4
  <2> QED BY <1>4, <1>5, <2>1, DoubledFits, Zenon
<1>7. PICK fr : fr = Fresh(size)
  OBVIOUS
<1>8. fr \in Seq(Int) /\ Len(fr) = size
  BY <1>6, <1>7, FreshIs
<1>9. PICK nb : nb = Copied(fr, 0, b2)
  OBVIOUS
<1>10. nb \in Seq(Int) /\ Len(nb) = size /\ \A k \in 1..Len(b2) : nb[k] = b2[k]
  <2>1. 0 + Len(b2) <= Len(fr)
    BY <1>4, <1>6, <1>8
  <2>2. /\ nb \in Seq(Int) /\ Len(nb) = Len(fr)
        /\ \A k \in 1..Len(fr) : nb[k] =
              IF 0 < k /\ k <= 0 + Len(b2) THEN b2[k - 0] ELSE fr[k]
    <3>1. Fits(fr, 0, b2)
      BY <1>8, <2>1 DEF Fits
    <3>2. IsCopied(Copied(fr, 0, b2), fr, 0, b2)
      BY ONLY <3>1, CopiedIs
    <3> QED BY ONLY <1>9, <3>2 DEF IsCopied
  <2>3. \A k \in 1..Len(b2) : k \in 1..Len(fr) /\ 0 < k /\ k <= 0 + Len(b2) /\ k - 0 = k
    BY <1>4, <1>6, <1>8
  <2> QED BY <1>8, <2>2, <2>3
<1>11. PushBegin(p, n) = PipeOf(b1, s1, e1, nb, s2, e2)
  <2>1. PushBegin(p, n) = [q EXCEPT !.buf2 = Copied(Fresh(Doubled(Len(q.buf2), q.end2 + n)), 0, @)]
    BY <1>1 DEF PushBegin
  <2>2. q.buf2 = b2 /\ q.end2 = e2
    BY <1>3 DEF PipeOf
  <2>3. PushBegin(p, n) = [q EXCEPT !.buf2 = nb]
    BY <1>5, <1>7, <1>9, <2>1, <2>2
  <2> QED BY <1>3, <2>3 DEF PipeOf
<1>12. Lies(b1, s1, e1, nb, s2, e2, a, b)
  <2>1. \A k \in Nat : s2 < k /\ k <= e2 => k \in 1..Len(b2)
    BY <1>4
  <2>2. \A k \in Nat : s2 < k /\ k <= e2 => nb[k] = a + (e1 - s1) + (k - s2)
    BY <1>3, <1>10, <2>1 DEF Lies
  <2>3. e2 <= Len(nb) /\ 1 <= Len(nb)
    BY <1>4, <1>6, <1>10
  <2> QED BY <1>3, <2>2, <2>3 DEF Lies
<1>13. Holds(PushBegin(p, n), a, b)
  BY <1>10, <1>11, <1>12, PartsHold
<1>14. PushBegin(p, n).buf2 = nb /\ PushBegin(p, n).end2 = e2
  BY <1>11 DEF PipeOf
<1>15. n <= Len(nb) - e2 /\ Len(nb) - e2 \in Nat
  BY <1>6, <1>10
<1> QED BY <1>13, <1>14, <1>15

\* The bytes that follow are added.
LEMMA PushFinishHolds ==
    ASSUME NEW p, NEW a \in Nat, NEW b \in Nat, Holds(p, a, b),
           NEW n \in Nat, n <= Len(p.buf2) - p.end2
    PROVE  Holds(PushFinish(p, Bytes(b, n)), a, b + n)
<1>1. PICK b1, b2 \in Seq(Int), s1, e1, s2, e2 \in Nat :
         p = PipeOf(b1, s1, e1, b2, s2, e2) /\ Lies(b1, s1, e1, b2, s2, e2, a, b)
  BY PipeParts
<1>2. /\ s1 <= e1 /\ s2 <= e2 /\ e2 <= Len(b2) /\ Len(b2) \in Nat
      /\ b - a = (e1 - s1) + (e2 - s2)
  BY <1>1, LenProperties DEF Lies
<1>3. e2 + n <= Len(b2)
  <2>1. n <= Len(b2) - e2
    BY <1>1 DEF PipeOf
  <2> QED BY <1>2, <2>1
<1>4. PICK bytes : bytes = Bytes(b, n)
  OBVIOUS
<1>5. bytes \in Seq(Int) /\ Len(bytes) = n /\ \A i \in 1..n : bytes[i] = b + i
  BY <1>4, BytesIs
<1>6. PICK nb : nb = Copied(b2, e2, bytes)
  OBVIOUS
<1>7. /\ nb \in Seq(Int) /\ Len(nb) = Len(b2)
      /\ \A k \in 1..Len(b2) : nb[k] = IF e2 < k /\ k <= e2 + n THEN bytes[k - e2] ELSE b2[k]
  <2>1. e2 + Len(bytes) <= Len(b2)
    BY <1>3, <1>5
  <2>2. /\ nb \in Seq(Int) /\ Len(nb) = Len(b2)
        /\ \A k \in 1..Len(b2) : nb[k] =
              IF e2 < k /\ k <= e2 + Len(bytes) THEN bytes[k - e2] ELSE b2[k]
    <3>1. /\ Copied(b2, e2, bytes) \in Seq(Int) /\ Len(Copied(b2, e2, bytes)) = Len(b2)
          /\ \A k \in 1..Len(b2) : Copied(b2, e2, bytes)[k] =
                IF e2 < k /\ k <= e2 + Len(bytes) THEN bytes[k - e2] ELSE b2[k]
      <4>1. Fits(b2, e2, bytes)
        BY <1>5, <2>1 DEF Fits
      <4>2. IsCopied(Copied(b2, e2, bytes), b2, e2, bytes)
        BY ONLY <4>1, CopiedIs
      <4> QED BY ONLY <4>2 DEF IsCopied
    <3> QED BY <1>6, <3>1, Zenon
  <2> QED BY <1>5, <2>2
<1>8. PushFinish(p, bytes) = PipeOf(b1, s1, e1, nb, s2, e2 + n)
  <2>1. p.buf2 = b2 /\ p.end2 = e2
    BY <1>1 DEF PipeOf
  <2>2. PushFinish(p, bytes) = [[p EXCEPT !.buf2 = Copied(@, p.end2, bytes)]
                                  EXCEPT !.end2 = @ + Len(bytes)]
    BY DEF PushFinish
  <2>3. [p EXCEPT !.buf2 = Copied(@, p.end2, bytes)] = PipeOf(b1, s1, e1, nb, s2, e2)
    BY <1>1, <1>6, <2>1 DEF PipeOf
  <2>4. PICK e : e = e2 + n
    OBVIOUS
  <2>5. [PipeOf(b1, s1, e1, nb, s2, e2) EXCEPT !.end2 = @ + Len(bytes)]
           = [PipeOf(b1, s1, e1, nb, s2, e2) EXCEPT !.end2 = e]
    <3>1. PipeOf(b1, s1, e1, nb, s2, e2).end2 = e2
      BY DEF PipeOf
    <3> QED BY <1>5, <2>4, <3>1, Zenon
  <2>6. [PipeOf(b1, s1, e1, nb, s2, e2) EXCEPT !.end2 = e] = PipeOf(b1, s1, e1, nb, s2, e)
    BY DEF PipeOf
  <2> QED BY <2>2, <2>3, <2>4, <2>5, <2>6, Zenon
<1>9. ASSUME NEW k \in Nat, s2 < k, k <= e2 + n
      PROVE  nb[k] = a + (e1 - s1) + (k - s2)
  <2>1. k \in 1..Len(b2)
    BY <1>2, <1>3, <1>9
  <2>2. CASE e2 < k
    <3>1. k - e2 \in 1..n
      BY <1>9, <2>2
    <3>2. nb[k] = b + (k - e2)
      BY <1>5, <1>7, <1>9, <2>1, <2>2, <3>1
    <3>3. b + (k - e2) = a + (e1 - s1) + (k - s2)
      BY <1>2
    <3> QED BY <3>2, <3>3
  <2>3. CASE ~(e2 < k)
    <3>1. nb[k] = b2[k]
      BY <1>7, <2>1, <2>3
    <3>2. k <= e2
      BY <2>3
    <3> QED BY <1>1, <1>9, <3>1, <3>2 DEF Lies
  <2> QED BY <2>2, <2>3
<1>10. Lies(b1, s1, e1, nb, s2, e2 + n, a, b + n)
  <2>1. s2 <= e2 + n /\ (b + n) - a = (e1 - s1) + (e2 + n - s2)
    BY <1>2
  <2> QED BY <1>1, <1>3, <1>7, <1>9, <2>1 DEF Lies
<1>11. e2 + n \in Nat
  OBVIOUS
<1> QED BY <1>4, <1>7, <1>8, <1>10, <1>11, PartsHold

\* push().
LEMMA PushHolds ==
    ASSUME NEW p, NEW a \in Nat, NEW b \in Nat, Holds(p, a, b), NEW n \in Nat
    PROVE  Holds(Push(p, Bytes(b, n)), a, b + n)
<1>1. Len(Bytes(b, n)) = n
  BY BytesIs
<1>2. PICK q : q = PushBegin(p, n)
  OBVIOUS
<1>3. Holds(q, a, b) /\ n <= Len(q.buf2) - q.end2
  BY <1>2, PushBeginHolds
<1>4. Push(p, Bytes(b, n)) = PushFinish(q, Bytes(b, n))
  BY <1>1, <1>2 DEF Push
<1> QED BY <1>3, <1>4, PushFinishHolds

\* What a pull lacks is moved into the first buffer, if there is room.
LEMMA JoinedHolds ==
    ASSUME NEW p, NEW a \in Nat, NEW b \in Nat, Holds(p, a, b), NEW n \in Nat,
           n <= b - a, p.end1 - p.st1 < n, n <= Len(p.buf1)
    PROVE  /\ Holds(Joined(p, n), a, b)
           /\ Joined(p, n).end1 - Joined(p, n).st1 = n
<1>1. PICK b1, b2 \in Seq(Int), s1, e1, s2, e2 \in Nat :
         p = PipeOf(b1, s1, e1, b2, s2, e2) /\ Lies(b1, s1, e1, b2, s2, e2, a, b)
  BY PipeParts
<1>2. /\ p.buf1 = b1 /\ p.st1 = s1 /\ p.end1 = e1
      /\ p.buf2 = b2 /\ p.st2 = s2 /\ p.end2 = e2
  BY <1>1 DEF PipeOf
<1>3. /\ s1 <= e1 /\ e1 <= Len(b1) /\ 1 <= Len(b1) /\ Len(b1) \in Nat
      /\ s2 <= e2 /\ e2 <= Len(b2) /\ 1 <= Len(b2) /\ Len(b2) \in Nat
      /\ b - a = (e1 - s1) + (e2 - s2)
  BY <1>1, LenProperties DEF Lies
<1>4. /\ \A k \in Nat : s1 < k /\ k <= e1 => b1[k] = a + (k - s1)
      /\ \A k \in Nat : s2 < k /\ k <= e2 => b2[k] = a + (e1 - s1) + (k - s2)
  BY <1>1 DEF Lies
<1>5. PICK z \in Nat : z = e1 - s1
  BY <1>3
<1>6. z < n /\ n <= Len(b1) /\ n <= b - a
  BY <1>2, <1>5
<1>7. PICK m \in Nat : m = n - z
  BY <1>6
<1>8. PICK t \in Nat : t = s2 + m
  OBVIOUS
<1>9. s2 <= t /\ t <= e2 /\ t <= Len(b2) /\ t = s2 + n - z /\ z + m = n
  BY <1>3, <1>5, <1>6, <1>7, <1>8
<1>10. PICK x1 : x1 = Slice(b1, s1, e1)
  OBVIOUS
<1>11. x1 \in Seq(Int) /\ Len(x1) = z /\ \A i \in 1..z : x1[i] = b1[s1 + i]
  <2>1. /\ Slice(b1, s1, e1) \in Seq(Int) /\ Len(Slice(b1, s1, e1)) = e1 - s1
        /\ \A i \in 1..(e1 - s1) : Slice(b1, s1, e1)[i] = b1[s1 + i]
    <3>1. IsPart(b1, s1, e1)
      BY <1>3 DEF IsPart
    <3>2. IsSlice(Slice(b1, s1, e1), b1, s1, e1)
      BY ONLY <3>1, SliceIs
    <3> QED BY ONLY <3>2 DEF IsSlice
  <2> QED BY <1>5, <1>10, <2>1
<1>12. PICK x2 : x2 = Slice(b2, s2, t)
  OBVIOUS
<1>13. x2 \in Seq(Int) /\ Len(x2) = m /\ \A i \in 1..m : x2[i] = b2[s2 + i]
  <2>1. /\ Slice(b2, s2, t) \in Seq(Int) /\ Len(Slice(b2, s2, t)) = t - s2
        /\ \A i \in 1..(t - s2) : Slice(b2, s2, t)[i] = b2[s2 + i]
    <3>1. IsPart(b2, s2, t)
      BY <1>9 DEF IsPart
    <3>2. IsSlice(Slice(b2, s2, t), b2, s2, t)
      BY ONLY <3>1, SliceIs
    <3> QED BY ONLY <3>2 DEF IsSlice
  <2>2. t - s2 = m
    BY <1>8
  <2> QED BY <1>12, <2>1, <2>2
<1>14. PICK y1 : y1 = Copied(b1, 0, x1)
  OBVIOUS
<1>15. y1 \in Seq(Int) /\ Len(y1) = Len(b1) /\ \A k \in 1..z : y1[k] = x1[k]
  <2>1. 0 + Len(x1) <= Len(b1) /\ x1 \in Seq(Int)
    BY <1>6, <1>11
  <2>2. /\ Copied(b1, 0, x1) \in Seq(Int) /\ Len(Copied(b1, 0, x1)) = Len(b1)
        /\ \A k \in 1..Len(b1) : Copied(b1, 0, x1)[k] =
              IF 0 < k /\ k <= 0 + Len(x1) THEN x1[k - 0] ELSE b1[k]
    <3>1. Fits(b1, 0, x1)
      BY <2>1 DEF Fits
    <3>2. IsCopied(Copied(b1, 0, x1), b1, 0, x1)
      BY ONLY <3>1, CopiedIs
    <3> QED BY ONLY <3>2 DEF IsCopied
  <2>3. \A k \in 1..z : k \in 1..Len(b1) /\ 0 < k /\ k <= 0 + z /\ k - 0 = k
    BY <1>3, <1>6
  <2> QED BY <1>11, <1>14, <2>2, <2>3
<1>16. PICK y2 : y2 = Copied(y1, z, x2)
  OBVIOUS
<1>17. /\ y2 \in Seq(Int) /\ Len(y2) = Len(b1)
       /\ \A k \in 1..Len(b1) : y2[k] = IF z < k /\ k <= n THEN x2[k - z] ELSE y1[k]
  <2>1. z + Len(x2) <= Len(y1) /\ x2 \in Seq(Int) /\ y1 \in Seq(Int)
    BY <1>6, <1>9, <1>13, <1>15
  <2>2. /\ Copied(y1, z, x2) \in Seq(Int) /\ Len(Copied(y1, z, x2)) = Len(y1)
        /\ \A k \in 1..Len(y1) : Copied(y1, z, x2)[k] =
              IF z < k /\ k <= z + Len(x2) THEN x2[k - z] ELSE y1[k]
    <3>1. Fits(y1, z, x2)
      BY <2>1 DEF Fits
    <3>2. IsCopied(Copied(y1, z, x2), y1, z, x2)
      BY ONLY <3>1, CopiedIs
    <3> QED BY ONLY <3>2 DEF IsCopied
  <2> QED BY <1>9, <1>13, <1>15, <1>16, <2>2
<1>18. ASSUME NEW k \in Nat, 0 < k, k <= n PROVE y2[k] = a + k
  <2>1. k \in 1..Len(b1)
    BY <1>3, <1>6, <1>18
  <2>2. CASE z < k
    <3>1. k - z \in 1..m
      BY <1>9, <1>18, <2>2
    <3>2. y2[k] = b2[s2 + (k - z)]
      BY <1>13, <1>17, <1>18, <2>1, <2>2, <3>1
    <3>3. s2 + (k - z) \in Nat /\ s2 < s2 + (k - z) /\ s2 + (k - z) <= e2
      BY <1>8, <1>9, <3>1
    <3>4. b2[s2 + (k - z)] = a + (e1 - s1) + ((s2 + (k - z)) - s2)
      BY <1>4, <3>3
    <3>5. a + (e1 - s1) + ((s2 + (k - z)) - s2) = a + k
      BY <1>5
    <3> QED BY <3>2, <3>4, <3>5
  <2>3. CASE ~(z < k)
    <3>1. k \in 1..z
      BY <1>18, <2>3
    <3>2. y2[k] = b1[s1 + k]
      BY <1>11, <1>15, <1>17, <2>1, <2>3, <3>1
    <3>3. s1 + k \in Nat /\ s1 < s1 + k /\ s1 + k <= e1 /\ (s1 + k) - s1 = k
      BY <1>5, <3>1
    <3> QED BY <1>4, <3>2, <3>3
  <2> QED BY <2>2, <2>3
<1>19. Lies(y2, 0, n, b2, t, e2, a, b)
  <2>1. b - a = (n - 0) + (e2 - t)
    BY <1>3, <1>5, <1>7, <1>8
  <2>2. \A k \in Nat : 0 < k /\ k <= n => y2[k] = a + (k - 0)
    BY <1>18
  <2>3. ASSUME NEW k \in Nat, t < k, k <= e2 PROVE b2[k] = a + (n - 0) + (k - t)
    <3>1. s2 < k
      BY <1>9, <2>3
    <3>2. b2[k] = a + (e1 - s1) + (k - s2)
      BY <1>4, <2>3, <3>1
    <3>3. a + (e1 - s1) + (k - s2) = a + (n - 0) + (k - t)
      BY <1>5, <1>7, <1>8
    <3> QED BY <3>2, <3>3
  <2>4. n <= Len(y2) /\ 1 <= Len(y2)
    BY <1>3, <1>6, <1>17
  <2> QED BY <1>3, <1>9, <2>1, <2>2, <2>3, <2>4 DEF Lies
<1>20. Joined(p, n) = PipeOf(y2, 0, n, b2, t, e2)
  <2>1. Joined(p, n) =
          [p EXCEPT !.buf1 = Copied(Copied(b1, 0, Slice(b1, s1, e1)), e1 - s1,
                                    Slice(b2, s2, s2 + n - (e1 - s1))),
                    !.st1 = 0, !.end1 = n, !.st2 = s2 + n - (e1 - s1)]
    BY <1>1 DEF Joined, PipeOf
  <2>2. Joined(p, n) = [p EXCEPT !.buf1 = y2, !.st1 = 0, !.end1 = n, !.st2 = t]
    BY <1>5, <1>9, <1>10, <1>12, <1>14, <1>16, <2>1
  <2> QED BY <1>1, <2>2 DEF PipeOf
<1>21. Holds(Joined(p, n), a, b)
  BY <1>17, <1>19, <1>20, PartsHold
<1>22. Joined(p, n).end1 = n /\ Joined(p, n).st1 = 0
  BY <1>20 DEF PipeOf
<1> QED BY <1>21, <1>22

\* Else all is moved into a new one.
LEMMA MovedHolds ==
    ASSUME NEW p, NEW a \in Nat, NEW b \in Nat, Holds(p, a, b)
    PROVE  /\ Holds(Moved(p), a, b)
           /\ Moved(p).end1 - Moved(p).st1 = b - a
<1>1. PICK b1, b2 \in Seq(Int), s1, e1, s2, e2 \in Nat :
         p = PipeOf(b1, s1, e1, b2, s2, e2) /\ Lies(b1, s1, e1, b2, s2, e2, a, b)
  BY PipeParts
<1>2. 1 <= Len(b2)
  BY <1>1 DEF Lies
<1>3. PICK n \in Nat : n = b - a
  BY SizeIs
<1>4. PICK all : all = Bytes(a, n)
  OBVIOUS
<1>5. all \in Seq(Int) /\ Len(all) = n /\ \A i \in 1..n : all[i] = a + i
  BY <1>4, BytesIs
<1>6. PICK size : size = Doubled(1, n)
  OBVIOUS
<1>7. size \in Nat /\ size >= n /\ size >= 1
  BY <1>6, DoubledFits
<1>8. PICK fr : fr = Fresh(size)
  OBVIOUS
<1>9. fr \in Seq(Int) /\ Len(fr) = size
  BY <1>7, <1>8, FreshIs
<1>10. PICK y : y = Copied(fr, 0, all)
  OBVIOUS
<1>11. y \in Seq(Int) /\ Len(y) = size /\ \A k \in 1..n : y[k] = a + k
  <2>1. 0 + Len(all) <= Len(fr) /\ all \in Seq(Int) /\ fr \in Seq(Int)
    BY <1>5, <1>7, <1>9
  <2>2. /\ Copied(fr, 0, all) \in Seq(Int) /\ Len(Copied(fr, 0, all)) = Len(fr)
        /\ \A k \in 1..Len(fr) : Copied(fr, 0, all)[k] =
              IF 0 < k /\ k <= 0 + Len(all) THEN all[k - 0] ELSE fr[k]
    <3>1. Fits(fr, 0, all)
      BY <2>1 DEF Fits
    <3>2. IsCopied(Copied(fr, 0, all), fr, 0, all)
      BY ONLY <3>1, CopiedIs
    <3> QED BY ONLY <3>2 DEF IsCopied
  <2>3. \A k \in 1..n : k \in 1..size /\ 0 < k /\ k <= 0 + n /\ k - 0 = k
    BY <1>7
  <2> QED BY <1>5, <1>9, <1>10, <2>2, <2>3
<1>12. Lies(y, 0, n, b2, 0, 0, a, b)
  <2>1. \A k \in Nat : 0 < k /\ k <= n => k \in 1..n /\ k - 0 = k
    OBVIOUS
  <2>2. b - a = (n - 0) + (0 - 0)
    BY <1>3
  <2>3. \A k \in Nat : ~(0 < k /\ k <= 0)
    OBVIOUS
  <2>4. 0 <= Len(b2)
    BY LenProperties
  <2> QED BY <1>2, <1>7, <1>11, <2>1, <2>2, <2>3, <2>4 DEF Lies
<1>13. Moved(p) = PipeOf(y, 0, n, b2, 0, 0)
  <2>1. Content(p) = all
    BY <1>3, <1>4, ContentIs
  <2>2. Moved(p) = [p EXCEPT !.buf1 = Copied(Fresh(Doubled(1, Len(Content(p)))), 0, Content(p)),
                             !.st1 = 0, !.end1 = Len(Content(p)), !.st2 = 0, !.end2 = 0]
    BY DEF Moved, Content
  <2>3. Moved(p) = [p EXCEPT !.buf1 = y, !.st1 = 0, !.end1 = n, !.st2 = 0, !.end2 = 0]
    BY <1>5, <1>6, <1>8, <1>10, <2>1, <2>2
  <2> QED BY <1>1, <2>3 DEF PipeOf
<1>14. Holds(Moved(p), a, b)
  BY <1>11, <1>12, <1>13, PartsHold
<1>15. Moved(p).end1 = n /\ Moved(p).st1 = 0
  BY <1>13 DEF PipeOf
<1> QED BY <1>3, <1>14, <1>15

\* pull_begin(n) has n bytes in one piece, if there are so many.
LEMMA PullBeginHolds ==
    ASSUME NEW p, NEW a \in Nat, NEW b \in Nat, Holds(p, a, b), NEW n \in Nat
    PROVE  /\ Holds(PullBegin(p, n), a, b)
           /\ n <= b - a => n <= PullBegin(p, n).end1 - PullBegin(p, n).st1
<1>1. PICK q : q = TrySwap(p)
  OBVIOUS
<1>2. Holds(q, a, b)
  BY <1>1, TrySwapHolds
<1>3. Size(p) = b - a /\ b - a \in Nat
  BY SizeIs
<1>4. PICK z \in Int : z = q.end1 - q.st1
  BY <1>2 DEF Holds, Pipe
<1>5. PICK l \in Nat : l = Len(q.buf1)
  BY <1>2, LenProperties DEF Holds, Pipe
<1>6. CASE b - a < n
  <2>1. PullBegin(p, n) = p
    BY <1>3, <1>6 DEF PullBegin
  <2> QED BY <1>3, <1>6, <2>1
<1>7. CASE b - a >= n /\ z >= n
  <2>1. PullBegin(p, n) = q
    BY <1>1, <1>3, <1>4, <1>7 DEF PullBegin
  <2> QED BY <1>2, <1>4, <1>7, <2>1
<1>8. CASE b - a >= n /\ z < n /\ n <= l
  <2>1. PullBegin(p, n) = Joined(q, n)
    BY <1>1, <1>3, <1>4, <1>5, <1>8 DEF PullBegin
  <2>2. n <= b - a /\ q.end1 - q.st1 < n /\ n <= Len(q.buf1)
    BY <1>3, <1>4, <1>5, <1>8
  <2>3. Holds(Joined(q, n), a, b) /\ Joined(q, n).end1 - Joined(q, n).st1 = n
    BY <1>2, <2>2, JoinedHolds
  <2> QED BY <2>1, <2>3
<1>9. CASE b - a >= n /\ z < n /\ n > l
  <2>1. PullBegin(p, n) = Moved(q)
    BY <1>1, <1>3, <1>4, <1>5, <1>9 DEF PullBegin
  <2>2. Holds(Moved(q), a, b) /\ Moved(q).end1 - Moved(q).st1 = b - a
    BY <1>2, MovedHolds
  <2> QED BY <2>1, <2>2
<1> QED BY <1>3, <1>6, <1>7, <1>8, <1>9

\* What pull_begin() returns.
LEMMA BegunIs ==
    ASSUME NEW p, NEW a \in Nat, NEW b \in Nat, Holds(p, a, b), NEW n \in Nat
    PROVE  /\ n > b - a => Begun(p, n) = <<>>
           /\ n <= b - a =>
                 /\ Begun(p, n) \in Seq(Int)
                 /\ Len(Begun(p, n)) = PullBegin(p, n).end1 - PullBegin(p, n).st1
                 /\ Len(Begun(p, n)) \in Nat /\ n <= Len(Begun(p, n))
<1>1. Size(p) = b - a /\ b - a \in Nat
  BY SizeIs
<1>2. n > b - a => Begun(p, n) = <<>>
  BY <1>1 DEF Begun
<1>3. ASSUME n <= b - a
      PROVE  /\ Begun(p, n) \in Seq(Int)
             /\ Len(Begun(p, n)) = PullBegin(p, n).end1 - PullBegin(p, n).st1
             /\ Len(Begun(p, n)) \in Nat /\ n <= Len(Begun(p, n))
  <2>1. PICK q : q = PullBegin(p, n)
    OBVIOUS
  <2>2. Holds(q, a, b) /\ n <= q.end1 - q.st1
    BY <1>3, <2>1, PullBeginHolds
  <2>3. PICK b1, b2 \in Seq(Int), s1, e1, s2, e2 \in Nat :
           q = PipeOf(b1, s1, e1, b2, s2, e2) /\ Lies(b1, s1, e1, b2, s2, e2, a, b)
    BY <2>2, PipeParts
  <2>4. q.buf1 = b1 /\ q.st1 = s1 /\ q.end1 = e1 /\ s1 <= e1 /\ e1 <= Len(b1)
    BY <2>3 DEF PipeOf, Lies
  <2>5. Slice(b1, s1, e1) \in Seq(Int) /\ Len(Slice(b1, s1, e1)) = e1 - s1
    <3>1. IsPart(b1, s1, e1)
      BY <2>4 DEF IsPart
    <3>2. IsSlice(Slice(b1, s1, e1), b1, s1, e1)
      BY ONLY <3>1, SliceIs
    <3> QED BY ONLY <3>2 DEF IsSlice
  <2>6. ~(Size(p) < n)
    BY <1>1, <1>3
  <2>7. Begun(p, n) = Slice(b1, s1, e1)
    BY <2>1, <2>4, <2>6 DEF Begun
  <2>8. e1 - s1 \in Nat /\ n <= e1 - s1
    BY <2>2, <2>4
  <2> QED BY <2>1, <2>4, <2>5, <2>7, <2>8
<1> QED BY <1>2, <1>3

\* The first n bytes are gone.
LEMMA PullFinishHolds ==
    ASSUME NEW p, NEW a \in Nat, NEW b \in Nat, Holds(p, a, b),
           NEW n \in Nat, n <= p.end1 - p.st1
    PROVE  Holds(PullFinish(p, n), a + n, b)
<1>1. PICK b1, b2 \in Seq(Int), s1, e1, s2, e2 \in Nat :
         p = PipeOf(b1, s1, e1, b2, s2, e2) /\ Lies(b1, s1, e1, b2, s2, e2, a, b)
  BY PipeParts
<1>2. p.st1 = s1 /\ p.end1 = e1
  BY <1>1 DEF PipeOf
<1>3. /\ s1 <= e1 /\ e1 <= Len(b1) /\ 1 <= Len(b1)
      /\ s2 <= e2 /\ e2 <= Len(b2) /\ 1 <= Len(b2)
      /\ b - a = (e1 - s1) + (e2 - s2)
  BY <1>1 DEF Lies
<1>4. /\ \A k \in Nat : s1 < k /\ k <= e1 => b1[k] = a + (k - s1)
      /\ \A k \in Nat : s2 < k /\ k <= e2 => b2[k] = a + (e1 - s1) + (k - s2)
  BY <1>1 DEF Lies
<1>5. PICK t \in Nat : t = s1 + n
  OBVIOUS
<1>6. t <= e1 /\ s1 <= t
  BY <1>2, <1>3, <1>5
<1>7. PullFinish(p, n) = PipeOf(b1, t, e1, b2, s2, e2)
  <2>1. PullFinish(p, n) = [p EXCEPT !.st1 = t]
    BY <1>2, <1>5 DEF PullFinish
  <2> QED BY <1>1, <2>1 DEF PipeOf
<1>8. Lies(b1, t, e1, b2, s2, e2, a + n, b)
  <2>1. b - (a + n) = (e1 - t) + (e2 - s2)
    BY <1>3, <1>5
  <2>2. ASSUME NEW k \in Nat, t < k, k <= e1 PROVE b1[k] = (a + n) + (k - t)
    <3>1. s1 < k
      BY <1>6, <2>2
    <3>2. b1[k] = a + (k - s1)
      BY <1>4, <2>2, <3>1
    <3> QED BY <1>5, <3>2
  <2>3. ASSUME NEW k \in Nat, s2 < k, k <= e2 PROVE b2[k] = (a + n) + (e1 - t) + (k - s2)
    <3>1. b2[k] = a + (e1 - s1) + (k - s2)
      BY <1>4, <2>3
    <3> QED BY <1>5, <3>1
  <2> QED BY <1>3, <1>6, <2>1, <2>2, <2>3 DEF Lies
<1>9. a + n \in Nat
  OBVIOUS
<1> QED BY <1>7, <1>8, PartsHold

\* pull(n) gives the first n bytes, or none if there are fewer.
LEMMA PullHolds ==
    ASSUME NEW p, NEW a \in Nat, NEW b \in Nat, Holds(p, a, b), NEW n \in Nat
    PROVE  /\ n > b - a => Pull(p, n).bytes = <<>>
           /\ n <= b - a => Len(Pull(p, n).bytes) = n
           /\ Holds(Pull(p, n).pipe, a + Len(Pull(p, n).bytes), b)
<1>1. PICK q : q = PullBegin(p, n)
  OBVIOUS
<1>2. Holds(q, a, b) /\ (n <= b - a => n <= q.end1 - q.st1) /\ b - a \in Nat
  BY <1>1, PullBeginHolds, SizeIs
<1>3. a + 0 = a /\ Len(<<>>) = 0
  OBVIOUS
<1>4. CASE Begun(p, n) = <<>>
  <2>1. Pull(p, n).pipe = q /\ Pull(p, n).bytes = <<>>
    BY <1>1, <1>4 DEF Pull
  <2>2. n <= b - a => n = 0
    BY <1>3, <1>4, BegunIs
  <2> QED BY <1>2, <1>3, <2>1, <2>2
<1>5. CASE Begun(p, n) # <<>>
  <2>1. n <= b - a
    <3>1. ~(n > b - a)
      BY <1>5, BegunIs
    <3> QED BY <1>2, <3>1
  <2>2. PICK s : s = Begun(p, n)
    OBVIOUS
  <2>3. s \in Seq(Int) /\ Len(s) \in Nat /\ n <= Len(s)
    BY <2>1, <2>2, BegunIs
  <2>4. Pull(p, n).pipe = PullFinish(q, n) /\ Pull(p, n).bytes = SubSeq(s, 1, n)
    BY <1>1, <1>5, <2>2 DEF Pull
  <2>5. Len(SubSeq(s, 1, n)) = n
    <3>1. \A i \in 1..n : s[i] \in Int
      BY <2>3, ElementOfSeq
    <3>2. Len(SubSeq(s, 1, n)) = IF 1 <= n THEN n - 1 + 1 ELSE 0
      BY <3>1, SubSeqProperties
    <3> QED BY <3>2
  <2>6. Holds(PullFinish(q, n), a + n, b)
    BY <1>2, <2>1, PullFinishHolds
  <2> QED BY <2>1, <2>4, <2>5, <2>6
<1> QED BY <1>4, <1>5

\* memchr(): nothing is overlooked.
LEMMA UpToIs ==
    ASSUME NEW s \in Seq(Int), NEW T
    PROVE  /\ UpTo(s, T) \in 0..Len(s)
           /\ UpTo(s, T) = 0 => \A i \in 1..Len(s) : s[i] \notin T
<1> DEFINE ends == {i \in 1..Len(s) : s[i] \in T}
<1>1. ends \in SUBSET Nat /\ Len(s) \in Nat
  BY LenProperties
<1>2. UpTo(s, T) = IF ends = {} THEN 0 ELSE CHOOSE x \in ends : \A y \in ends : x <= y
  BY DEF UpTo, Min
<1>3. CASE ends = {}
  BY <1>1, <1>2, <1>3
<1>4. CASE ends # {}
  <2>1. ends \subseteq 1..Len(s)
    OBVIOUS
  <2> HIDE DEF ends
  <2>2. \E x \in ends : \A y \in ends : x <= y
    BY <1>1, <1>4, LeastOfNat
  <2>3. PICK m : m = CHOOSE x \in ends : \A y \in ends : x <= y
    OBVIOUS
  <2>4. m \in ends
    BY <2>2, <2>3
  <2>5. UpTo(s, T) = m
    BY <1>2, <1>4, <2>3
  <2>6. m \in 1..Len(s)
    BY <2>1, <2>4
  <2> QED BY <1>1, <2>5, <2>6
<1> QED BY <1>3, <1>4

\* What is left of a run of the stream after k bytes, searched.
LEMMA SearchRest ==
    ASSUME NEW s \in Seq(Int), NEW a \in Int, \A i \in 1..Len(s) : s[i] = a + i,
           NEW k \in Nat, k <= Len(s), NEW T \in SUBSET Int
    PROVE  /\ UpTo(Skipped(s, k), T) \in 0..(Len(s) - k)
           /\ UpTo(Skipped(s, k), T) = 0 => \A c \in T : ~(a + k < c /\ c <= a + Len(s))
<1>1. PICK n \in Nat : n = Len(s)
  BY LenProperties
<1>2. PICK r : r = Skipped(s, k)
  OBVIOUS
<1>3. r \in Seq(Int) /\ Len(r) = n - k /\ \A i \in 1..(n - k) : r[i] = s[k + i]
  <2>1. /\ Slice(s, k, n) \in Seq(Int) /\ Len(Slice(s, k, n)) = n - k
        /\ \A i \in 1..(n - k) : Slice(s, k, n)[i] = s[k + i]
    <3>1. IsPart(s, k, n)
      BY <1>1 DEF IsPart
    <3>2. IsSlice(Slice(s, k, n), s, k, n)
      BY ONLY <3>1, SliceIs
    <3> QED BY ONLY <3>2 DEF IsSlice
  <2>2. r = Slice(s, k, n)
    BY <1>1, <1>2 DEF Skipped, Slice
  <2> QED BY <2>1, <2>2
<1>4. PICK u : u = UpTo(r, T)
  OBVIOUS
<1>5. u \in 0..(n - k) /\ (u = 0 => \A i \in 1..(n - k) : r[i] \notin T)
  <2>1. u \in 0..Len(r) /\ (u = 0 => \A i \in 1..Len(r) : r[i] \notin T)
    BY <1>3, <1>4, UpToIs
  <2> QED BY <1>3, <2>1
<1>6. ASSUME u = 0, NEW c \in T, a + k < c, c <= a + n PROVE FALSE
  <2>1. c \in Int
    OBVIOUS
  <2>2. c - a - k \in 1..(n - k) /\ k + (c - a - k) \in 1..n
    BY <1>1, <1>6, <2>1
  <2>3. r[c - a - k] = a + (k + (c - a - k))
    BY <1>1, <1>3, <2>2
  <2>4. a + (k + (c - a - k)) = c
    BY <2>1
  <2> QED BY <1>5, <1>6, <2>2, <2>3, <2>4
<1> QED BY <1>1, <1>2, <1>4, <1>5, <1>6

\* pull_line() overlooks no end of a line, if the bytes it skips have none.
LEMMA LineLengthIs ==
    ASSUME NEW p, NEW a \in Nat, NEW b \in Nat, Holds(p, a, b),
           NEW skip \in Nat, skip <= b - a, NEW T \in SUBSET Int,
           \A c \in T : ~(a < c /\ c <= a + skip)
    PROVE  /\ LineLength(p, skip, T) \in 0..(b - a)
           /\ LineLength(p, skip, T) = 0 => \A c \in T : ~(a < c /\ c <= b)
<1>1. PICK b1, b2 \in Seq(Int), s1, e1, s2, e2 \in Nat :
         p = PipeOf(b1, s1, e1, b2, s2, e2) /\ Lies(b1, s1, e1, b2, s2, e2, a, b)
  BY PipeParts
<1>2. /\ s1 <= e1 /\ e1 <= Len(b1) /\ s2 <= e2 /\ e2 <= Len(b2)
      /\ b - a = (e1 - s1) + (e2 - s2)
  BY <1>1 DEF Lies
<1>3. PICK n1 \in Nat : n1 = e1 - s1
  BY <1>2
<1>4. PICK n2 \in Nat : n2 = e2 - s2
  BY <1>2
<1>5. b = a + n1 + n2 /\ b - a = n1 + n2
  BY <1>2, <1>3, <1>4
<1>6. PICK c1 : c1 = Slice(b1, s1, e1)
  OBVIOUS
<1>7. PICK c2 : c2 = Slice(b2, s2, e2)
  OBVIOUS
<1>8. c1 \in Seq(Int) /\ Len(c1) = n1 /\ \A i \in 1..n1 : c1[i] = a + i
  <2>1. c1 \in Seq(Int) /\ Len(c1) = e1 - s1 /\ \A i \in 1..(e1 - s1) : c1[i] = b1[s1 + i]
    <3>1. /\ Slice(b1, s1, e1) \in Seq(Int) /\ Len(Slice(b1, s1, e1)) = e1 - s1
          /\ \A i \in 1..(e1 - s1) : Slice(b1, s1, e1)[i] = b1[s1 + i]
      <4>1. IsPart(b1, s1, e1)
        BY <1>2 DEF IsPart
      <4>2. IsSlice(Slice(b1, s1, e1), b1, s1, e1)
        BY ONLY <4>1, SliceIs
      <4> QED BY ONLY <4>2 DEF IsSlice
    <3> QED BY <1>6, <3>1
  <2>2. \A i \in 1..n1 : s1 + i \in Nat /\ s1 < s1 + i /\ s1 + i <= e1 /\ (s1 + i) - s1 = i
    BY <1>3
  <2>3. \A k \in Nat : s1 < k /\ k <= e1 => b1[k] = a + (k - s1)
    BY <1>1 DEF Lies
  <2> QED BY <1>3, <2>1, <2>2, <2>3
<1>9. c2 \in Seq(Int) /\ Len(c2) = n2 /\ \A i \in 1..n2 : c2[i] = (a + n1) + i
  <2>1. c2 \in Seq(Int) /\ Len(c2) = e2 - s2 /\ \A i \in 1..(e2 - s2) : c2[i] = b2[s2 + i]
    <3>1. /\ Slice(b2, s2, e2) \in Seq(Int) /\ Len(Slice(b2, s2, e2)) = e2 - s2
          /\ \A i \in 1..(e2 - s2) : Slice(b2, s2, e2)[i] = b2[s2 + i]
      <4>1. IsPart(b2, s2, e2)
        BY <1>2 DEF IsPart
      <4>2. IsSlice(Slice(b2, s2, e2), b2, s2, e2)
        BY ONLY <4>1, SliceIs
      <4> QED BY ONLY <4>2 DEF IsSlice
    <3> QED BY <1>7, <3>1
  <2>2. \A i \in 1..n2 : s2 + i \in Nat /\ s2 < s2 + i /\ s2 + i <= e2 /\ (s2 + i) - s2 = i
    BY <1>4
  <2>3. \A k \in Nat : s2 < k /\ k <= e2 => b2[k] = a + n1 + (k - s2)
    BY <1>1, <1>3 DEF Lies
  <2> QED BY <1>4, <2>1, <2>2, <2>3
<1>10. LineLength(p, skip, T) =
         LET skip1 == IF skip <= n1 THEN skip ELSE 0
             skip2 == IF skip <= n1 THEN 0 ELSE skip - n1
             at1 == IF skip <= n1 THEN UpTo(Skipped(c1, skip1), T) ELSE 0
             at2 == UpTo(Skipped(c2, skip2), T)
         IN  IF at1 # 0 THEN skip1 + at1
             ELSE IF at2 # 0 THEN skip2 + at2 + n1 ELSE 0
  BY <1>1, <1>6, <1>7, <1>8 DEF LineLength, PipeOf
<1>11. CASE skip <= n1
  <2>1. PICK u : u = UpTo(Skipped(c1, skip), T)
    OBVIOUS
  <2>2. u \in 0..(n1 - skip) /\ (u = 0 => \A c \in T : ~(a + skip < c /\ c <= a + n1))
    <3>1. a \in Int /\ skip <= Len(c1)
      BY <1>8, <1>11
    <3>2. \A i \in 1..Len(c1) : c1[i] = a + i
      BY <1>8
    <3>3. /\ UpTo(Skipped(c1, skip), T) \in 0..(Len(c1) - skip)
          /\ UpTo(Skipped(c1, skip), T) = 0 => \A c \in T : ~(a + skip < c /\ c <= a + Len(c1))
      BY <1>8, <3>1, <3>2, SearchRest
    <3> QED BY <1>8, <2>1, <3>3
  <2>3. PICK v : v = UpTo(Skipped(c2, 0), T)
    OBVIOUS
  <2>4. v \in 0..(n2 - 0) /\ (v = 0 => \A c \in T : ~((a + n1) + 0 < c /\ c <= (a + n1) + n2))
    <3>1. a + n1 \in Int /\ 0 <= Len(c2) /\ 0 \in Nat
      BY <1>9
    <3> QED BY <1>9, <2>3, <3>1, SearchRest
  <2>5. LineLength(p, skip, T) = IF u # 0 THEN skip + u ELSE IF v # 0 THEN 0 + v + n1 ELSE 0
    BY <1>10, <1>11, <2>1, <2>3
  <2>6. CASE u # 0
    BY <1>5, <1>11, <2>2, <2>5, <2>6
  <2>7. CASE u = 0 /\ v # 0
    BY <1>5, <2>4, <2>5, <2>7
  <2>8. CASE u = 0 /\ v = 0
    <3>1. ASSUME NEW c \in T, a < c, c <= b PROVE FALSE
      <4>1. c \in Int
        OBVIOUS
      <4>2. c <= a + skip \/ (a + skip < c /\ c <= a + n1)
               \/ ((a + n1) + 0 < c /\ c <= (a + n1) + n2)
        BY <1>5, <3>1, <4>1
      <4> QED BY <2>2, <2>4, <2>8, <3>1, <4>2
    <3> QED BY <1>5, <2>5, <2>8, <3>1
  <2> QED BY <2>6, <2>7, <2>8
<1>12. CASE ~(skip <= n1)
  <2>1. PICK k \in Nat : k = skip - n1
    BY <1>12
  <2>2. k <= n2
    BY <1>5, <2>1
  <2>3. PICK v : v = UpTo(Skipped(c2, k), T)
    OBVIOUS
  <2>4. v \in 0..(n2 - k) /\ (v = 0 => \A c \in T : ~((a + n1) + k < c /\ c <= (a + n1) + n2))
    <3>1. a + n1 \in Int /\ k <= Len(c2)
      BY <1>9, <2>2
    <3> QED BY <1>9, <2>3, <3>1, SearchRest
  <2>5. LineLength(p, skip, T) = IF v # 0 THEN k + v + n1 ELSE 0
    BY <1>10, <1>12, <2>1, <2>3
  <2>6. CASE v # 0
    BY <1>5, <2>1, <2>4, <2>5, <2>6
  <2>7. CASE v = 0
    <3>1. ASSUME NEW c \in T, a < c, c <= b PROVE FALSE
      <4>1. c \in Int
        OBVIOUS
      <4>2. c <= a + skip \/ ((a + n1) + k < c /\ c <= (a + n1) + n2)
        BY <1>5, <2>1, <3>1, <4>1
      <4> QED BY <2>4, <2>7, <3>1, <4>2
    <3> QED BY <1>5, <2>5, <2>7, <3>1
  <2> QED BY <2>6, <2>7
<1> QED BY <1>11, <1>12

\* pull_line() gives bytes, or there is no end of a line.
LEMMA PullLineHolds ==
    ASSUME NEW p, NEW a \in Nat, NEW b \in Nat, Holds(p, a, b),
           NEW skip \in Nat, skip <= b - a, NEW T \in SUBSET Int,
           \A c \in T : ~(a < c /\ c <= a + skip)
    PROVE  /\ Len(PullLine(p, skip, T).bytes) \in 0..(b - a)
           /\ Holds(PullLine(p, skip, T).pipe, a + Len(PullLine(p, skip, T).bytes), b)
           /\ PullLine(p, skip, T).bytes = <<>> => \A c \in T : ~(a < c /\ c <= b)
<1>1. PICK n : n = LineLength(p, skip, T)
  OBVIOUS
<1>2. n \in 0..(b - a) /\ (n = 0 => \A c \in T : ~(a < c /\ c <= b)) /\ b - a \in Nat
  BY <1>1, LineLengthIs, SizeIs
<1>3. CASE n = 0
  <2>1. PullLine(p, skip, T).pipe = p /\ PullLine(p, skip, T).bytes = <<>>
    BY <1>1, <1>3 DEF PullLine
  <2> QED BY <1>2, <1>3, <2>1
<1>4. CASE n # 0
  <2>1. PullLine(p, skip, T) = Pull(p, n)
    BY <1>1, <1>4 DEF PullLine
  <2>2. n \in Nat /\ n <= b - a
    BY <1>2
  <2>3. Len(Pull(p, n).bytes) = n /\ Holds(Pull(p, n).pipe, a + n, b)
    BY <2>2, PullHolds
  <2>4. Pull(p, n).bytes # <<>>
    BY <1>4, <2>3
  <2> QED BY <1>2, <2>1, <2>3, <2>4
<1> QED BY <1>3, <1>4

\* A pipe that holds nothing stands at any place of a stream.
LEMMA HoldsNothing ==
    ASSUME NEW p, NEW a \in Nat, Holds(p, a, a), NEW c \in Nat
    PROVE  Holds(p, c, c)
<1>1. PICK b1, b2 \in Seq(Int), s1, e1, s2, e2 \in Nat :
         p = PipeOf(b1, s1, e1, b2, s2, e2) /\ Lies(b1, s1, e1, b2, s2, e2, a, a)
  BY PipeParts
<1>2. /\ s1 <= e1 /\ e1 <= Len(b1) /\ 1 <= Len(b1)
      /\ s2 <= e2 /\ e2 <= Len(b2) /\ 1 <= Len(b2)
      /\ a - a = (e1 - s1) + (e2 - s2)
  BY <1>1 DEF Lies
<1>3. s1 = e1 /\ s2 = e2
  BY <1>2
<1>4. Lies(b1, s1, e1, b2, s2, e2, c, c)
  <2>1. c - c = (e1 - s1) + (e2 - s2)
    BY <1>2
  <2>2. /\ \A k \in Nat : ~(s1 < k /\ k <= e1)
        /\ \A k \in Nat : ~(s2 < k /\ k <= e2)
    BY <1>3
  <2> QED BY <1>2, <2>1, <2>2 DEF Lies
<1> QED BY <1>1, <1>4, PartsHold

-----------------------------------------------------------------------------
(* The socketbuf.                                                          *)

\* What a read that is not answered waits for.
Short(o, at, upto) ==
    /\ upto - at < (IF o.type = "partial" THEN 1 ELSE o.n)
    /\ o.type = "line" => \A c \in nl : ~(at < c /\ c <= upto)

\* recv_complete() gives the next bytes, or the read waits for what is not there.
LEMMA AnswerHolds ==
    ASSUME NEW p, NEW a \in Nat, NEW b \in Nat, Holds(p, a, b), NEW o \in Reads,
           NEW prev \in Nat, prev <= b - a, nl \subseteq 1..N,
           o.type = "line" => \A c \in nl : ~(a < c /\ c <= a + prev)
    PROVE  LET r == Answer(p, o, prev)
           IN  /\ Len(r.bytes) \in 0..(b - a) /\ Holds(r.pipe, a + Len(r.bytes), b)
               /\ r.done \in BOOLEAN
               /\ ~r.done => Short(o, a + Len(r.bytes), b)
<1>0. PICK r : r = Answer(p, o, prev)
  OBVIOUS
<1>10. SUFFICES /\ Len(r.bytes) \in 0..(b - a) /\ Holds(r.pipe, a + Len(r.bytes), b)
                /\ r.done \in BOOLEAN
                /\ ~r.done => Short(o, a + Len(r.bytes), b)
  BY <1>0
<1>1. PICK n : n = o.n
  OBVIOUS
<1>2. n \in Nat /\ 1 <= n /\ o.type \in {"bytes", "partial", "line"}
  BY <1>1, SocketbufOK
<1>3. Size(p) = b - a /\ b - a \in Nat
  BY SizeIs
<1>4. nl \in SUBSET Int
  BY SocketbufOK
<1>5. CASE o.type = "line"
  <2>1. PICK x : x = PullLine(p, prev, nl)
    OBVIOUS
  <2>2. PICK k : k = Len(x.bytes)
    OBVIOUS
  <2>3. /\ k \in 0..(b - a) /\ Holds(x.pipe, a + k, b)
        /\ x.bytes = <<>> => \A c \in nl : ~(a < c /\ c <= b)
    BY <1>4, <1>5, <2>1, <2>2, PullLineHolds
  <2>4. /\ r.pipe = x.pipe /\ r.bytes = x.bytes
        /\ r.done = (x.bytes # <<>> \/ Size(x.pipe) >= n)
    BY <1>0, <1>1, <1>5, <2>1 DEF Answer
  <2>5. Size(x.pipe) = b - (a + k) /\ a + k \in Nat
    BY <2>3, SizeIs
  <2>6. ASSUME ~r.done PROVE Short(o, a + k, b)
    <3>1. x.bytes = <<>> /\ ~(Size(x.pipe) >= n)
      BY <2>4, <2>6
    <3>2. k = 0
      BY <2>2, <3>1
    <3>3. b - (a + k) < n
      BY <1>2, <2>3, <2>5, <3>1
    <3>4. \A c \in nl : ~(a + k < c /\ c <= b)
      BY <2>3, <3>1, <3>2
    <3> QED BY <1>1, <1>5, <3>3, <3>4 DEF Short
  <2>7. r.done \in BOOLEAN
    BY <2>4
  <2>8. Len(r.bytes) = k
    BY <2>2, <2>4
  <2> QED BY <2>3, <2>4, <2>6, <2>7, <2>8
<1>6. CASE o.type = "partial"
  <2>1. PICK l : l = Least(n, b - a)
    OBVIOUS
  <2>2. l \in Nat /\ l <= b - a
    BY <1>2, <1>3, <2>1 DEF Least
  <2>3. PICK x : x = Pull(p, l)
    OBVIOUS
  <2>4. Len(x.bytes) = l /\ Holds(x.pipe, a + l, b)
    BY <2>2, <2>3, PullHolds
  <2>5. r.pipe = x.pipe /\ r.bytes = x.bytes /\ r.done = (b - a >= 1)
    BY <1>0, <1>1, <1>3, <1>6, <2>1, <2>3 DEF Answer
  <2>6. ASSUME ~r.done PROVE Short(o, a + l, b)
    <3>1. ~(b - a >= 1)
      BY <2>5, <2>6, Zenon
    <3>2. b - (a + l) < 1
      BY <1>3, <2>2, <3>1
    <3> QED BY <1>6, <3>2 DEF Short
  <2>7. r.done \in BOOLEAN /\ Len(r.bytes) = l
    BY <2>4, <2>5
  <2> QED BY <2>2, <2>4, <2>5, <2>6, <2>7, <1>3
<1>7. CASE o.type = "bytes" /\ Size(p) >= n
  <2>1. PICK x : x = Pull(p, n)
    OBVIOUS
  <2>2. n <= b - a
    BY <1>2, <1>3, <1>7
  <2>3. Len(x.bytes) = n /\ Holds(x.pipe, a + n, b)
    BY <1>2, <2>1, <2>2, PullHolds
  <2>4. r.pipe = x.pipe /\ r.bytes = x.bytes /\ r.done = TRUE
    <3>1. ~(Size(p) < n)
      BY <1>3, <1>2, <1>7
    <3>2. r = [pipe |-> x.pipe, bytes |-> x.bytes, done |-> TRUE]
      BY <1>0, <1>1, <1>7, <2>1, <3>1 DEF Answer
    <3> QED BY <3>2
  <2>5. r.done \in BOOLEAN /\ (~r.done => Short(o, a + n, b))
    BY <2>4, Zenon
  <2> QED BY <1>2, <1>3, <2>2, <2>3, <2>4, <2>5
<1>8. CASE o.type = "bytes" /\ ~(Size(p) >= n)
  <2>1. Size(p) < n /\ b - a < n
    BY <1>2, <1>3, <1>8
  <2>2. r.pipe = p /\ r.bytes = <<>> /\ r.done = FALSE
    BY <1>0, <1>1, <1>8, <2>1 DEF Answer
  <2>3. Short(o, a + 0, b)
    BY <1>1, <1>8, <2>1 DEF Short
  <2>4. Len(r.bytes) = 0 /\ a + 0 = a
    BY <2>2
  <2>5. r.done \in BOOLEAN
    BY <2>2, Zenon
  <2> QED BY <1>3, <2>2, <2>3, <2>4, <2>5
<1> QED BY <1>2, <1>5, <1>6, <1>7, <1>8

\* The direction in: the pipe holds what the socket gave and the client did not
\* get, and a read that waits has too little there and the socket's ear.
RecvInv ==
    /\ recv_op \in Reads \cup {None} /\ recv_wait \in BOOLEAN
    /\ come \in Nat /\ taken \in Nat /\ out \in Nat
    /\ taken <= come /\ out <= taken
    /\ sock => Holds(recv_by, out, taken)
    /\ recv_wait <=> recv_op # None
    /\ recv_op # None => sock /\ Short(recv_op, out, taken)

\* The direction out: the pipe holds what the client sent and the socket did not
\* take, and whoever waits for that has the socket's ear.
SendInv ==
    /\ send_wait \in BOOLEAN /\ send_prod \in BOOLEAN /\ hushed \in BOOLEAN
    /\ wrote \in Nat /\ sent \in Nat /\ sent <= wrote
    /\ sock => Holds(send_by, sent, wrote)
    /\ send_wait => sock
    /\ send_prod => sock /\ Size(send_by) > 0
    /\ sock /\ Size(send_by) > 0 => send_wait \/ hushed

\* The inductive invariant.
SockInv ==
    /\ sock \in BOOLEAN /\ nl \subseteq 1..N
    /\ RecvInv /\ SendInv

\* A new buffered socket has the invariant.
LEMMA InitInv == Init => SockInv
<1> SUFFICES ASSUME Init PROVE SockInv
  OBVIOUS
<1>1. Holds(New(Cap), 0, 0)
  BY SocketbufOK, NewHolds
<1>2. nl \subseteq 1..N
  BY DEF Init
<1>3. /\ recv_op = None /\ recv_wait = FALSE
      /\ send_wait = FALSE /\ send_prod = FALSE /\ hushed = FALSE
      /\ come = 0 /\ taken = 0 /\ out = 0 /\ wrote = 0 /\ sent = 0
      /\ Holds(recv_by, out, taken) /\ Holds(send_by, sent, wrote)
  BY <1>1 DEF Init
<1>4. RecvInv
  <2>1. /\ come \in Nat /\ taken \in Nat /\ out \in Nat
        /\ taken <= come /\ out <= taken
    BY <1>3
  <2>2. recv_wait \in BOOLEAN /\ (recv_wait <=> recv_op # None)
    BY <1>3, Zenon
  <2> QED BY <1>3, <2>1, <2>2, Zenon DEF RecvInv
<1>5. SendInv
  <2>1. wrote \in Nat /\ sent \in Nat /\ sent <= wrote
    BY <1>3
  <2>2. ~(Size(send_by) > 0)
    BY <1>3, SizeIs
  <2> QED BY <1>3, <2>1, <2>2, Zenon DEF SendInv
<1> QED BY <1>2, <1>4, <1>5 DEF Init, SockInv

\* One direction moves, the other does not.
LEMMA RecvStays ==
    ASSUME RecvInv, UNCHANGED <<sock, recvVars, netVars>>
    PROVE  RecvInv'
BY DEF RecvInv, recvVars, netVars, Short

\* The sending half is left alone by what does not touch it.
LEMMA SendStays ==
    ASSUME SendInv, UNCHANGED <<sock, sendVars>>
    PROVE  SendInv'
BY DEF SendInv, sendVars

\* socket_failed() leaves nobody waiting.
LEMMA FailedInv ==
    ASSUME SockInv, SocketFailed, wrote' \in Nat, wrote <= wrote', hushed' \in BOOLEAN
    PROVE  SockInv'
<1>1. RecvInv'
  BY DEF SockInv, RecvInv, SocketFailed, netVars
<1>2. SendInv'
  <2>1. /\ sock' = FALSE /\ send_wait' = FALSE /\ send_prod' = FALSE /\ sent' = sent
    BY DEF SocketFailed
  <2>2. sent \in Nat /\ wrote \in Nat /\ sent <= wrote
    BY DEF SockInv, SendInv
  <2>3. sent' \in Nat /\ sent' <= wrote'
    BY <2>1, <2>2
  <2> QED BY <2>1, <2>3 DEF SendInv
<1> QED BY <1>1, <1>2 DEF SockInv, SocketFailed, netVars

\* recv_complete(), once the pipe holds what was taken.
LEMMA RecvCompleteInv ==
    ASSUME NEW p, out \in Nat, taken' \in Nat, Holds(p, out, taken'), NEW o \in Reads,
           NEW prev \in Nat, prev <= taken' - out, nl \subseteq 1..N,
           o.type = "line" => \A c \in nl : ~(out < c /\ c <= out + prev),
           come' \in Nat, taken' <= come', sock', UNCHANGED nl,
           RecvComplete(p, o, prev)
    PROVE  RecvInv'
<1>1. PICK r : r = Answer(p, o, prev)
  OBVIOUS
<1>2. PICK b : b = taken'
  OBVIOUS
<1>3. b \in Nat /\ Holds(p, out, b) /\ prev <= b - out
  BY <1>2
<1>4. PICK m : m = Len(r.bytes)
  OBVIOUS
<1>5. /\ Len(r.bytes) \in 0..(b - out) /\ Holds(r.pipe, out + Len(r.bytes), b)
      /\ r.done \in BOOLEAN
      /\ ~r.done => Short(o, out + Len(r.bytes), b)
  BY <1>1, <1>3, AnswerHolds
<1>6. /\ recv_by' = r.pipe /\ out' = out + m
      /\ recv_op' = IF r.done THEN None ELSE o
      /\ recv_wait' = ~r.done
  BY <1>1, <1>4 DEF RecvComplete
<1>7. out' \in Nat /\ out' <= taken' /\ Holds(recv_by', out', taken')
  BY <1>2, <1>3, <1>4, <1>5, <1>6
<1>8. o # None
  BY SocketbufOK
<1>9. CASE r.done
  <2>1. recv_op' = None /\ recv_wait' = FALSE
    BY <1>6, <1>9
  <2> QED BY <1>7, <2>1 DEF RecvInv
<1>10. CASE ~r.done
  <2>1. recv_op' = o /\ recv_wait' = TRUE
    BY <1>6, <1>10
  <2>2. Short(o, out', b)
    BY <1>4, <1>5, <1>6, <1>10
  <2>3. Short(recv_op, out, taken)'
    BY <1>2, <2>1, <2>2 DEF Short
  <2> QED BY <1>7, <1>8, <2>1, <2>3 DEF RecvInv
<1> QED BY <1>5, <1>9, <1>10

\* A read that begins keeps the invariant.
LEMMA ReadInv ==
    ASSUME SockInv, NEW o \in Reads, Read(o)
    PROVE  SockInv'
<1>1. /\ sock /\ RecvComplete(recv_by, o, 0)
      /\ UNCHANGED <<sock, taken, sendVars, netVars>>
  BY DEF Read
<1>2. /\ out \in Nat /\ taken \in Nat /\ come \in Nat /\ out <= taken /\ taken <= come
      /\ Holds(recv_by, out, taken) /\ nl \subseteq 1..N
  BY <1>1 DEF SockInv, RecvInv
<1>3. UNCHANGED <<sock, taken, come, nl>>
  BY <1>1 DEF netVars
<1>4. \A c \in nl : ~(out < c /\ c <= out + 0)
  BY <1>2, SocketbufOK
<1>5. RecvInv'
  BY <1>1, <1>2, <1>3, <1>4, RecvCompleteInv
<1> QED BY <1>1, <1>3, <1>5, SendStays DEF SockInv

\* So does one that is cancelled,
LEMMA RecvCancelInv ==
    ASSUME SockInv, RecvCancel
    PROVE  SockInv'
<1>1. RecvInv'
  BY DEF SockInv, RecvInv, RecvCancel, netVars
<1> QED BY <1>1, SendStays DEF SockInv, RecvCancel, netVars

\* bytes that come in,
LEMMA RecvReadyInv ==
    ASSUME SockInv, RecvReady
    PROVE  SockInv'
<1>1. CASE broken /\ SocketFailed /\ UNCHANGED <<send_by, hushed, wrote>>
  <2>1. wrote' \in Nat /\ wrote <= wrote' /\ hushed' \in BOOLEAN
    BY <1>1 DEF SockInv, SendInv
  <2> QED BY <1>1, <2>1, FailedInv
<1>2. ASSUME NEW q, q = PushBegin(recv_by, Chunk),
             NEW n \in 0..Least(come - taken, Len(q.buf2) - q.end2),
             taken' = taken + n,
             RecvComplete(PushFinish(q, Bytes(taken, n)), recv_op, Size(q)),
             UNCHANGED <<sock, sendVars, netVars>>
      PROVE  SockInv'
  <2>1. /\ recv_op \in Reads /\ sock /\ Short(recv_op, out, taken)
        /\ Holds(recv_by, out, taken)
        /\ out \in Nat /\ taken \in Nat /\ come \in Nat /\ out <= taken /\ taken <= come
        /\ nl \subseteq 1..N
    BY DEF RecvReady, SockInv, RecvInv
  <2>2. PICK room : room = Len(q.buf2) - q.end2
    OBVIOUS
  <2>3. Holds(q, out, taken) /\ room \in Nat
    BY <1>2, <2>1, <2>2, SocketbufOK, PushBeginHolds
  <2>4. n \in Nat /\ n <= room /\ taken + n <= come
    <3>1. n \in 0..Least(come - taken, room) /\ come - taken \in Nat
      BY <2>1, <2>2
    <3> QED BY <2>1, <2>3, <3>1 DEF Least
  <2>5. Size(q) = taken - out
    BY <2>1, <2>3, SizeIs
  <2>6. PICK p : p = PushFinish(q, Bytes(taken, n))
    OBVIOUS
  <2>7. Holds(p, out, taken + n)
    BY <2>1, <2>2, <2>3, <2>4, <2>6, PushFinishHolds
  <2>8. PICK prev \in Nat : prev = taken - out
    BY <2>1
  <2>9. taken' \in Nat /\ Holds(p, out, taken') /\ prev <= taken' - out
    BY <1>2, <2>1, <2>4, <2>7, <2>8
  <2>10. recv_op.type = "line" => \A c \in nl : ~(out < c /\ c <= out + prev)
    <3>1. out + prev = taken
      BY <2>1, <2>8
    <3> QED BY <2>1, <3>1 DEF Short
  <2>11. RecvComplete(p, recv_op, prev)
    BY <1>2, <2>5, <2>6, <2>8
  <2>12. come' \in Nat /\ taken' <= come' /\ sock' /\ UNCHANGED nl
    BY <1>2, <2>1, <2>4 DEF netVars
  <2>13. RecvInv'
    BY <2>1, <2>9, <2>10, <2>11, <2>12, RecvCompleteInv
  <2> QED BY <1>2, <2>12, <2>13, SendStays DEF SockInv
<1> QED BY <1>1, <1>2 DEF RecvReady

\* bytes_sync() gives bytes out of the pipe, or straight from the socket when
\* the pipe is empty.
LEMMA BytesSyncInv ==
    ASSUME SockInv, NEW n \in Nat, BytesSync(n)
    PROVE  SockInv'
<1>1. /\ recv_op = None /\ recv_wait = FALSE /\ sock
      /\ Holds(recv_by, out, taken)
      /\ out \in Nat /\ taken \in Nat /\ come \in Nat /\ out <= taken /\ taken <= come
      /\ Size(recv_by) = taken - out
  <2>1. /\ recv_op = None /\ sock
        /\ Holds(recv_by, out, taken)
        /\ out \in Nat /\ taken \in Nat /\ come \in Nat /\ out <= taken /\ taken <= come
    BY DEF BytesSync, SockInv, RecvInv
  <2>2. Size(recv_by) = taken - out
    BY <2>1, SizeIs
  <2>3. recv_wait = FALSE
    <3>1. recv_wait \in BOOLEAN /\ (recv_wait <=> recv_op # None)
      BY DEF SockInv, RecvInv
    <3> QED BY <2>1, <3>1, Zenon
  <2> QED BY <2>1, <2>2, <2>3
<1>2. ASSUME UNCHANGED <<sock, recv_op, recv_wait, come, nl, sendVars>>,
             out' \in Nat, taken' \in Nat, out' <= taken', taken' <= come,
             Holds(recv_by', out', taken')
      PROVE  SockInv'
  <2>1. RecvInv'
    BY <1>1, <1>2 DEF RecvInv
  <2> QED BY <1>2, <2>1, SendStays DEF SockInv
<1>3. ASSUME Size(recv_by) > 0,
             NEW m, m = Least(n, Len(Begun(recv_by, 1))),
             recv_by' = PullFinish(PullBegin(recv_by, 1), m), out' = out + m,
             UNCHANGED <<sock, taken, recv_op, recv_wait, sendVars, netVars>>
      PROVE  SockInv'
  <2>1. PICK q : q = PullBegin(recv_by, 1)
    OBVIOUS
  <2>2. 1 <= taken - out
    BY <1>1, <1>3
  <2>3. Holds(q, out, taken)
    BY <1>1, <2>1, PullBeginHolds
  <2>4. PICK l : l = Len(Begun(recv_by, 1))
    OBVIOUS
  <2>5. l = q.end1 - q.st1 /\ l \in Nat /\ 1 <= l
    BY <1>1, <2>1, <2>2, <2>4, BegunIs
  <2>6. m \in Nat /\ m <= l
    BY <1>3, <2>4, <2>5 DEF Least
  <2>7. m <= q.end1 - q.st1
    BY <2>5, <2>6
  <2>8. Holds(PullFinish(q, m), out + m, taken)
    BY <1>1, <2>3, <2>6, <2>7, PullFinishHolds
  <2>9. out + m \in Nat /\ out + m <= taken
    <3>1. out + m \in Nat
      BY <1>1, <2>6
    <3>2. taken - (out + m) \in Nat
      BY <1>1, <2>8, <3>1, SizeIs
    <3> QED BY <1>1, <3>1, <3>2
  <2>10. UNCHANGED <<sock, recv_op, recv_wait, come, nl, sendVars>> /\ taken' = taken
    BY <1>3 DEF netVars
  <2>11. Holds(recv_by', out', taken')
    BY <1>3, <2>1, <2>8, <2>10
  <2> QED BY <1>1, <1>2, <1>3, <2>9, <2>10, <2>11
<1>4. ASSUME Size(recv_by) = 0,
             NEW q, q = PushBegin(recv_by, 1),
             NEW m \in 0..Least(n, Least(come - taken, Len(q.buf2) - q.end2)),
             recv_by' = q, taken' = taken + m, out' = out + m,
             UNCHANGED <<sock, recv_op, recv_wait, sendVars, netVars>>
      PROVE  SockInv'
  <2>1. out = taken
    BY <1>1, <1>4
  <2>2. PICK room : room = Len(q.buf2) - q.end2
    OBVIOUS
  <2>3. Holds(q, out, taken) /\ room \in Nat
    BY <1>1, <1>4, <2>2, PushBeginHolds
  <2>4. m \in Nat /\ taken + m <= come
    <3>1. m \in 0..Least(n, Least(come - taken, room)) /\ come - taken \in Nat
      BY <1>1, <1>4, <2>2
    <3> QED BY <1>1, <2>3, <3>1 DEF Least
  <2>5. out + m \in Nat /\ out + m = taken + m
    BY <1>1, <2>1, <2>4
  <2>6. Holds(q, out + m, taken + m)
    BY <1>1, <2>1, <2>3, <2>5, HoldsNothing
  <2>7. UNCHANGED <<sock, recv_op, recv_wait, come, nl, sendVars>>
    BY <1>4 DEF netVars
  <2>8. /\ out' \in Nat /\ taken' \in Nat /\ out' <= taken' /\ taken' <= come
        /\ Holds(recv_by', out', taken')
    BY <1>4, <2>4, <2>5, <2>6
  <2> QED BY <1>2, <2>7, <2>8
<1>5. CASE broken /\ SocketFailed /\ UNCHANGED <<send_by, hushed, wrote>>
  <2>1. wrote' \in Nat /\ wrote <= wrote' /\ hushed' \in BOOLEAN
    BY <1>5 DEF SockInv, SendInv
  <2> QED BY <1>5, <2>1, FailedInv
<1> QED BY <1>3, <1>4, <1>5 DEF BytesSync

\* send_prepare() asks the socket to call exactly if something is left.
LEMMA SendPrepareInv ==
    ASSUME NEW p, NEW armed \in BOOLEAN, send_prod \in BOOLEAN,
           sent' \in Nat, wrote' \in Nat, Holds(p, sent', wrote'),
           sock', hushed' \in BOOLEAN, SendPrepare(p, armed)
    PROVE  SendInv'
<1>1. /\ send_by' = p
      /\ send_wait' = (armed \/ Size(p) > 0)
      /\ send_prod' = (send_prod /\ Size(p) > 0)
  BY DEF SendPrepare
<1>2. PICK b \in Nat : b = wrote'
  OBVIOUS
<1>3. PICK a \in Nat : a = sent'
  OBVIOUS
<1>4. Size(p) = b - a /\ b - a \in Nat
  BY <1>2, <1>3, SizeIs
<1>5. a <= b
  BY <1>4
<1>6. send_wait' \in BOOLEAN /\ send_prod' \in BOOLEAN
  BY <1>1, Zenon
<1>7. /\ send_prod' => sock' /\ Size(send_by') > 0
      /\ Size(send_by') > 0 => send_wait'
  BY <1>1, Zenon
<1>8. Holds(send_by', sent', wrote')
  BY <1>1
<1> QED BY <1>2, <1>3, <1>5, <1>6, <1>7, <1>8, Zenon DEF SendInv

\* send_ready(): what the socket takes is the oldest of what waits.
LEMMA SendSomeInv ==
    ASSUME SockInv, NEW p, NEW armed \in BOOLEAN, sock, hushed' \in BOOLEAN,
           wrote' \in Nat, wrote <= wrote', Holds(p, sent, wrote'), SendSome(p, armed)
    PROVE  SockInv'
<1>1. CASE broken /\ SocketFailed /\ send_by' = p
  BY <1>1, FailedInv
<1>2. ASSUME NEW n \in 0..Len(Begun(p, 1)), sent' = sent + n,
             SendPrepare(PullFinish(PullBegin(p, 1), n), armed),
             UNCHANGED <<sock, recvVars, netVars>>
      PROVE  SockInv'
  <2>1. PICK b \in Nat : b = wrote'
    OBVIOUS
  <2>2. sent \in Nat /\ Holds(p, sent, b) /\ send_prod \in BOOLEAN
    BY <2>1 DEF SockInv, SendInv
  <2>3. PICK q : q = PullBegin(p, 1)
    OBVIOUS
  <2>4. Holds(q, sent, b)
    BY <2>2, <2>3, PullBeginHolds
  <2>5. b - sent \in Nat
    BY <2>2, SizeIs
  <2>6. PICK l : l = Len(Begun(p, 1))
    OBVIOUS
  <2>7. n \in Nat /\ n <= q.end1 - q.st1
    <3>1. CASE 1 <= b - sent
      <4>1. l = q.end1 - q.st1 /\ l \in Nat
        BY <2>2, <2>3, <2>6, <3>1, BegunIs
      <4>2. n \in Nat /\ n <= l
        BY <1>2, <2>6, <4>1
      <4> QED BY <4>1, <4>2
    <3>2. CASE 1 > b - sent
      <4>1. l = 0
        BY <2>2, <2>6, <3>2, BegunIs
      <4>2. n = 0
        BY <1>2, <2>6, <4>1
      <4>3. 0 <= q.end1 - q.st1
        BY <2>4 DEF Holds, Lies, Pipe
      <4> QED BY <4>2, <4>3
    <3> QED BY <2>5, <3>1, <3>2
  <2>8. Holds(PullFinish(q, n), sent + n, b)
    BY <2>2, <2>4, <2>7, PullFinishHolds
  <2>9. sent' \in Nat /\ Holds(PullFinish(q, n), sent', wrote')
    BY <1>2, <2>1, <2>2, <2>7, <2>8
  <2>10. sock'
    BY <1>2
  <2>11. SendInv'
    BY <1>2, <2>2, <2>3, <2>9, <2>10, SendPrepareInv
  <2>12. RecvInv'
    BY <1>2, RecvStays DEF SockInv
  <2> QED BY <1>2, <2>11, <2>12 DEF SockInv, netVars
<1> QED BY <1>1, <1>2 DEF SendSome

\* bytes that go out,
LEMMA SendReadyInv ==
    ASSUME SockInv, SendReady
    PROVE  SockInv'
<1>1. /\ sock /\ wrote \in Nat /\ sent \in Nat /\ Holds(send_by, sent, wrote)
      /\ SendSome(send_by, FALSE) /\ wrote' = wrote /\ hushed' \in BOOLEAN
  BY DEF SendReady, SockInv, SendInv
<1>2. wrote' \in Nat /\ wrote <= wrote' /\ Holds(send_by, sent, wrote') /\ FALSE \in BOOLEAN
  BY <1>1
<1> QED BY <1>1, <1>2, SendSomeInv

\* bytes that are sent now,
LEMMA SendFlushInv ==
    ASSUME SockInv, SendFlush
    PROVE  SockInv'
<1>1. /\ sock /\ wrote \in Nat /\ sent \in Nat /\ Holds(send_by, sent, wrote)
      /\ send_wait \in BOOLEAN
      /\ SendSome(send_by, send_wait) /\ wrote' = wrote /\ hushed' \in BOOLEAN
  BY DEF SendFlush, SockInv, SendInv
<1>2. wrote' \in Nat /\ wrote <= wrote' /\ Holds(send_by, sent, wrote')
  BY <1>1
<1> QED BY <1>1, <1>2, SendSomeInv

\* and bytes that are to be sent.
LEMMA SendTextInv ==
    ASSUME SockInv, NEW k \in Nat, SendText(k)
    PROVE  SockInv'
<1>1. /\ sock /\ wrote \in Nat /\ sent \in Nat /\ Holds(send_by, sent, wrote)
      /\ send_wait \in BOOLEAN
      /\ SendSome(Push(send_by, Bytes(wrote, k)), send_wait) /\ wrote' = wrote + k
      /\ hushed' \in BOOLEAN
  BY DEF SendText, SockInv, SendInv
<1>2. PICK p : p = Push(send_by, Bytes(wrote, k))
  OBVIOUS
<1>3. Holds(p, sent, wrote + k)
  BY <1>1, <1>2, PushHolds
<1>4. wrote' \in Nat /\ wrote <= wrote' /\ Holds(p, sent, wrote') /\ SendSome(p, send_wait)
  BY <1>1, <1>2, <1>3
<1> QED BY <1>1, <1>4, SendSomeInv

\* send(bytesr): what the socket does not take at once joins what waits.
LEMMA SendBytesInv ==
    ASSUME SockInv, NEW k \in Nat \ {0}, Send(k)
    PROVE  SockInv'
<1>1. /\ sock /\ wrote \in Nat /\ sent \in Nat /\ sent <= wrote
      /\ Holds(send_by, sent, wrote)
      /\ send_wait \in BOOLEAN /\ send_prod \in BOOLEAN
      /\ send_prod => sock /\ Size(send_by) > 0
      /\ wrote' = wrote + k /\ hushed' = FALSE
  BY DEF Send, SockInv, SendInv
<1>2. Size(send_by) = wrote - sent
  BY <1>1, SizeIs
<1>3. CASE broken /\ SocketFailed
  <2>1. wrote' \in Nat /\ wrote <= wrote'
    BY <1>1
  <2>2. hushed' \in BOOLEAN
    BY <1>1, Zenon
  <2> QED BY <1>3, <2>1, <2>2, FailedInv
<1>4. ASSUME NEW n \in IF Size(send_by) = 0 THEN 0..k ELSE {0}, sent' = sent + n,
             IF n = k THEN UNCHANGED <<send_by, send_wait, send_prod>>
             ELSE SendPrepare(Push(send_by, Bytes(wrote + n, k - n)), send_wait),
             UNCHANGED <<sock, recvVars, netVars>>
      PROVE  SockInv'
  <2>1. n \in Nat /\ n <= k /\ (n # 0 => sent = wrote)
    BY <1>1, <1>2, <1>4
  <2>2. PICK a \in Nat : a = sent + n
    BY <1>1, <2>1
  <2>3. PICK c \in Nat : c = wrote + n
    BY <1>1, <2>1
  <2>4. Holds(send_by, a, c)
    <3>1. CASE n = 0
      BY <1>1, <2>2, <2>3, <3>1
    <3>2. CASE sent = wrote
      BY <1>1, <2>2, <2>3, <3>2, HoldsNothing
    <3> QED BY <2>1, <3>1, <3>2
  <2>5. sock' /\ a = sent' /\ sent' \in Nat /\ wrote' \in Nat
    BY <1>1, <1>4, <2>1, <2>2
  <2>6. SendInv'
    <3>1. CASE n = k
      <4>1. c = wrote' /\ UNCHANGED <<send_by, send_wait, send_prod, sock>>
        BY <1>1, <1>4, <2>3, <3>1
      <4>2. Holds(send_by', sent', wrote')
        BY <2>4, <2>5, <4>1
      <4>3. sent' <= wrote'
        BY <1>1, <1>4, <2>1, <2>3, <4>1
      <4>4. ~(Size(send_by) > 0)
        BY <1>2, <1>4, <3>1
      <4> QED BY <1>1, <2>5, <4>1, <4>2, <4>3, <4>4 DEF SendInv
    <3>2. CASE n # k
      <4>1. PICK r \in Nat : r = k - n
        BY <2>1
      <4>2. PICK p : p = Push(send_by, Bytes(c, r))
        OBVIOUS
      <4>3. Holds(p, a, c + r)
        BY <2>4, <4>2, PushHolds
      <4>4. c + r = wrote'
        BY <1>1, <2>1, <2>3, <4>1
      <4>5. SendPrepare(p, send_wait)
        BY <1>4, <2>3, <3>2, <4>1, <4>2
      <4>6. Holds(p, sent', wrote')
        BY <2>5, <4>3, <4>4
      <4> QED BY <1>1, <2>5, <4>5, <4>6, SendPrepareInv
    <3> QED BY <3>1, <3>2
  <2>7. RecvInv'
    BY <1>4, RecvStays DEF SockInv
  <2> QED BY <1>4, <2>6, <2>7 DEF SockInv, netVars
<1> QED BY <1>3, <1>4 DEF Send

\* A coroutine waits for the sends, or no longer.
LEMMA AwaitInv ==
    ASSUME SockInv, AwaitSend \/ SendCancel
    PROVE  SockInv'
<1>1. UNCHANGED <<sock, send_by, wrote, sent, recvVars, netVars>>
  BY DEF AwaitSend, SendCancel
<1>2. SendInv'
  <2>1. CASE AwaitSend
    BY <2>1 DEF AwaitSend, SockInv, SendInv
  <2>2. CASE SendCancel
    BY <2>2 DEF SendCancel, SockInv, SendInv
  <2> QED BY <2>1, <2>2
<1> QED BY <1>1, <1>2, RecvStays DEF SockInv, netVars

\* Another socket: both pipes start again, empty.
LEMMA AssignInv ==
    ASSUME SockInv, Assign
    PROVE  SockInv'
<1>1. Holds(New(Cap), 0, 0)
  BY SocketbufOK, NewHolds
<1>2. /\ recv_op' = None /\ recv_wait' = FALSE
      /\ send_wait' = FALSE /\ send_prod' = FALSE /\ hushed' = FALSE
      /\ come' = 0 /\ taken' = 0 /\ out' = 0 /\ wrote' = 0 /\ sent' = 0
      /\ Holds(recv_by', out', taken') /\ Holds(send_by', sent', wrote')
  BY <1>1 DEF Assign
<1>3. RecvInv'
  <2>1. /\ come' \in Nat /\ taken' \in Nat /\ out' \in Nat
        /\ taken' <= come' /\ out' <= taken'
    BY <1>2
  <2>2. recv_wait' \in BOOLEAN /\ (recv_wait' <=> recv_op' # None)
    BY <1>2, Zenon
  <2> QED BY <1>2, <2>1, <2>2, Zenon DEF RecvInv
<1>4. SendInv'
  <2>1. wrote' \in Nat /\ sent' \in Nat /\ sent' <= wrote'
    BY <1>2
  <2>2. ~(Size(send_by') > 0)
    BY <1>2, SizeIs
  <2> QED BY <1>2, <2>1, <2>2, Zenon DEF SendInv
<1> QED BY <1>3, <1>4 DEF Assign, SockInv

\* The peer's side of the connection.
LEMMA PeerInv ==
    ASSUME SockInv, Arrive \/ Break
    PROVE  SockInv'
<1>1. UNCHANGED <<sock, recvVars, sendVars, nl>> /\ (come' = come + 1 \/ come' = come)
  BY DEF Arrive, Break
<1>2. RecvInv'
  BY <1>1 DEF SockInv, RecvInv, recvVars, Short
<1> QED BY <1>1, <1>2, SendStays DEF SockInv

\* Every step keeps the invariant.
LEMMA NextInv == SockInv /\ [Next]_vars => SockInv'
<1> SUFFICES ASSUME SockInv, [Next]_vars PROVE SockInv'
  OBVIOUS
<1>1. ASSUME NEW o \in Reads, Read(o) PROVE SockInv'
  BY <1>1, ReadInv
<1>2. ASSUME NEW n \in 1..2, BytesSync(n) PROVE SockInv'
  BY <1>2, BytesSyncInv
<1>3. ASSUME NEW k \in 1..S, Send(k) \/ SendText(k) PROVE SockInv'
  <2>1. k \in Nat /\ k \in Nat \ {0}
    BY SocketbufOK
  <2> QED BY <1>3, <2>1, SendBytesInv, SendTextInv
<1>4. CASE UNCHANGED vars
  <2>1. UNCHANGED <<sock, recvVars, sendVars, netVars>>
    BY <1>4 DEF vars
  <2> QED BY <2>1, RecvStays, SendStays DEF SockInv, netVars
<1> QED BY <1>1, <1>2, <1>3, <1>4, RecvCancelInv, RecvReadyInv, SendReadyInv,
           SendFlushInv, AwaitInv, AssignInv, PeerInv DEF Next

-----------------------------------------------------------------------------
\* Whatever the client and the peer do, the two pipes hold what was taken and
\* not yet given (bytepipe.cpp, socket-helpers.cpp).
THEOREM SocketbufInvariant == Spec => []SockInv
<1>1. Init => SockInv
  BY InitInv
<1>2. SockInv /\ [Next]_vars => SockInv'
  BY NextInv
<1> QED BY <1>1, <1>2, PTL DEF Spec

\* For buffers, reads and streams of any size: no byte is lost, doubled or out of
\* order on its way through a socketbuf, either way ("first one first",
\* bytepipe.h:5).
THEOREM NoByteLost == Spec => []InOrder
<1>1. SockInv => InOrder
  <2> SUFFICES ASSUME SockInv, sock
               PROVE  /\ Content(recv_by) = Bytes(out, taken - out)
                      /\ Content(send_by) = Bytes(sent, wrote - sent)
    BY DEF InOrder
  <2>1. /\ Holds(recv_by, out, taken) /\ Holds(send_by, sent, wrote)
        /\ out \in Nat /\ taken \in Nat /\ sent \in Nat /\ wrote \in Nat
    BY DEF SockInv, RecvInv, SendInv
  <2> QED BY <2>1, ContentIs
<1> QED BY <1>1, SocketbufInvariant, PTL

\* A read waits only while the pipe does not hold its answer, and never without
\* having asked the socket to call (recv_complete() in socket-helpers.cpp).
THEOREM ReadersWait == Spec => []ReadWaits
<1>1. SockInv => ReadWaits
  <2> SUFFICES ASSUME SockInv PROVE ReadWaits
    OBVIOUS
  <2>1. recv_wait <=> recv_op # None
    BY DEF SockInv, RecvInv
  <2>2. ASSUME recv_op # None
        PROVE  /\ sock
               /\ Size(recv_by) < (IF recv_op.type = "partial" THEN 1 ELSE recv_op.n)
               /\ recv_op.type = "line" => \A c \in nl : ~(out < c /\ c <= taken)
    <3>1. /\ sock /\ Short(recv_op, out, taken)
          /\ Holds(recv_by, out, taken) /\ out \in Nat /\ taken \in Nat
      BY <2>2 DEF SockInv, RecvInv
    <3>2. Size(recv_by) = taken - out
      BY <3>1, SizeIs
    <3> QED BY <3>1, <3>2 DEF Short
  <2> QED BY <2>1, <2>2 DEF ReadWaits
<1> QED BY <1>1, SocketbufInvariant, PTL

\* A coroutine in await_send() has something left to wait for, and for what is
\* left the socket was asked to call, unless a wait was cancelled and nothing
\* sent or flushed since: send_prepare() forgets nobody, and send_prod_cancel()
\* takes the waiter along (socket.h:333).
SendersWait ==
    /\ send_prod => sock /\ Size(send_by) > 0
    /\ sock /\ Size(send_by) > 0 => send_wait \/ hushed

\* Whatever waits to be sent goes on as soon as the socket takes it, whatever
\* mix of sends, flushes and waits went before, as long as the last wait that was
\* cancelled has a send or a flush after it.
THEOREM SendersAreHeard == Spec => []SendersWait
<1>1. SockInv => SendersWait
  BY DEF SockInv, SendInv, SendersWait
<1> QED BY <1>1, SocketbufInvariant, PTL
=============================================================================

------------------------------- MODULE Bytepipe -------------------------------
(***************************************************************************)
(* class bytepipe, src/arlib/bytepipe.h and src/arlib/bytepipe.cpp: a queue *)
(* of bytes in two buffers.  Bytes are pushed into the second and pulled    *)
(* out of the first; they move from one to the other when the first is      *)
(* empty, or holds fewer than a pull asks for.  The operators are the       *)
(* methods, on a pipe given as a record; st and end count from 0, as there. *)
(***************************************************************************)
EXTENDS Integers, FiniteSetsExt, Sequences

Fresh(cap) == [i \in 1..cap |-> 0]

\* reset(), or a pipe just made.
New(cap) == [buf1 |-> Fresh(cap), st1 |-> 0, end1 |-> 0,
             buf2 |-> Fresh(cap), st2 |-> 0, end2 |-> 0]

Slice(buf, st, end) == SubSeq(buf, st + 1, end)

\* buf with the bytes at offset st overwritten.
Copied(buf, st, bytes) ==
    [i \in 1..Len(buf) |-> IF i \in (st + 1)..(st + Len(bytes)) THEN bytes[i - st] ELSE buf[i]]

Size(p) == p.end1 - p.st1 + p.end2 - p.st2

TrySwap(p) ==
    IF p.st1 = p.end1 /\ p.end2 # 0
    THEN [buf1 |-> p.buf2, st1 |-> p.st2, end1 |-> p.end2,
          buf2 |-> p.buf1, st2 |-> 0, end2 |-> 0]
    ELSE p

\* The first of s, 2s, 4s ... that leaves room for n bytes after the first used.
Doubled(s, need) ==
    LET size[k \in Nat] == IF k = 0 THEN s ELSE 2 * size[k - 1]
    IN  size[CHOOSE k \in 0..need : size[k] >= need /\ \A j \in 0..(k - 1) : size[j] < need]

PushBegin(p, n) ==
    LET q == IF Len(p.buf2) - p.end2 < n THEN TrySwap(p) ELSE p
        size == Doubled(Len(q.buf2), q.end2 + n)
    IN  [q EXCEPT !.buf2 = Copied(Fresh(size), 0, @)]

\* push_finish(), after the bytes were written to what PushBegin made room for.
PushFinish(p, bytes) ==
    [p EXCEPT !.buf2 = Copied(@, p.end2, bytes), !.end2 = @ + Len(bytes)]

Push(p, bytes) == PushFinish(PushBegin(p, Len(bytes)), bytes)

\* Fault: what moved stays in the second buffer too.
JoinedTwice(p, n) ==
    LET size1 == p.end1 - p.st1
    IN  [p EXCEPT !.buf1 = Copied(Copied(@, 0, Slice(@, p.st1, p.end1)), size1,
                                  Slice(p.buf2, p.st2, p.st2 + n - size1)),
                  !.st1 = 0, !.end1 = n]

\* What the first buffer lacks of n bytes is moved into it, at its start.
Joined(p, n) ==
    LET size1 == p.end1 - p.st1
    IN  [p EXCEPT !.buf1 = Copied(Copied(@, 0, Slice(@, p.st1, p.end1)), size1,
                                  Slice(p.buf2, p.st2, p.st2 + n - size1)),
                  !.st1 = 0, !.end1 = n, !.st2 = @ + n - size1]

\* All moves to a new first buffer.
Moved(p) ==
    LET all == Slice(p.buf1, p.st1, p.end1) \o Slice(p.buf2, p.st2, p.end2)
    IN  [p EXCEPT !.buf1 = Copied(Fresh(Doubled(1, Len(all))), 0, all),
                  !.st1 = 0, !.end1 = Len(all), !.st2 = 0, !.end2 = 0]

\* pull_begin(): the three ways to have n bytes in one piece.
PullBegin(p, n) ==
    LET q == TrySwap(p)
        size1 == q.end1 - q.st1
    IN  CASE Size(p) < n -> p
          [] Size(p) >= n /\ size1 >= n -> q
          [] Size(p) >= n /\ size1 < n /\ n <= Len(q.buf1) -> Joined(q, n)
          [] Size(p) >= n /\ size1 < n /\ n > Len(q.buf1) -> Moved(q)

\* What pull_begin() returns.
Begun(p, n) == IF Size(p) < n THEN <<>> ELSE LET q == PullBegin(p, n) IN Slice(q.buf1, q.st1, q.end1)

PullFinish(p, n) == [p EXCEPT !.st1 = @ + n]

\* The pipe after pull(), and the bytes.
Pull(p, n) ==
    IF Begun(p, n) = <<>> THEN [pipe |-> PullBegin(p, n), bytes |-> <<>>]
    ELSE [pipe |-> PullFinish(PullBegin(p, n), n), bytes |-> SubSeq(Begun(p, n), 1, n)]

\* memchr(): how many bytes up to and with the first that is in nl, or 0.
UpTo(bytes, nl) ==
    LET ends == {i \in 1..Len(bytes) : bytes[i] \in nl}
    IN  IF ends = {} THEN 0 ELSE Min(ends)

Skipped(bytes, n) == SubSeq(bytes, n + 1, Len(bytes))

\* pull_line(): the first `skip' bytes are known not to end a line.
LineLength(p, skip, nl) ==
    LET chunk1 == Slice(p.buf1, p.st1, p.end1)
        chunk2 == Slice(p.buf2, p.st2, p.end2)
        skip1 == IF skip <= Len(chunk1) THEN skip ELSE 0
        skip2 == IF skip <= Len(chunk1) THEN 0 ELSE skip - Len(chunk1)
        at1 == IF skip <= Len(chunk1) THEN UpTo(Skipped(chunk1, skip1), nl) ELSE 0
        at2 == UpTo(Skipped(chunk2, skip2), nl)
    IN  IF at1 # 0 THEN skip1 + at1
        ELSE IF at2 # 0 THEN skip2 + at2 + Len(chunk1) ELSE 0

PullLine(p, skip, nl) ==
    IF LineLength(p, skip, nl) = 0 THEN [pipe |-> p, bytes |-> <<>>]
    ELSE Pull(p, LineLength(p, skip, nl))

\* What is in the pipe, in the order it will come out.
Content(p) == Slice(p.buf1, p.st1, p.end1) \o Slice(p.buf2, p.st2, p.end2)
=============================================================================

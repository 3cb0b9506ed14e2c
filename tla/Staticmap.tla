------------------------------ MODULE Staticmap ------------------------------
(***************************************************************************)
(* class staticmap, src/arlib/staticmap.cpp: a hashmap and its objects in  *)
(* a mapped file, which a buddy allocator divides into objects of sizes    *)
(* that are powers of two.  An operation is a run: the states the file     *)
(* goes through, one per write.  It returns in the last of them, or the    *)
(* process ends in any of them and what was written stays: "all writes to  *)
(* the underlying file are ordered" (staticmap.h:7).                       *)
(*                                                                         *)
(* Sizes and offsets are in units of the smallest object.  Where a key is  *)
(* in the hashmap is left out: it finds what it holds, and a new key takes *)
(* a tombstone or an empty slot.                                           *)
(***************************************************************************)
EXTENDS Integers, FiniteSets, FiniteSetsExt

CONSTANTS
    Keys, Vals,
    Large,      \* the values of more than one unit, which is a sector
    LargeSize,  \* their size in units
    Sizes,      \* bound: of objects and files, the powers of two up to
    MaxSize,    \* which the file does not reach
    StartSize,  \* of a new file
    GrowAt,     \* entries per unit of hashmap above which it doubles
    RehashAt,   \* used slots per unit above which it is cleaned
    None        \* no value, no operation

ASSUME SizesOK ==
    /\ 1 \in Sizes /\ MaxSize \in Sizes
    /\ MaxSize \in Nat /\ Sizes \subseteq 1..MaxSize
    /\ \A s \in Sizes \ {1} : \E t \in Sizes : s = 2 * t

\* alloc() doubles the file once, so that it has room for what is no larger
\* than the file was.
ASSUME StaticmapOK ==
    /\ StartSize \in Sizes /\ StartSize >= 4 /\ StartSize < MaxSize
    /\ LargeSize \in Sizes /\ LargeSize <= StartSize
    /\ Large \subseteq Vals /\ None \notin Vals
    /\ GrowAt \in Nat /\ RehashAt \in Nat

VARIABLES
    file,       \* what is in the file
    up,         \* whether a process has it open
    synced,     \* the member of that name
    last,       \* the operation that returned last
    lost        \* the process ended in an operation on a file that does not
                \* say that it is in use, or recover() left its buffer: what
                \* becomes of the file from then on is not followed

vars == <<file, up, synced, last, lost>>

Offsets == 0..(MaxSize - 1)

\* The largest object that may be at a.
LowestBit(a) == CHOOSE s \in Sizes : a % s = 0 /\ \A t \in Sizes : a % t = 0 => t <= s

\* What a freelist says when no larger object is free either (1 in the code).
End == -1

\* Objects.  What is inside another object is junk, a place never written is
\* blank.
Blank == [type |-> "blank", size |-> 0]
Junk == [type |-> "junk", size |-> 0]
FreeObj(s, next, prev) == [type |-> "free", size |-> s, next |-> next, prev |-> prev]
DataObj(s, k, v) == [type |-> "data", size |-> s, key |-> k, val |-> v]
Hashmap(s, ptr, tombs) == [type |-> "meta", size |-> s, ptr |-> ptr, tombs |-> tombs]
RootObj == [type |-> "meta", size |-> 1]

NoPtrs == [k \in Keys |-> 0]

\* Where a pointer to a free object is kept: in the root, or in the one before.
Root(s) == -s
NextOf(a) == a

-----------------------------------------------------------------------------
(* Writes.  A run is the file as it is now, and as it was after each write. *)

Start(f) == [file |-> f, past |-> {f}]

Write(r, f) == [file |-> f, past |-> r.past \cup {f}]

\* An object's head, or all of it.  What is inside it no longer counts.
WriteObject(r, a, x) ==
    Write(r, [r.file EXCEPT !.obj =
                 [o \in Offsets |-> IF o = a THEN x
                                    ELSE IF a < o /\ o < a + x.size THEN Junk ELSE @[o]]])

WriteNext(r, place, a) ==
    Write(r, IF place < 0 THEN [r.file EXCEPT !.free[-place] = a]
             ELSE [r.file EXCEPT !.obj[place] = FreeObj(@.size, a, @.prev)])

\* There is nothing to write if there is no object.
WritePrev(r, a, place) ==
    IF a = 0 THEN r ELSE Write(r, [r.file EXCEPT !.obj[a] = FreeObj(@.size, @.next, place)])

\* A free object becomes the first of its list.
PushFree(r, a, s) ==
    LET first == r.file.free[s]
        next == IF first = End THEN 0 ELSE first
    IN  WriteNext(WriteObject(WritePrev(r, next, NextOf(a)), a, FreeObj(s, next, Root(s))),
                  Root(s), a)

-----------------------------------------------------------------------------
(* The allocator.                                                          *)

\* One turn of the loop of alloc(): the part of size s behind the object at a.
Cut(r, a, s) ==
    PushFree(IF r.file.free[s] = End THEN WriteNext(r, Root(s), 0) ELSE r, a + s, s)

\* The object at a, of size c, is cut down to size s: the rest of it goes to the
\* lists, the smallest part first.
Split(r, a, s, c) ==
    LET cut[t \in Sizes] == IF t <= s THEN r ELSE Cut(cut[t \div 2], a, t \div 2)
    IN  cut[c]

\* The first list, from that for size s on, that is not empty, or says that all
\* are.
Bucket(f, s) == CHOOSE c \in Sizes :
                    /\ c >= s /\ f.free[c] # 0
                    /\ \A d \in Sizes : s <= d /\ d < c => f.free[d] = 0

Grows(f, s) == f.free[Bucket(f, s)] = End

\* alloc(): where the object is, and what it took.
AllocAt(f, s) == IF Grows(f, s) THEN f.size ELSE f.free[Bucket(f, s)]

Alloc(r, s) ==
    LET f == r.file
        a == AllocAt(f, s)
        c == Bucket(f, s)
    IN  IF Grows(f, s)
        THEN Split(Write(r, [f EXCEPT !.size = 2 * @]), a, s, f.size)
        ELSE Split(WriteNext(WritePrev(r, f.obj[a].next, Root(c)), Root(c), f.obj[a].next), a, s, c)

Sibling(a, s) == IF a % (2 * s) = 0 THEN a + s ELSE a - s

\* The object of size s that a is in.
Floor(a, s) == a - (a % s)

\* Whether an object at a, joined to one of size s, has a free sibling.
Joins(f, a, s) ==
    LET other == f.obj[Sibling(Floor(a, s), s)] IN other.type = "free" /\ other.size = s

\* The size at which the loop of dealloc() ends.  What it writes in between
\* are links, which the header of no sibling depends on.
JoinedSize(f, a) ==
    CHOOSE t \in Sizes :
        /\ t >= f.obj[a].size /\ ~Joins(f, a, t)
        /\ \A u \in Sizes : f.obj[a].size <= u /\ u < t => Joins(f, a, u)

\* Fault: the list is mended on one side only.
UnlinkOneSide(r, a) == WriteNext(r, r.file.obj[a].prev, r.file.obj[a].next)

\* A free object leaves its list.
Unlink(r, a) ==
    LET x == r.file.obj[a] IN WritePrev(WriteNext(r, x.prev, x.next), x.next, x.prev)

\* The siblings leave their lists, from size s on and up to below size c.
UnlinkSiblings(r, a, s, c) ==
    LET left[t \in Sizes] ==
            IF t <= s THEN r ELSE Unlink(left[t \div 2], Sibling(Floor(a, t \div 2), t \div 2))
    IN  left[c]

\* dealloc(): the object at a is joined with its free siblings.
Dealloc(r, a) ==
    LET s == JoinedSize(r.file, a)
    IN  PushFree(UnlinkSiblings(r, a, r.file.obj[a].size, s), Floor(a, s), s)

-----------------------------------------------------------------------------
(* Operations.                                                             *)

Map(f) == f.obj[f.hm]

\* A write to the hashmap f has.
WriteMap(r, ptr, tombs) ==
    Write(r, [r.file EXCEPT !.obj[r.file.hm] = Hashmap(@.size, ptr, tombs)])

\* desync().
Desync(r) == IF synced THEN Write(r, [r.file EXCEPT !.active = TRUE]) ELSE r

\* rehash_if_needed(), with the object of a larger hashmap.
Doubles(f) == f.entries > GrowAt * Map(f).size

Doubled(r) ==
    LET f == r.file
        s == 2 * Map(f).size
        a == AllocAt(f, s)
        torn == WriteObject(Alloc(r, s), a, Hashmap(s, NoPtrs, 0))
        whole == WriteObject(torn, a, Hashmap(s, Map(f).ptr, 0))
    IN  Dealloc(Write(whole, [whole.file EXCEPT !.hm = a, !.load = f.entries]), f.hm)

Cleaned(r) ==
    LET clean == WriteObject(r, r.file.hm, Hashmap(Map(r.file).size, Map(r.file).ptr, 0))
    IN  Write(clean, [clean.file EXCEPT !.load = clean.file.entries])

Rehash(r) ==
    IF Doubles(r.file) THEN Doubled(r)
    ELSE IF r.file.load > RehashAt * Map(r.file).size THEN Cleaned(r) ELSE r

SizeOf(v) == IF v \in Large THEN LargeSize ELSE 1

\* The new object of an insertion.
Put(r, k, v) ==
    WriteObject(Alloc(r, SizeOf(v)), AllocAt(r.file, SizeOf(v)), DataObj(SizeOf(v), k, v))

\* The counts of a new key, which takes a tombstone or an empty slot.
Count(r, reuse) ==
    Write(r, [r.file EXCEPT !.load = IF reuse THEN @ ELSE @ + 1, !.entries = @ + 1])

\* The slot of k says where the object is.
Point(r, k, a, reuse) ==
    WriteMap(r, [Map(r.file).ptr EXCEPT ![k] = a],
             IF reuse THEN Map(r.file).tombs - 1 ELSE Map(r.file).tombs)

\* Fault: the old object is given back before there is a new one.
InsertFreesFirst(r, k, v, reuse) ==
    LET old == Map(r.file).ptr[k]
        freed == IF old # 0 THEN Dealloc(r, old) ELSE r
        put == Put(freed, k, v)
    IN  Point(IF old # 0 THEN put ELSE Count(put, reuse), k, AllocAt(freed.file, SizeOf(v)), reuse)

\* insert(), after desync() and rehash_if_needed(): a value of the same size is
\* written in place if it is small; else there is a new object, and the old one
\* is given back.
InsertRun(r, k, v, reuse) ==
    LET old == Map(r.file).ptr[k]
        put == Put(r, k, v)
    IN  IF old # 0 /\ v \notin Large /\ r.file.obj[old].size = 1
        THEN WriteObject(r, old, DataObj(1, k, v))
        ELSE Point(IF old # 0 THEN Dealloc(put, old) ELSE Count(put, reuse),
                   k, AllocAt(r.file, SizeOf(v)), reuse)

\* remove(), after desync().
RemoveRun(r, k) ==
    LET old == Map(r.file).ptr[k]
        freed == Dealloc(r, old)
        gone == WriteMap(freed, [Map(freed.file).ptr EXCEPT ![k] = 0], Map(freed.file).tombs + 1)
    IN  IF old = 0 THEN r ELSE Write(gone, [gone.file EXCEPT !.entries = @ - 1])

\* create(), over the file f: the first write.
NewFile(f) ==
    [size |-> IF f.size > 2 THEN f.size ELSE 2,
     active |-> TRUE, hm |-> 1, load |-> 0, entries |-> 0,
     free |-> [s \in Sizes |-> IF s = 1 THEN 0 ELSE IF s < StartSize THEN s ELSE End],
     obj |-> [o \in Offsets |-> IF o = 0 THEN RootObj
                                ELSE IF o = 1 THEN Hashmap(1, NoPtrs, 0)
                                ELSE IF o < StartSize /\ o < f.size THEN f.obj[o] ELSE Blank]]

\* Then it is of the size of a new file, and has the headers of free objects of
\* sizes 2 to below t.
Headers(f, t) ==
    [NewFile(f) EXCEPT
        !.size = StartSize,
        !.obj = [o \in Offsets |-> IF o < 2 \/ o >= t THEN @[o]
                                   ELSE IF o \in Sizes THEN FreeObj(o, 0, Root(o)) ELSE Junk]]

CreateRun(r) ==
    [file |-> Headers(r.file, StartSize),
     past |-> r.past \cup {NewFile(r.file)}
                \cup {Headers(r.file, t) : t \in {s \in Sizes : 2 <= s /\ s <= StartSize}}]

EmptyFile ==
    [size |-> 0, active |-> FALSE, hm |-> 0, load |-> 0, entries |-> 0,
     free |-> [s \in Sizes |-> 0], obj |-> [o \in Offsets |-> Blank]]

-----------------------------------------------------------------------------
(* recover().                                                              *)

SizeAt(f, a) == IF f.obj[a].type = "blank" THEN LowestBit(a) ELSE f.obj[a].size

\* One turn of its loop, at the object at found.at.
Visit(found) ==
    LET f == found.run.file
        a == found.at
        x == f.obj[a]
        s == SizeAt(f, a)
        next == [found EXCEPT !.at = a + s]
    IN  CASE x.type \in {"blank", "free"} ->
                [next EXCEPT
                    !.run = WriteObject(WritePrev(@, found.free[s], NextOf(a)), a,
                                        FreeObj(s, found.free[s], Root(s))),
                    !.free[s] = a]
          [] x.type = "data" /\ found.ptr[x.key] = 0 ->
                [next EXCEPT !.ptr[x.key] = a, !.entries = @ + 1]
          [] (x.type = "data" /\ found.ptr[x.key] # 0) \/ (x.type = "meta" /\ a # f.hm) ->
                [next EXCEPT !.strays = @ \cup {a}]
          [] x.type = "meta" /\ a = f.hm -> next

\* The run so far, the lists, the table, the objects that are one too many, and
\* how far the loop got.
Found(r) ==
    LET turn[n \in 0..r.file.size] ==
            IF n = 0 THEN [run |-> r, free |-> [s \in Sizes |-> 0], ptr |-> NoPtrs,
                           entries |-> 0, strays |-> {}, at |-> 1]
            ELSE LET found == turn[n - 1]
                 IN  IF found.at < r.file.size THEN Visit(found) ELSE found
    IN  turn[r.file.size]

\* The lists end where no larger object is free, if any object is (Overruns).
Ended(free) == [s \in Sizes |-> IF \A t \in Sizes : t >= s => free[t] = 0 THEN End ELSE free[s]]

RecoverRoot(found) ==
    LET f == found.run.file
        root == Write(found.run, [f EXCEPT !.free = Ended(found.free), !.load = found.entries,
                                           !.entries = found.entries])
    IN  WriteObject(root, f.hm, Hashmap(Map(f).size, found.ptr, 0))

\* Fault: the object that is one too many stays.
RecoverKeepsStray(r) == RecoverRoot(Found(r))

RecoverRun(r) ==
    LET found == Found(r)
    IN  IF found.strays = {} THEN RecoverRoot(found)
        ELSE Dealloc(RecoverRoot(found), Max(found.strays))

\* A file that holds nothing is made anew.
Worthless(f) == f.size <= 2 \/ f.entries = 0

OpenRun(f) ==
    CASE f.size = 0 \/ (f.active /\ Worthless(f)) -> CreateRun(Start(f))
      [] f.size # 0 /\ ~f.active -> Start(f)
      [] f.size # 0 /\ f.active /\ ~Worthless(f) -> RecoverRun(Start(f))

\* Nothing at all is free in a file to be recovered: the loop that marks the
\* lists which end (staticmap.cpp:206) does not stop at the first of them and
\* goes on below its buffer.
Overruns(f) ==
    /\ f.size # 0 /\ f.active /\ ~Worthless(f)
    /\ \A s \in Sizes : Found(Start(f)).free[s] = 0

-----------------------------------------------------------------------------
Init ==
    /\ file = CreateRun(Start(EmptyFile)).file
    /\ up = TRUE /\ synced = FALSE /\ last = None /\ lost = FALSE

\* The process ends in the middle of run r.
EndsIn(r) == file' \in r.past /\ up' = FALSE /\ synced' = FALSE

\* open() leaves `synced' unset also if the file was closed cleanly, so that
\* desync() does not mark it again, and recover() will not be called if the
\* process ends then.
Marked == synced \/ file.active

\* Run r is done, or the process ends in it.
Performs(r, op) ==
    \/ file' = r.file /\ last' = op /\ synced' = FALSE /\ UNCHANGED <<up, lost>>
    \/ EndsIn(r) /\ last' = <<"in", op>> /\ lost' = ~Marked

\* Bound: nothing is inserted for which the file would grow to MaxSize.
Insert(k, v) ==
    /\ up
    /\ \E r \in {Rehash(Desync(Start(file)))}, reuse \in BOOLEAN :
          /\ r.file.size < MaxSize
          /\ reuse => Map(r.file).ptr[k] = 0 /\ Map(r.file).tombs > 0
          /\ \E done \in {InsertRun(r, k, v, reuse)} :
                done.file.size < MaxSize /\ Performs(done, <<"insert", k, v>>)

RemoveKey(k) == up /\ \E r \in {RemoveRun(Desync(Start(file)), k)} : Performs(r, <<"remove", k>>)

\* reset(): the file is cut to nothing first.
Reset ==
    /\ up
    /\ \E r \in {CreateRun(Write(Start(file), EmptyFile))} :
          \/ file' = r.file /\ last' = <<"reset">> /\ UNCHANGED <<up, synced>>
          \/ EndsIn(r) /\ last' = <<"in", <<"reset">>>>
    /\ UNCHANGED lost

\* sync(), which the destructor calls too.
Sync ==
    /\ up /\ ~synced
    /\ file' = [file EXCEPT !.active = FALSE]
    /\ synced' = TRUE
    /\ UNCHANGED <<up, last, lost>>

\* The process ends between two operations.
Close == up /\ EndsIn(Start(file)) /\ last' = None /\ UNCHANGED lost

\* The constructor, in which the process may also end.
Open ==
    /\ ~up /\ ~lost /\ ~Overruns(file)
    /\ \E r \in {OpenRun(file)} :
          \/ file' = r.file /\ up' = TRUE /\ last' = None /\ UNCHANGED synced
          \/ EndsIn(r) /\ UNCHANGED last
    /\ UNCHANGED lost

\* The constructor, of a file with nothing free: recover() writes nothing to it
\* before it leaves its buffer.
Overrun ==
    /\ ~up /\ ~lost /\ Overruns(file)
    /\ lost' = TRUE
    /\ UNCHANGED <<file, up, synced, last>>

Next ==
    \/ \E k \in Keys, v \in Vals : Insert(k, v)
    \/ \E k \in Keys : RemoveKey(k)
    \/ Reset \/ Sync \/ Close \/ Open \/ Overrun

Spec == Init /\ [][Next]_vars

-----------------------------------------------------------------------------
(* What the file says.                                                     *)

Recovers == ~up /\ file.active

\* The first object of key k in the file, which recover() keeps, or 0.
Kept(f, k) ==
    LET all == {a \in Offsets : f.obj[a].type = "data" /\ f.obj[a].key = k}
    IN  IF all = {} THEN 0 ELSE CHOOSE a \in all : \A b \in all : a <= b

\* The map as get_or_empty() finds it, or as it will when the file has been
\* opened again.
Content ==
    [k \in Keys |->
        LET a == IF Recovers THEN Kept(file, k) ELSE Map(file).ptr[k]
        IN  IF file.size = 0 \/ (Recovers /\ Worthless(file)) \/ a = 0
            THEN None ELSE file.obj[a].val]

\* A process that ends at any write of any operation, also of a recovery,
\* leaves the map as it was or with that operation done (staticmap.h:57, "it
\* will be atomically replaced"), and what returned is there when the file is
\* opened again (recover() at staticmap.cpp:125).  This is so until an end that
\* makes the file lost: one in an operation after a clean close, when open()
\* (staticmap.cpp:85) leaves the file unmarked, or the recovery of a file with
\* nothing free.
Promise == INSTANCE AtomicMap WITH content <- Content, open <- up
KeepsMap == Promise!Init /\ [][~lost' => Promise!Next]_(Promise!mapVars)

\* Where the objects are, and those of a type.
Heads(f) == {a \in Offsets : a < f.size /\ f.obj[a].type # "junk"}
OfType(f, t) == {a \in Heads(f) : f.obj[a].type = t}

Tiled(f) ==
    /\ OfType(f, "blank") = {}
    /\ \A a \in Heads(f) : LET end == a + f.obj[a].size IN
          /\ a % f.obj[a].size = 0
          /\ end = f.size \/ end \in Heads(f)
          /\ \A o \in Heads(f) : o > a => o >= end

\* The objects of all freelists are the free ones: each is where its prev says
\* it is, and going back by prev ends.
ListsWhole(f) ==
    /\ \A s \in Sizes : f.free[s] \notin {0, End} =>
          /\ f.free[s] \in OfType(f, "free")
          /\ f.obj[f.free[s]].prev = Root(s) /\ f.obj[f.free[s]].size = s
    /\ \A a \in OfType(f, "free") : LET x == f.obj[a] IN
          /\ x.next # 0 => /\ x.next \in OfType(f, "free")
                           /\ f.obj[x.next].prev = NextOf(a) /\ f.obj[x.next].size = x.size
          /\ \/ x.prev = Root(x.size) /\ f.free[x.size] = a
             \/ x.prev \in OfType(f, "free") /\ f.obj[x.prev].next = a
          /\ LET sib == f.obj[Sibling(a, x.size)] IN ~(sib.type = "free" /\ sib.size = x.size)
    /\ \A S \in SUBSET OfType(f, "free") : S # {} => \E a \in S : f.obj[a].prev \notin S

TableWhole(f) ==
    /\ OfType(f, "meta") = {0, f.hm}
    /\ {Map(f).ptr[k] : k \in Keys} \ {0} = OfType(f, "data")
    /\ \A k \in Keys : Map(f).ptr[k] # 0 => f.obj[Map(f).ptr[k]].key = k
    /\ f.entries = Cardinality(OfType(f, "data"))
    /\ f.load = f.entries + Map(f).tombs

\* Between two operations objects tile the file, free ones are in their list
\* once, backwards as forwards, and have no free sibling, the others are in the
\* hashmap or are it, and the counts are right.  fsck() (staticmap.cpp:510)
\* requires all of this, and also that above a list marked 1 none says 0
\* (staticmap.cpp:573-575), which the code does not keep: after some recoveries
\* and some growths fsck() aborts there.
WellFormed == up => Tiled(file) /\ ListsWhole(file) /\ TableWhole(file)

\* Wherever the process ended, in a file marked as in use or for the first time
\* in one that is not, recover() can walk the file from object to object to its
\* end, misses none, and meets at most one that is too many (staticmap.cpp:141,
\* "there can only be one"): the dealloc() of that one is all that recovery has
\* to do for the space that was in use.
OneStray ==
    ~up /\ (file.active \/ lost) /\ ~Worthless(file) =>
        \E found \in {Found(Start(file))} :
            /\ found.at = file.size
            /\ found.ptr = [k \in Keys |-> Kept(file, k)]
            /\ Cardinality(found.strays) <= 1
=============================================================================

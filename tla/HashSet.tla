------------------------------- MODULE HashSet -------------------------------
(***************************************************************************)
(* class set, src/arlib/set.h: a hashtable with open addressing and linear *)
(* probing, whose removed items leave tombstones until the next rehash, and *)
(* an iterator that walks its slots while the set changes.  class map of   *)
(* the same file is a set of nodes.                                        *)
(***************************************************************************)
EXTENDS Integers, FiniteSets, FiniteSetsExt

CONSTANTS Items,
          Hashes,   \* the values their hash may have
          MinSize,  \* the size of a new table (8 in the code)
          Free, Tomb

ASSUME HashSetOK ==
    /\ Hashes \subseteq Nat /\ MinSize \in {2^n : n \in 2..6}
    /\ Free # Tomb /\ {Free, Tomb} \cap Items = {}

VARIABLES
    hash,           \* of each item
    slot,           \* m_data and m_valid: an item, or the tag of an empty slot
    m_used_slots, m_count,
    content,        \* the set this is
    pos,            \* of the iterator in use, or -1
    moved,          \* whether there was a rehash since it was begun
    stayed,         \* until then, the items that were in the set all the time
    seen            \* and how often it has shown each of them

tableVars == <<slot, m_used_slots, m_count>>
iterVars == <<pos, moved, stayed, seen>>
vars == <<hash, tableVars, content, iterVars>>

Size(s) == Cardinality(DOMAIN s)
Empty(n) == [i \in 0..(n - 1) |-> Free]
Valid(s) == {i \in DOMAIN s : s[i] \in Items}

-----------------------------------------------------------------------------
(* find_pos_full().                                                        *)

\* The slots in the order they are probed for x.
Probe(s, x, i) == (hash[x] + i) % Size(s)

\* Where the loop may stop: at the item, if it is looked for, or at a slot that
\* was never used.
Stops(s, x, want_used) ==
    {i \in 0..(Size(s) - 1) :
        s[Probe(s, x, i)] = Free \/ (want_used /\ s[Probe(s, x, i)] = x)}

\* find_pos_const(): the slot of x, or -1.
FindPos(s, x) ==
    LET p == Probe(s, x, Min(Stops(s, x, TRUE))) IN IF s[p] = x THEN p ELSE -1

\* With want_empty: the slot of x, or the first one not in use on the way to
\* where it would be.
FindInsert(s, x, want_used) ==
    LET end == Min(Stops(s, x, want_used))
        way == {i \in 0..end : s[Probe(s, x, i)] \in {Free, Tomb}}
    IN  Probe(s, x, IF s[Probe(s, x, end)] = x \/ way = {} THEN end ELSE Min(way))

-----------------------------------------------------------------------------
\* One turn of the loop of rehash(): what is in a slot is put into table t.
Refilled(t, x) == IF x \in Items THEN [t EXCEPT ![FindInsert(t, x, FALSE)] = x] ELSE t

Rehash(s, newsize) ==
    LET filled[i \in 0..Size(s)] ==
            IF i = 0 THEN Empty(newsize) ELSE Refilled(filled[i - 1], s[i - 1])
    IN  filled[Size(s)]

\* Fault: tombstones are not counted.
GrowsHalfFull == m_count >= Size(slot) \div 2

\* grow(): whether it rehashes before an item is added, and to what.
Grows == m_count >= Size(slot) \div 2 \/ m_used_slots >= (Size(slot) \div 4) * 3

Grown ==
    IF ~Grows THEN slot
    ELSE Rehash(slot, IF m_count >= Size(slot) \div 2 THEN 2 * Size(slot) ELSE Size(slot))

\* What is noted of the loop over the set: nothing after a rehash.
IterNotes(rehashed, in) ==
    /\ moved' = (pos # -1 /\ (moved \/ rehashed))
    /\ stayed' = IF rehashed THEN {} ELSE stayed \cap in
    /\ seen' = [x \in Items |-> IF x \in stayed' THEN seen[x] ELSE 0]
    /\ UNCHANGED pos

\* Fault: grow() comes before the search, so that references die for nothing.
AddGrowsEarly(x) ==
    LET s == Grown
        p == FindInsert(s, x, TRUE)
    IN  /\ slot' = [s EXCEPT ![p] = x]
        /\ m_used_slots' = (IF Grows THEN m_count ELSE m_used_slots)
                             + (IF s[p] = Free THEN 1 ELSE 0)
        /\ m_count' = Cardinality(content \cup {x})
        /\ content' = content \cup {x}
        /\ IterNotes(x \notin content /\ Grows, content')
        /\ UNCHANGED hash

\* add(), that is, get_or_prepare_create(): nothing moves if x is there.
Add(x) ==
    IF slot[FindInsert(slot, x, TRUE)] = x
    THEN UNCHANGED <<hash, tableVars, content, iterVars>>
    ELSE LET s == Grown
             p == FindInsert(s, x, TRUE)
         IN  /\ slot' = [s EXCEPT ![p] = x]
             /\ m_used_slots' = (IF Grows THEN m_count ELSE m_used_slots)
                                  + (IF s[p] = Free THEN 1 ELSE 0)
             /\ m_count' = m_count + 1
             /\ content' = content \cup {x}
             /\ IterNotes(Grows, content')
             /\ UNCHANGED hash

\* remove(): the slot becomes a tombstone, and a table that is mostly empty
\* shrinks.
Remove(x) ==
    LET p == FindPos(slot, x)
        s == [slot EXCEPT ![p] = Tomb]
        shrinks == m_count - 1 < Size(s) \div 4 /\ Size(s) > MinSize
    IN  /\ p # -1
        /\ m_count' = m_count - 1
        /\ slot' = IF shrinks THEN Rehash(s, Size(s) \div 2) ELSE s
        /\ m_used_slots' = IF shrinks THEN m_count - 1 ELSE m_used_slots
        /\ content' = content \ {x}
        /\ IterNotes(shrinks, content')
        /\ UNCHANGED hash

\* construct(const set&): the copy has the slots that are in use, and is
\* rehashed.  What is done to it is what would be done to the original.
Copy ==
    /\ slot' = Rehash(slot, Size(slot))
    /\ m_used_slots' = m_count
    /\ pos' = -1 /\ moved' = FALSE /\ stayed' = {} /\ seen' = [x \in Items |-> 0]
    /\ UNCHANGED <<hash, m_count, content>>

\* reset(), and what construct(set&&) leaves behind.
Reset ==
    /\ slot' = Empty(MinSize) /\ m_used_slots' = 0 /\ m_count' = 0
    /\ content' = {}
    /\ IterNotes(TRUE, {})
    /\ UNCHANGED hash

-----------------------------------------------------------------------------
\* to_valid(), from slot i on.
ToValid(i) == Min({j \in Valid(slot) : j >= i} \cup {IF i > Size(slot) THEN i ELSE Size(slot)})

\* Where the iterator stands, its item is shown to the client.
Show(i) ==
    /\ pos' = ToValid(i)
    /\ seen' = [x \in Items |->
                   IF x \in stayed' /\ pos' < Size(slot) /\ slot[pos'] = x THEN seen[x] + 1 ELSE seen[x]]

Begin ==
    /\ pos = -1 /\ stayed' = content /\ Show(0)
    /\ UNCHANGED <<hash, tableVars, content, moved>>

\* operator++, and operator!= before it.
Advance ==
    /\ pos \in DOMAIN slot /\ stayed' = stayed /\ Show(pos + 1)
    /\ UNCHANGED <<hash, tableVars, content, moved>>

\* The loop ends, at the end or by `break'.
Leave ==
    /\ pos # -1
    /\ pos' = -1 /\ moved' = FALSE /\ stayed' = {} /\ seen' = [x \in Items |-> 0]
    /\ UNCHANGED <<hash, tableVars, content>>

Init ==
    /\ hash \in [Items -> Hashes]
    /\ slot = Empty(MinSize) /\ m_used_slots = 0 /\ m_count = 0
    /\ content = {}
    /\ pos = -1 /\ moved = FALSE /\ stayed = {} /\ seen = [x \in Items |-> 0]

Next ==
    \/ \E x \in Items : Add(x) \/ Remove(x)
    \/ Copy \/ Reset \/ Begin \/ Advance \/ Leave

Spec == Init /\ [][Next]_vars

-----------------------------------------------------------------------------
\* Whatever was added, removed and rehashed, a probe for any item ends, at a
\* slot that was never used if not at the item (set.h:118-138); it finds what
\* is in the set; and no item is in two slots.
Findable ==
    /\ \A x \in Items : Stops(slot, x, TRUE) # {}
    /\ \A x \in Items : x \in content <=> FindPos(slot, x) # -1
    /\ Cardinality(Valid(slot)) = Cardinality(content)

\* Until a rehash, a loop that adds and removes on its way shows each item that
\* stays in the set once: before it passes its slot not yet, and afterwards
\* never again.
ShownOnce ==
    pos # -1 /\ ~moved =>
        \A x \in stayed : seen[x] = (IF FindPos(slot, x) <= pos THEN 1 ELSE 0)
=============================================================================

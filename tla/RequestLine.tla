----------------------------- MODULE RequestLine -----------------------------
(***************************************************************************)
(* What one http_t promises its callers (src/arlib/http.h, and the order   *)
(* the test "http 4" of src/arlib/http.cpp asserts): requests are answered *)
(* in the order they were made, each at most once, although any of them    *)
(* may be cancelled while it waits.                                        *)
(***************************************************************************)
EXTENDS Naturals, SequencesExt

CONSTANT Requests

VARIABLES line,     \* requests made and neither answered nor cancelled
          answered  \* requests that have returned to their caller

lineVars == <<line, answered>>

Init == line = <<>> /\ answered = {}

Make(r) ==
    /\ r \notin answered /\ r \notin ToSet(line)
    /\ line' = Append(line, r)
    /\ UNCHANGED answered

Answer ==
    /\ line # <<>>
    /\ line' = Tail(line)
    /\ answered' = answered \cup {line[1]}

GiveUp(i) == line' = RemoveAt(line, i) /\ UNCHANGED answered

Next == Answer \/ (\E r \in Requests : Make(r)) \/ (\E i \in 1..Len(line) : GiveUp(i))

Spec == Init /\ [][Next]_lineVars
=============================================================================

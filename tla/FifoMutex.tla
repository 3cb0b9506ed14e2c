------------------------------ MODULE FifoMutex ------------------------------
(***************************************************************************)
(* What co_mutex promises (src/arlib/runloop2.h, "waiters are ordered"     *)
(* and "only one coroutine at the time may enter this region"): one line   *)
(* of coroutines in the order they arrived, of which only the first may be *)
(* inside the region.  A coroutine leaves the line when it releases the    *)
(* region or when it is cancelled; nobody is ever put in front of another. *)
(***************************************************************************)
EXTENDS Naturals, SequencesExt

CONSTANT Coros      \* the coroutines

VARIABLES line,     \* who has arrived and not left, oldest first
          inside    \* whether the head of the line has entered

abstractVars == <<line, inside>>

Init == line = <<>> /\ inside = FALSE

\* A coroutine joins the end of the line; an empty region lets it in at once.
Arrive(c) ==
    /\ ~ \E i \in 1..Len(line) : line[i] = c
    /\ line' = Append(line, c)
    /\ inside' = (inside \/ line = <<>>)

\* The head of the line enters.
Enter ==
    /\ line # <<>> /\ ~inside
    /\ inside' = TRUE
    /\ UNCHANGED line

\* The coroutine inside leaves.
Leave ==
    /\ line # <<>> /\ inside
    /\ line' = Tail(line)
    /\ inside' = FALSE

\* A coroutine that waits is cancelled.
GiveUp(i) ==
    /\ inside => i # 1
    /\ line' = RemoveAt(line, i)
    /\ UNCHANGED inside

Next ==
    \/ \E c \in Coros : Arrive(c)
    \/ Enter
    \/ Leave
    \/ \E i \in 1..Len(line) : GiveUp(i)

Spec == Init /\ [][Next]_abstractVars
=============================================================================

--------------------------- MODULE RunOnceThreads ---------------------------
(***************************************************************************)
(* What the two builds of runonce::run() have in common: threads that are  *)
(* somewhere inside it.                                                    *)
(***************************************************************************)
CONSTANT Threads

VARIABLE pc     \* per thread, the access of run() it makes next

Goto(t, place) == pc' = [pc EXCEPT ![t] = place]
=============================================================================

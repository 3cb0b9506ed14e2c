-------------------------------- MODULE Once --------------------------------
(***************************************************************************)
(* What runonce::run() promises (src/arlib/thread/thread.h): however many  *)
(* threads call it, one of them runs the function, once, and no call       *)
(* returns before the function has returned.                               *)
(***************************************************************************)
CONSTANT Threads

VARIABLES phase,    \* "new", "running" or "done": what became of the function
          callers   \* the threads that are inside run()

onceVars == <<phase, callers>>

Init == phase = "new" /\ callers = {}

Call(t) == t \notin callers /\ callers' = callers \cup {t} /\ UNCHANGED phase

Begin == phase = "new" /\ callers # {} /\ phase' = "running" /\ UNCHANGED callers

End == phase = "running" /\ phase' = "done" /\ UNCHANGED callers

Return(t) ==
    /\ phase = "done" /\ t \in callers
    /\ callers' = callers \ {t}
    /\ UNCHANGED phase

Next == Begin \/ End \/ \E t \in Threads : Call(t) \/ Return(t)

Spec == Init /\ [][Next]_onceVars
=============================================================================

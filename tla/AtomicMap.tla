------------------------------ MODULE AtomicMap ------------------------------
(***************************************************************************)
(* What class staticmap promises (src/arlib/staticmap.h): a map that is    *)
(* kept in a file.  An insertion or removal that returns is in the map;    *)
(* one that is cut short by the end of the process happened or did not;    *)
(* and opening the file again changes nothing.                             *)
(***************************************************************************)
CONSTANTS Keys, Vals,
          None      \* no value, no operation

VARIABLES content,  \* the map
          open,     \* whether a process has the file open
          last      \* the last operation that returned, or the one the process
                    \* ended in

mapVars == <<content, open, last>>

Ops == {<<"insert", k, v>> : k \in Keys, v \in Vals}
         \cup {<<"remove", k>> : k \in Keys} \cup {<<"reset">>}

Apply(op) ==
    CASE op[1] = "insert" -> [content EXCEPT ![op[2]] = op[3]]
      [] op[1] = "remove" -> [content EXCEPT ![op[2]] = None]
      [] op[1] = "reset"  -> [k \in Keys |-> None]

Init == content = [k \in Keys |-> None] /\ open = TRUE /\ last = None

Do(op) ==
    /\ open
    /\ last' = op /\ content' = Apply(op)
    /\ UNCHANGED open

\* The process ends, in the middle of op or in none.
End(op) ==
    /\ open /\ open' = FALSE
    /\ last' = <<"in", op>> /\ content' \in {content, Apply(op)}

EndIdle == open /\ open' = FALSE /\ last' = None /\ UNCHANGED content

Reopen == ~open /\ open' = TRUE /\ last' = None /\ UNCHANGED content

Next == EndIdle \/ Reopen \/ \E op \in Ops : Do(op) \/ End(op)

Spec == Init /\ [][Next]_mapVars
=============================================================================

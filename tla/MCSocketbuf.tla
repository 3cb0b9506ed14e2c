----------------------------- MODULE MCSocketbuf -----------------------------
(* The reads a client of Socketbuf makes, small beside buffers of two bytes. *)
EXTENDS Socketbuf

MCReads == {[type |-> "bytes", n |-> 1], [type |-> "bytes", n |-> 3],
            [type |-> "partial", n |-> 2], [type |-> "line", n |-> 3]}
=============================================================================

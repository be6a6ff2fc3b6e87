---------------------------- MODULE MCTransition ----------------------------
(***************************************************************************)
(* An instance of Transition for TLC: every kind of request.               *)
(***************************************************************************)
EXTENDS Transition

Want(start, message, bound) == [start |-> start, message |-> message, bound |-> bound]

MCWanted == {Want(FALSE, FALSE, TRUE)} \cup {Want(TRUE, TRUE, bound) : bound \in BOOLEAN}
=============================================================================

------------------------------ MODULE MCSteer ------------------------------
(***************************************************************************)
(* Instances of Steer for TLC: two requests in one session and one turn,   *)
(* and one request over several turns and sessions with a mishap.          *)
(***************************************************************************)
EXTENDS Steer

CONSTANTS a, b

Scene(C, n, l, m) == [sent |-> {a} \cup C, confirmed |-> C, turns |-> n, launches |-> l, mishaps |-> m]

MCScenes == {Scene({a, b}, 1, 1, 0), Scene({a}, 1, 1, 1), Scene({}, 2, 2, 1)}
=============================================================================

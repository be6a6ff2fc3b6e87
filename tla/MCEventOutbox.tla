--------------------------- MODULE MCEventOutbox ---------------------------
(***************************************************************************)
(* EventOutbox for TLC: who each event is for.                             *)
(***************************************************************************)
EXTENDS EventOutbox

CONSTANTS ann, bob

\* A review from start to end; an issue closed twice; an issue opened.
EachStory == {{Start, Submit}, {Older, Newer}, {Opened}}

\* An opened issue is for two agents, every other event for one.
OpenedForBoth == [e \in Events |-> IF e = Opened THEN {ann, bob} ELSE {ann}]

=============================================================================

--------------------------- MODULE MessageContract ---------------------------
(***************************************************************************)
(* What the backbone promises of direct messages, whatever delivers them:  *)
(* a message that was accepted waits or is held until it has reached its   *)
(* agent or lost its authority; a held one goes nowhere but to the reader  *)
(* of the inbox; one that is over stays over.  docs/how-it-works.md,       *)
(* docs/concepts.md ("delivery condition").                                *)
(***************************************************************************)
CONSTANT Slots      \* the places a message can be stored in

VARIABLES
    place,          \* of the message in each slot: absent, waiting, held, over
    reached,        \* the messages that may have reached the agent
    void            \* the messages whose authority has ended

Places == {"absent", "waiting", "held", "over"}

Init ==
    /\ place = [s \in Slots |-> "absent"]
    /\ reached = {} /\ void = {}

Accept(s) == place[s] = "absent" /\ place'[s] \in {"waiting", "held"}

\* It is handed to the terminal, and waits still for its receipt.
HandOver(s) == place[s] = "waiting" /\ place'[s] = "waiting" /\ s \in reached'

\* It is set aside for the inbox.
Hold(s) == place[s] \in {"waiting", "held"} /\ place'[s] = "held"

\* It is done with; what was not handed over before is done with for want of authority.
End(s) ==
    /\ place[s] \in {"waiting", "held"} /\ place'[s] = "over"
    /\ s \in reached' \cup void'

Rest(s) == place'[s] = place[s] /\ (s \in reached' <=> s \in reached)

Next ==
    /\ place' \in [Slots -> Places]
    /\ reached \subseteq reached' /\ reached' \subseteq Slots
    /\ void \subseteq void' /\ void' \subseteq Slots
    /\ \A s \in Slots : Rest(s) \/ Accept(s) \/ HandOver(s) \/ Hold(s) \/ End(s)

Spec == Init /\ [][Next]_<<place, reached, void>>
=============================================================================

-------------------------- MODULE DeliveryContract --------------------------
(***************************************************************************)
(* SafeDelivery implements MessageContract: the rows that hold a direct    *)
(* message are its slots.                                                  *)
(***************************************************************************)
EXTENDS SafeDelivery

\* Rows of other kinds, which may expire or be purged, are none of its business.
Promised(r) == status[r] # "absent" /\ msg[r] \in DirectKind

PlaceOf(r) ==
    IF ~Promised(r) THEN "absent"
    ELSE IF status[r] \in {"pending", "in_progress"} THEN "waiting"
    ELSE IF Held(r) THEN "held"
    ELSE "over"

\* The name was registered again, the key of its confirmation was reset, or it is the brief
\* of an earlier launch.
Voided(r) ==
    \/ owner[r] # registration
    \/ msg[r] \in Confirmed /\ signing[msg[r]] = "revoked"
    \/ msg[r] \in Briefs /\ briefOf[r] < launches

Contract == INSTANCE MessageContract WITH
    Slots <- Rows,
    place <- [r \in Rows |-> PlaceOf(r)],
    reached <- {r \in Rows : Promised(r) /\ (got[r] > 0 \/ r \in shown)},
    void <- {r \in Rows : Promised(r) /\ Voided(r)}

\* An accepted direct message waits or is held until it reached the agent or lost its
\* authority; what is held is never pasted; what is over is over (safe_deliver, the drain,
\* the inbox, the sweeps, a launch and a key reset together).
KeepsContract == Contract!Spec
=============================================================================

--------------------------- MODULE MCMessageQueue ---------------------------
(***************************************************************************)
(* Properties of the queue table under any order of its transactions, and  *)
(* the specification TLC checks them on: QSpec with one history variable.  *)
(***************************************************************************)
EXTENDS MessageQueue

VARIABLE sinceHold   \* history: time since an uncertain direct message was last resolved

mcvars == <<status, msg, age, lease, owner, grace, registration, inboxOnly, sinceHold>>

UncertainDirect == {r \in Rows : status[r] = "uncertain" /\ msg[r] \in DirectKind}
Resolving == \E r \in UncertainDirect :
                status'[r] # "uncertain" /\ registration' = registration

MCInit == QInit /\ sinceHold = Window + 1

MCNext ==
    \/ QStep /\ sinceHold' = IF Resolving THEN 0 ELSE sinceHold
    \/ Tick /\ sinceHold' = Older(sinceHold, Window)

MCSpec == MCInit /\ [][MCNext]_mcvars

-----------------------------------------------------------------------------
\* Every variable has its type.
TypeOK == QTypeOK /\ sinceHold \in 0 .. Window + 1

\* A message has at most one row waiting: however the sends, leases, holds and
\* releases of one message interleave, the inbox and the drain never each hold
\* a copy of it (the partial unique indexes of message_queue). Notices are
\* exempt: each has its own identity.
OneActiveRow ==
    \A q, r \in Rows : Active(q) /\ Active(r) /\ msg[q] = msg[r] /\ msg[q] # Notice => q = r

\* What the inbox was shown, an unconfirmed paste, and a finished row never go
\* back to terminal delivery: no late release, lease sweep, repeated enqueue or
\* completion of an older lease makes them pending again.
NeverBackToDelivery ==
    [][\A r \in Rows : status[r] \in {"checkpoint", "uncertain", "delivered", "expired"}
          => status'[r] \notin {"pending", "in_progress"}]_mcvars

\* An unconfirmed paste keeps its hold until it is resolved: a repeated send of
\* the same message for the inbox, a late completion or a late release does not
\* lift it (the status CASE of enqueue, the guards of mark_delivered and release).
UncertainOnlyResolved ==
    [][\A r \in Rows : status[r] = "uncertain" => status'[r] \in {"uncertain", "delivered", "expired"}]_mcvars

\* Nothing expires while a paste is unconfirmed, and what waited behind an
\* unconfirmed direct message gets a full window after that was resolved, however
\* long it had waited already (expire_pending, the uncertain-acknowledged and
\* uncertain-retired receipts). Inbox-only agents have the simpler rule.
FullWindowAfterHold ==
    [][ExpirePending /\ ~inboxOnly
          => ~HasUncertain /\ sinceHold > Window]_mcvars

\* A direct message never expires by age: only the retirement of the
\* registration, the next launch (a startup brief) or a key reset (a
\* confirmation) drops it.
DirectNeverExpires ==
    [][\A r \in Rows : Active(r) /\ msg[r] \in DirectKind /\ status'[r] = "expired"
          => \/ registration' # registration
             \/ msg[r] \in Briefs /\ RetirePendingBriefs
             \/ msg[r] \in Confirmed /\ \E gone, begun \in SUBSET Confirmed : Revoke(gone, begun)]_mcvars

\* An expiry is never committed without its notice: after a sweep a notice that
\* nobody has taken yet waits for the recipient (expire_pending, _revise_in).
ExpiryLeavesNotice ==
    [][(\E r \in Rows : msg[r] \in Comments /\ status[r] # "expired" /\ status'[r] = "expired")
          => registration' # registration
             \/ \E n \in Rows : msg'[n] = Notice /\ status'[n] = "pending"]_mcvars
=============================================================================

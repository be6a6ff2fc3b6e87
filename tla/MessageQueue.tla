---------------------------- MODULE MessageQueue ----------------------------
(***************************************************************************)
(* The message_queue table of one agent, and the transactions of           *)
(* services/database/_queue_repo.py (and the retirement in                 *)
(* _agents_repo.py) that change it.  Each action is one transaction.       *)
(* Here they run in any order the table itself allows; SafeDelivery        *)
(* composes the same actions with the locks, the drain and the terminal.   *)
(*                                                                         *)
(* A message stands for its duplicate key (dedup_key_for): two sends of    *)
(* the same text by the same sender are the same message.  Row numbers     *)
(* follow enqueued_at.  Time is kept as ages that stop growing once they   *)
(* have passed every limit they are compared with.                         *)
(***************************************************************************)
EXTENDS Naturals, FiniteSets

CONSTANTS
    Messages,     \* every message that may be queued
    Briefs,       \* source agent-brief, kind direct_message
    Confirmed,    \* owner-confirmed messages, kind direct_message
    Comments,     \* notices about one GitHub issue; ordinary, expiring kinds
    Notice,       \* the expiry notice, kind direct_message, source queue-expiry
    MaxRows,      \* bound: rows ever inserted
    MaxReg,       \* bound: registrations of the agent's name
    LeaseLimit,   \* a lease older than this is stale (5 minutes in the code)
    Window        \* a row older than this expires (timing.queue_expiry_minutes)

ASSUME QueueAssumption ==
    /\ Briefs \subseteq Messages /\ Confirmed \subseteq Messages
    /\ Comments \subseteq Messages /\ Notice \in Messages
    /\ Briefs \cap Confirmed = {} /\ Briefs \cap Comments = {}
    /\ Confirmed \cap Comments = {}
    /\ Notice \notin Briefs \cup Confirmed \cup Comments
    /\ MaxRows \in Nat \ {0} /\ MaxReg \in Nat \ {0}
    /\ LeaseLimit \in Nat /\ Window \in Nat

VARIABLES
    status,       \* message_queue.status of each row, "absent" before its insert
    msg,          \* the message the row holds
    age,          \* time since enqueued_at
    lease,        \* time since leased_at
    owner,        \* message_queue.registration_id
    grace,        \* time since the newest uncertain-acknowledged/-retired receipt
    registration, \* the agent's current report_identity
    inboxOnly     \* the agent is an inbox-only client

qvars == <<status, msg, age, lease, owner, grace, registration, inboxOnly>>

Rows == 1 .. MaxRows
Direct == Messages \ (Briefs \cup Confirmed \cup Comments \cup {Notice})
DirectKind == Messages \ Comments          \* delivery_kind = 'direct_message'

ActiveStatus == {"pending", "in_progress", "checkpoint", "uncertain"}
Status == ActiveStatus \cup {"absent", "delivered", "expired"}

Active(r) == status[r] \in ActiveStatus
Held(r) == status[r] \in {"checkpoint", "uncertain"}
HasUncertain == \E r \in Rows : status[r] = "uncertain"
Old(r) == age[r] > Window
StaleLease(r) == lease[r] > LeaseLimit

QTypeOK ==
    /\ status \in [Rows -> Status]
    /\ msg \in [Rows -> Messages]
    /\ age \in [Rows -> 0 .. Window + 1]
    /\ lease \in [Rows -> 0 .. LeaseLimit + 1]
    /\ owner \in [Rows -> 1 .. MaxReg]
    /\ grace \in 0 .. Window + 1
    /\ registration \in 1 .. MaxReg
    /\ inboxOnly \in BOOLEAN

QInit ==
    /\ status = [r \in Rows |-> "absent"]
    /\ msg = [r \in Rows |-> Notice]
    /\ age = [r \in Rows |-> Window + 1]
    /\ lease = [r \in Rows |-> 0]
    /\ owner = [r \in Rows |-> 1]
    /\ grace = Window + 1
    /\ registration = 1
    /\ inboxOnly = FALSE

(***************************************************************************)
(* Helpers                                                                 *)
(***************************************************************************)

\* The row the next insert gets.
NextRow(r) == /\ status[r] = "absent"
              /\ \A q \in Rows : q < r => status[q] # "absent"

Insert(r, m, s) ==
    /\ status' = [status EXCEPT ![r] = s]
    /\ msg' = [msg EXCEPT ![r] = m]
    /\ age' = [age EXCEPT ![r] = 0]
    /\ owner' = [owner EXCEPT ![r] = registration]

\* The order in which a drain takes rows: the startup brief first, then the
\* oldest (no message of this module has a raised priority).
Before(q, r) == \/ msg[q] \in Briefs /\ msg[r] \notin Briefs
                \/ (msg[q] \in Briefs <=> msg[r] \in Briefs) /\ q < r

\* leased_at = NULL of the rows that change, 0 here.
NoLease == lease' = [r \in Rows |-> IF status'[r] # status[r] THEN 0 ELSE lease[r]]

\* The receipt a resolved uncertain hold leaves starts the window again.
Resolve(held) == grace' = IF held THEN 0 ELSE grace

(***************************************************************************)
(* Transactions                                                            *)
(***************************************************************************)

\* Fault: the unique index covers the rows of terminal delivery only.
EnqueueNewUnlessQueued(m, s) ==
    /\ \A r \in Rows : status[r] \in {"pending", "in_progress"} => msg[r] # m
    /\ \E r \in Rows : NextRow(r) /\ Insert(r, m, s)
    /\ UNCHANGED <<lease, grace, registration, inboxOnly>>

\* enqueue: a new row, when no row of the same message is still active.
EnqueueNew(m, s) ==
    /\ \A r \in Rows : Active(r) => msg[r] # m
    /\ \E r \in Rows : NextRow(r) /\ Insert(r, m, s)
    /\ UNCHANGED <<lease, grace, registration, inboxOnly>>

\* Fault: the latest hold wins.
UpgradedToLatest(old, s) == IF s = "pending" THEN old ELSE s

\* enqueue, conflict: the active row answers; an uncertain paste or an inbox
\* hold of the same message upgrades it, whoever has it leased.
Upgraded(old, s) ==
    IF s = "uncertain" \/ (s = "checkpoint" /\ old # "uncertain") THEN s ELSE old

EnqueueAgain(m, s) ==
    /\ \E r \in Rows : Active(r) /\ msg[r] = m
    /\ status' = [r \in Rows |-> IF Active(r) /\ msg[r] = m
                                 THEN Upgraded(status[r], s) ELSE status[r]]
    /\ UNCHANGED <<msg, age, lease, owner, grace, registration, inboxOnly>>

\* dequeue: lease the first rows of the queue.  batch is what the call returns.
Dequeue(batch) ==
    /\ batch # {}
    /\ \A r \in batch : status[r] = "pending"
    /\ \A q \in Rows \ batch : \A r \in batch : status[q] = "pending" => Before(r, q)
    /\ status' = [r \in Rows |-> IF r \in batch THEN "in_progress" ELSE status[r]]
    /\ lease' = [r \in Rows |-> IF r \in batch THEN 0 ELSE lease[r]]
    /\ UNCHANGED <<msg, age, owner, grace, registration, inboxOnly>>

\* Fault: release without its status guard.
ReleaseAnyStatus(batch) ==
    /\ status' = [r \in Rows |-> IF r \in batch /\ status[r] # "absent"
                                 THEN "pending" ELSE status[r]]
    /\ NoLease
    /\ UNCHANGED <<msg, age, owner, grace, registration, inboxOnly>>

\* release, for every row a drain leased: only rows still leased go back.
Release(batch) ==
    /\ status' = [r \in Rows |-> IF r \in batch /\ status[r] = "in_progress"
                                 THEN "pending" ELSE status[r]]
    /\ NoLease
    /\ UNCHANGED <<msg, age, owner, grace, registration, inboxOnly>>

\* expire_stale_leases: by age alone, whether or not the drain still runs.
ExpireStaleLeases ==
    /\ \E r \in Rows : status[r] = "in_progress" /\ StaleLease(r)
    /\ status' = [r \in Rows |-> IF status[r] = "in_progress" /\ StaleLease(r)
                                 THEN "pending" ELSE status[r]]
    /\ NoLease
    /\ UNCHANGED <<msg, age, owner, grace, registration, inboxOnly>>

\* mark_delivered: completes a lease and nothing else.
MarkDelivered(r) ==
    /\ status' = [status EXCEPT ![r] = IF @ = "in_progress" THEN "delivered" ELSE @]
    /\ UNCHANGED <<msg, age, lease, owner, grace, registration, inboxOnly>>

\* hold_for_inbox and hold_uncertain.
HoldFrom == {"pending", "in_progress"}
HoldAs(r, s) ==
    /\ status' = [status EXCEPT ![r] = IF @ \in HoldFrom THEN s ELSE @]
    /\ NoLease
    /\ UNCHANGED <<msg, age, owner, grace, registration, inboxOnly>>

\* expire_pending: which rows a sweep takes.
Expiring(r) ==
    /\ status[r] = "pending" /\ Old(r)
    /\ msg[r] \notin DirectKind
    /\ inboxOnly \/ (~HasUncertain /\ grace > Window)

\* Fault: the notice grows even when a drain has taken it.
NoticeLeasedOrWaits ==
    \E n \in Rows : msg[n] = Notice /\ status[n] \in {"pending", "in_progress"}

\* The notice that _revise_in makes grow.
NoticeWaits == \E n \in Rows : msg[n] = Notice /\ status[n] = "pending"

\* expire_pending and its notice, one transaction: the waiting notice grows,
\* or a new one is inserted (_revise_in).
ExpirePending ==
    /\ \E r \in Rows : Expiring(r)
    /\ \/ /\ NoticeWaits
          /\ status' = [r \in Rows |-> IF Expiring(r) THEN "expired" ELSE status[r]]
          /\ UNCHANGED <<msg, age, owner>>
       \/ /\ ~NoticeWaits
          /\ \E n \in Rows :
               /\ NextRow(n)
               /\ status' = [r \in Rows |-> IF r = n THEN "pending"
                                            ELSE IF Expiring(r) THEN "expired"
                                            ELSE status[r]]
               /\ msg' = [msg EXCEPT ![n] = Notice]
               /\ age' = [age EXCEPT ![n] = 0]
               /\ owner' = [owner EXCEPT ![n] = registration]
    /\ UNCHANGED <<lease, grace, registration, inboxOnly>>

\* purge_for_issue: every active row about the closed issue, leased, held or
\* uncertain, is completed.
PurgeForIssue ==
    /\ \E r \in Rows : Active(r) /\ msg[r] \in Comments
    /\ status' = [r \in Rows |-> IF Active(r) /\ msg[r] \in Comments
                                 THEN "delivered" ELSE status[r]]
    /\ UNCHANGED <<msg, age, lease, owner, grace, registration, inboxOnly>>

\* checkpoint: the inbox takes the waiting direct messages out of terminal
\* delivery; what it returns is every held row.
ReadInbox ==
    /\ status' = [r \in Rows |-> IF status[r] = "pending" /\ msg[r] \in DirectKind
                                 THEN "checkpoint" ELSE status[r]]
    /\ NoLease
    /\ UNCHANGED <<msg, age, owner, grace, registration, inboxOnly>>

InboxRows == {r \in Rows : Held(r) \/ (status[r] = "pending" /\ msg[r] \in DirectKind)}

\* Fault: the acknowledgment leaves no receipt for the expiry window.
AcknowledgeQuietly(tokens) ==
    /\ \A r \in tokens : Held(r) \/ status[r] = "delivered"
    /\ status' = [r \in Rows |-> IF r \in tokens /\ Held(r) THEN "delivered" ELSE status[r]]
    /\ UNCHANGED <<msg, age, lease, owner, grace, registration, inboxOnly>>

\* acknowledge_checkpoint: all tokens match a held or delivered row, or none is taken.
Acknowledge(tokens) ==
    /\ \A r \in tokens : Held(r) \/ status[r] = "delivered"
    /\ status' = [r \in Rows |-> IF r \in tokens /\ Held(r) THEN "delivered" ELSE status[r]]
    /\ Resolve(\E r \in tokens : status[r] = "uncertain")
    /\ UNCHANGED <<msg, age, lease, owner, registration, inboxOnly>>

\* Fault: a brief that a drain has leased is not retired.
RetireWaitingBriefs ==
    /\ status' = [r \in Rows |-> IF status[r] # "in_progress" /\ Active(r) /\ msg[r] \in Briefs
                                 THEN "expired" ELSE status[r]]
    /\ Resolve(\E r \in Rows : status[r] = "uncertain" /\ msg[r] \in Briefs)
    /\ UNCHANGED <<msg, age, lease, owner, registration, inboxOnly>>

\* retire_pending_briefs, before a launch.
RetirePendingBriefs ==
    /\ status' = [r \in Rows |-> IF Active(r) /\ msg[r] \in Briefs
                                 THEN "expired" ELSE status[r]]
    /\ Resolve(\E r \in Rows : status[r] = "uncertain" /\ msg[r] \in Briefs)
    /\ UNCHANGED <<msg, age, lease, owner, registration, inboxOnly>>

\* _revoke_epoch: the waiting and leased rows of confirmations that lost their
\* authority; what was already pasted, or may have been, is held.
Revoke(gone, begun) ==
    /\ status' = [r \in Rows |->
                     IF msg[r] \notin gone \/ status[r] \notin {"pending", "in_progress"}
                     THEN status[r]
                     ELSE IF msg[r] \in begun THEN "uncertain" ELSE "expired"]
    /\ NoLease
    /\ UNCHANGED <<msg, age, owner, grace, registration, inboxOnly>>

\* agents.delete, and the next registration of the name.  The deliveries it
\* supersedes keep their rows: an older receipt still counts for the window.
Reregister ==
    /\ registration < MaxReg
    /\ registration' = registration + 1
    /\ status' = [r \in Rows |-> IF Active(r) THEN "expired" ELSE status[r]]
    /\ inboxOnly' \in BOOLEAN
    /\ NoLease
    /\ UNCHANGED <<msg, age, owner, grace>>

\* agent set inbox_only=true|false.
SetInboxOnly ==
    /\ inboxOnly' = ~inboxOnly
    /\ UNCHANGED <<status, msg, age, lease, owner, grace, registration>>

Older(n, limit) == IF n > limit THEN n ELSE n + 1

\* Time passes for every row, lease and receipt alike.
Tick ==
    /\ age' = [r \in Rows |-> Older(age[r], Window)]
    /\ lease' = [r \in Rows |-> IF status[r] = "in_progress"
                                THEN Older(lease[r], LeaseLimit) ELSE lease[r]]
    /\ grace' = Older(grace, Window)
    /\ UNCHANGED <<status, msg, owner, registration, inboxOnly>>

(***************************************************************************)
(* The table under any client                                              *)
(***************************************************************************)
QStep ==
    \/ \E m \in Messages \ {Notice}, s \in {"pending", "checkpoint", "uncertain"} :
          /\ m \in Briefs => ~inboxOnly     \* an inbox-only agent is never launched
          /\ EnqueueNew(m, s) \/ EnqueueAgain(m, s)
    \/ \E batch \in SUBSET Rows : Dequeue(batch) \/ Release(batch)
    \/ ExpireStaleLeases
    \/ \E r \in Rows : MarkDelivered(r)
    \/ \E r \in Rows, s \in {"checkpoint", "uncertain"} : HoldAs(r, s)
    \/ ExpirePending
    \/ PurgeForIssue
    \/ ReadInbox
    \/ \E tokens \in SUBSET Rows : Acknowledge(tokens)
    \/ RetirePendingBriefs
    \/ \E gone, begun \in SUBSET Confirmed : Revoke(gone, begun)
    \/ Reregister
    \/ SetInboxOnly

QNext == QStep \/ Tick

QSpec == QInit /\ [][QNext]_qvars
=============================================================================

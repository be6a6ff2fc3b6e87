------------------------- MODULE MessageQueueProofs -------------------------
(***************************************************************************)
(* What every transaction of the queue table preserves, for any number of  *)
(* rows, messages and registrations.                                       *)
(***************************************************************************)
EXTENDS MessageQueue, TLAPS

\* What a drain may still take, and what it may not.
Open == {"pending", "in_progress"}
Finished == {"delivered", "expired"}
Settled == {"checkpoint", "uncertain"} \cup Finished

-----------------------------------------------------------------------------
\* Every variable keeps its type over every transaction and over time.
LEMMA QTypeKept == QTypeOK /\ [QNext]_qvars => QTypeOK'
<1> SUFFICES ASSUME QTypeOK, [QNext]_qvars PROVE QTypeOK'
  OBVIOUS
<1> USE DEF QTypeOK, NoLease, Resolve
<1>a. 0 \in 0 .. Window + 1 /\ 0 \in 0 .. LeaseLimit + 1
  BY QueueAssumption
<1>b. {"pending", "in_progress", "checkpoint", "uncertain", "delivered", "expired"} \subseteq Status
  BY DEF Status, ActiveStatus
<1>c. Notice \in Messages
  BY QueueAssumption
<1> USE <1>a, <1>b, <1>c
<1>1. ASSUME NEW m \in Messages, NEW s \in {"pending", "checkpoint", "uncertain"},
             EnqueueNew(m, s)
      PROVE  QTypeOK'
  BY <1>1 DEF EnqueueNew, Insert, NextRow
<1>2. ASSUME NEW m \in Messages, NEW s \in {"pending", "checkpoint", "uncertain"},
             EnqueueAgain(m, s)
      PROVE  QTypeOK'
  BY <1>2 DEF EnqueueAgain, Upgraded
<1>3. ASSUME NEW batch \in SUBSET Rows, Dequeue(batch) PROVE QTypeOK'
  BY <1>3 DEF Dequeue
<1>4. ASSUME NEW batch \in SUBSET Rows, Release(batch) PROVE QTypeOK'
  BY <1>4 DEF Release
<1>5. CASE ExpireStaleLeases
  BY <1>5 DEF ExpireStaleLeases
<1>6. ASSUME NEW r \in Rows, MarkDelivered(r) PROVE QTypeOK'
  BY <1>6 DEF MarkDelivered
<1>7. ASSUME NEW r \in Rows, NEW s \in {"checkpoint", "uncertain"}, HoldAs(r, s)
      PROVE  QTypeOK'
  BY <1>7 DEF HoldAs
<1>8. CASE ExpirePending
  BY <1>8 DEF ExpirePending, NextRow
<1>9. CASE PurgeForIssue
  BY <1>9 DEF PurgeForIssue
<1>10. CASE ReadInbox
  BY <1>10 DEF ReadInbox
<1>11. ASSUME NEW tokens \in SUBSET Rows, Acknowledge(tokens) PROVE QTypeOK'
  BY <1>11 DEF Acknowledge
<1>12. CASE RetirePendingBriefs
  BY <1>12 DEF RetirePendingBriefs
<1>13. ASSUME NEW gone, NEW begun, Revoke(gone, begun) PROVE QTypeOK'
  BY <1>13 DEF Revoke
<1>14. CASE Reregister
  BY <1>14, QueueAssumption DEF Reregister
<1>15. CASE SetInboxOnly
  BY <1>15 DEF SetInboxOnly
<1>16. CASE Tick
  BY <1>16, QueueAssumption DEF Tick, Older
<1>17. CASE UNCHANGED qvars
  BY <1>17 DEF qvars
<1> QED
  BY <1>1, <1>2, <1>3, <1>4, <1>5, <1>6, <1>7, <1>8, <1>9, <1>10, <1>11, <1>12,
     <1>13, <1>14, <1>15, <1>16, <1>17 DEF QNext, QStep

-----------------------------------------------------------------------------
\* A row keeps its message and its registration once it is inserted, and is
\* never removed.
RowKept(r) ==
    status[r] # "absent" =>
        status'[r] # "absent" /\ msg'[r] = msg[r] /\ owner'[r] = owner[r]

\* A transaction fills absent rows and changes nothing of a filled one but its
\* status and times.
LEMMA RowsKept == QTypeOK /\ [QNext]_qvars => \A r \in Rows : RowKept(r)
<1> SUFFICES ASSUME QTypeOK, [QNext]_qvars, NEW r \in Rows PROVE RowKept(r)
  OBVIOUS
<1> USE DEF QTypeOK, RowKept
<1>1. ASSUME NEW m \in Messages, NEW s \in {"pending", "checkpoint", "uncertain"},
             EnqueueNew(m, s)
      PROVE  RowKept(r)
  BY <1>1 DEF EnqueueNew, Insert, NextRow
<1>2. ASSUME NEW m \in Messages, NEW s \in {"pending", "checkpoint", "uncertain"},
             EnqueueAgain(m, s)
      PROVE  RowKept(r)
  BY <1>2 DEF EnqueueAgain, Upgraded
<1>3. ASSUME NEW batch \in SUBSET Rows, Dequeue(batch) \/ Release(batch)
      PROVE  RowKept(r)
  BY <1>3 DEF Dequeue, Release
<1>4. ASSUME ExpireStaleLeases \/ PurgeForIssue \/ ReadInbox \/ RetirePendingBriefs
      PROVE  RowKept(r)
  BY <1>4 DEF ExpireStaleLeases, PurgeForIssue, ReadInbox, RetirePendingBriefs
<1>5. ASSUME NEW q \in Rows, NEW s \in {"checkpoint", "uncertain"},
             MarkDelivered(q) \/ HoldAs(q, s)
      PROVE  RowKept(r)
  BY <1>5 DEF MarkDelivered, HoldAs
<1>6. CASE ExpirePending
  BY <1>6 DEF ExpirePending, NextRow
<1>7. ASSUME NEW tokens \in SUBSET Rows, Acknowledge(tokens) PROVE RowKept(r)
  BY <1>7 DEF Acknowledge
<1>8. ASSUME NEW gone, NEW begun, Revoke(gone, begun) PROVE RowKept(r)
  BY <1>8 DEF Revoke
<1>9. ASSUME Reregister \/ SetInboxOnly \/ Tick \/ UNCHANGED qvars PROVE RowKept(r)
  BY <1>9 DEF Reregister, SetInboxOnly, Tick, qvars
<1> QED
  BY <1>1, <1>2, <1>3, <1>4, <1>5, <1>6, <1>7, <1>8, <1>9 DEF QNext, QStep

\* What the inbox has, what is unconfirmed and what is finished never returns to
\* terminal delivery.
LEMMA SettledKept ==
    QTypeOK /\ [QNext]_qvars => \A r \in Rows : status[r] \in Settled => status'[r] \in Settled
<1> SUFFICES ASSUME QTypeOK, [QNext]_qvars, NEW r \in Rows, status[r] \in Settled
             PROVE  status'[r] \in Settled
  OBVIOUS
<1> USE DEF QTypeOK, Settled, Finished
<1>1. ASSUME NEW m \in Messages, NEW s \in {"pending", "checkpoint", "uncertain"},
             EnqueueNew(m, s)
      PROVE  status'[r] \in Settled
  BY <1>1 DEF EnqueueNew, Insert, NextRow
<1>2. ASSUME NEW m \in Messages, NEW s \in {"pending", "checkpoint", "uncertain"},
             EnqueueAgain(m, s)
      PROVE  status'[r] \in Settled
  BY <1>2 DEF EnqueueAgain, Upgraded
<1>3. ASSUME NEW batch \in SUBSET Rows, Dequeue(batch) \/ Release(batch)
      PROVE  status'[r] \in Settled
  BY <1>3 DEF Dequeue, Release
<1>4. ASSUME ExpireStaleLeases \/ PurgeForIssue \/ ReadInbox \/ RetirePendingBriefs
      PROVE  status'[r] \in Settled
  BY <1>4 DEF ExpireStaleLeases, PurgeForIssue, ReadInbox, RetirePendingBriefs
<1>5. ASSUME NEW q \in Rows, NEW s \in {"checkpoint", "uncertain"},
             MarkDelivered(q) \/ HoldAs(q, s)
      PROVE  status'[r] \in Settled
  BY <1>5 DEF MarkDelivered, HoldAs, HoldFrom
<1>6. CASE ExpirePending
  BY <1>6 DEF ExpirePending, NextRow, Expiring
<1>7. ASSUME NEW tokens \in SUBSET Rows, Acknowledge(tokens) PROVE status'[r] \in Settled
  BY <1>7 DEF Acknowledge
<1>8. ASSUME NEW gone, NEW begun, Revoke(gone, begun) PROVE status'[r] \in Settled
  BY <1>8 DEF Revoke
<1>9. ASSUME Reregister \/ SetInboxOnly \/ Tick \/ UNCHANGED qvars
      PROVE  status'[r] \in Settled
  BY <1>9 DEF Reregister, SetInboxOnly, Tick, qvars
<1> QED
  BY <1>1, <1>2, <1>3, <1>4, <1>5, <1>6, <1>7, <1>8, <1>9 DEF QNext, QStep

\* A delivered or expired row stays what it is.
LEMMA FinishedKept ==
    QTypeOK /\ [QNext]_qvars => \A r \in Rows : status[r] \in Finished => status'[r] = status[r]
<1> SUFFICES ASSUME QTypeOK, [QNext]_qvars, NEW r \in Rows, status[r] \in Finished
             PROVE  status'[r] = status[r]
  OBVIOUS
<1> USE DEF QTypeOK, Finished, Active, ActiveStatus, Held
<1>1. ASSUME NEW m \in Messages, NEW s \in {"pending", "checkpoint", "uncertain"},
             EnqueueNew(m, s)
      PROVE  status'[r] = status[r]
  BY <1>1 DEF EnqueueNew, Insert, NextRow
<1>2. ASSUME NEW m \in Messages, NEW s \in {"pending", "checkpoint", "uncertain"},
             EnqueueAgain(m, s)
      PROVE  status'[r] = status[r]
  BY <1>2 DEF EnqueueAgain, Upgraded
<1>3. ASSUME NEW batch \in SUBSET Rows, Dequeue(batch) \/ Release(batch)
      PROVE  status'[r] = status[r]
  BY <1>3 DEF Dequeue, Release
<1>4. ASSUME ExpireStaleLeases \/ PurgeForIssue \/ ReadInbox \/ RetirePendingBriefs
      PROVE  status'[r] = status[r]
  BY <1>4 DEF ExpireStaleLeases, PurgeForIssue, ReadInbox, RetirePendingBriefs
<1>5. ASSUME NEW q \in Rows, NEW s \in {"checkpoint", "uncertain"},
             MarkDelivered(q) \/ HoldAs(q, s)
      PROVE  status'[r] = status[r]
  BY <1>5 DEF MarkDelivered, HoldAs, HoldFrom
<1>6. CASE ExpirePending
  BY <1>6 DEF ExpirePending, NextRow, Expiring
<1>7. ASSUME NEW tokens \in SUBSET Rows, Acknowledge(tokens) PROVE status'[r] = status[r]
  BY <1>7 DEF Acknowledge
<1>8. ASSUME NEW gone, NEW begun, Revoke(gone, begun) PROVE status'[r] = status[r]
  BY <1>8 DEF Revoke
<1>9. ASSUME Reregister \/ SetInboxOnly \/ Tick \/ UNCHANGED qvars
      PROVE  status'[r] = status[r]
  BY <1>9 DEF Reregister, SetInboxOnly, Tick, qvars
<1> QED
  BY <1>1, <1>2, <1>3, <1>4, <1>5, <1>6, <1>7, <1>8, <1>9 DEF QNext, QStep

\* An unconfirmed paste is held until it is resolved.
LEMMA UncertainKept ==
    QTypeOK /\ [QNext]_qvars =>
        \A r \in Rows : status[r] = "uncertain" => status'[r] \in {"uncertain", "delivered", "expired"}
<1> SUFFICES ASSUME QTypeOK, [QNext]_qvars, NEW r \in Rows, status[r] = "uncertain"
             PROVE  status'[r] \in {"uncertain", "delivered", "expired"}
  OBVIOUS
<1> USE DEF QTypeOK
<1>1. ASSUME NEW m \in Messages, NEW s \in {"pending", "checkpoint", "uncertain"},
             EnqueueNew(m, s) \/ EnqueueAgain(m, s)
      PROVE  status'[r] = "uncertain"
  BY <1>1 DEF EnqueueNew, Insert, NextRow, EnqueueAgain, Upgraded
<1>2. ASSUME NEW batch \in SUBSET Rows, Dequeue(batch) \/ Release(batch)
      PROVE  status'[r] = "uncertain"
  BY <1>2 DEF Dequeue, Release
<1>3. ASSUME ExpireStaleLeases \/ PurgeForIssue \/ ReadInbox \/ RetirePendingBriefs
      PROVE  status'[r] \in {"uncertain", "delivered", "expired"}
  BY <1>3 DEF ExpireStaleLeases, PurgeForIssue, ReadInbox, RetirePendingBriefs
<1>4. ASSUME NEW q \in Rows, NEW s \in {"checkpoint", "uncertain"},
             MarkDelivered(q) \/ HoldAs(q, s)
      PROVE  status'[r] = "uncertain"
  BY <1>4 DEF MarkDelivered, HoldAs, HoldFrom
<1>5. CASE ExpirePending
  BY <1>5 DEF ExpirePending, NextRow, Expiring
<1>6. ASSUME NEW tokens \in SUBSET Rows, Acknowledge(tokens)
      PROVE  status'[r] \in {"uncertain", "delivered", "expired"}
  BY <1>6 DEF Acknowledge
<1>7. ASSUME NEW gone, NEW begun, Revoke(gone, begun) PROVE status'[r] = "uncertain"
  BY <1>7 DEF Revoke
<1>8. ASSUME Reregister \/ SetInboxOnly \/ Tick \/ UNCHANGED qvars
      PROVE  status'[r] \in {"uncertain", "delivered", "expired"}
  BY <1>8 DEF Reregister, SetInboxOnly, Tick, qvars
<1> QED
  BY <1>1, <1>2, <1>3, <1>4, <1>5, <1>6, <1>7, <1>8 DEF QNext, QStep

=============================================================================

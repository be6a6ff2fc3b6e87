------------------------ MODULE MCMessageQueueProofs ------------------------
(***************************************************************************)
(* The properties of the queue table, for any number of rows, messages and *)
(* registrations and any limits.                                           *)
(***************************************************************************)
EXTENDS MCMessageQueue, MessageQueueProofs

\* A step of MCSpec is a step of the table.
LEMMA StepOfTable == [MCNext]_mcvars => [QNext]_qvars
<1> SUFFICES ASSUME [MCNext]_mcvars PROVE [QNext]_qvars
  OBVIOUS
<1>1. CASE MCNext
  BY <1>1 DEF MCNext, QNext
<1>2. CASE UNCHANGED mcvars
  BY <1>2 DEF mcvars, qvars
<1> QED
  BY <1>1, <1>2

-----------------------------------------------------------------------------
\* MCSpec keeps the type of every variable: no transaction writes a status, a
\* registration or an age outside its range (the whole of _queue_repo.py).
THEOREM QueueTypeOK == MCSpec => []TypeOK
<1>1. MCInit => TypeOK
  <2>1. Window + 1 \in 0 .. Window + 1 /\ 0 \in 0 .. LeaseLimit + 1 /\ 1 \in 1 .. MaxReg
        /\ Notice \in Messages
    BY QueueAssumption
  <2> QED
    BY <2>1 DEF MCInit, QInit, TypeOK, QTypeOK, Status
<1>2. TypeOK /\ [MCNext]_mcvars => TypeOK'
  <2> SUFFICES ASSUME TypeOK, [MCNext]_mcvars PROVE TypeOK'
    OBVIOUS
  <2>1. QTypeOK'
    BY StepOfTable, QTypeKept DEF TypeOK
  <2>2. sinceHold' \in 0 .. Window + 1
    BY QueueAssumption DEF TypeOK, MCNext, mcvars, Older
  <2> QED
    BY <2>1, <2>2 DEF TypeOK
<1> QED
  BY <1>1, <1>2, PTL DEF MCSpec

-----------------------------------------------------------------------------
\* A row becomes active only by being inserted.
LEMMA ActiveKept ==
    ASSUME QTypeOK, [QNext]_qvars,
           \A m \in Messages, s \in Status : ~ EnqueueNew(m, s),
           NEW r \in Rows, Active(r)'
    PROVE  Active(r) \/ msg'[r] = Notice
<1> USE DEF QTypeOK, Active, ActiveStatus
<1>1. ASSUME NEW m \in Messages, NEW s \in {"pending", "checkpoint", "uncertain"},
             EnqueueAgain(m, s)
      PROVE  Active(r)
  BY <1>1 DEF EnqueueAgain
<1>2. ASSUME NEW batch \in SUBSET Rows, Dequeue(batch) \/ Release(batch) PROVE Active(r)
  BY <1>2 DEF Dequeue, Release
<1>3. ASSUME ExpireStaleLeases \/ PurgeForIssue \/ ReadInbox \/ RetirePendingBriefs
      PROVE  Active(r)
  BY <1>3 DEF ExpireStaleLeases, PurgeForIssue, ReadInbox, RetirePendingBriefs
<1>4. ASSUME NEW q \in Rows, NEW s \in {"checkpoint", "uncertain"},
             MarkDelivered(q) \/ HoldAs(q, s)
      PROVE  Active(r)
  BY <1>4 DEF MarkDelivered, HoldAs, HoldFrom
<1>5. ASSUME ExpirePending PROVE Active(r) \/ msg'[r] = Notice
  BY <1>5 DEF ExpirePending
<1>6. ASSUME NEW tokens \in SUBSET Rows, Acknowledge(tokens) PROVE Active(r)
  BY <1>6 DEF Acknowledge
<1>7. ASSUME NEW gone, NEW begun, Revoke(gone, begun) PROVE Active(r)
  BY <1>7 DEF Revoke
<1>8. ASSUME Reregister \/ SetInboxOnly \/ Tick \/ UNCHANGED qvars PROVE Active(r)
  BY <1>8 DEF Reregister, SetInboxOnly, Tick, qvars
<1>9. {"pending", "checkpoint", "uncertain"} \subseteq Status
  BY DEF Status
<1> QED
  BY <1>1, <1>2, <1>3, <1>4, <1>5, <1>6, <1>7, <1>8, <1>9 DEF QNext, QStep

\* No message ever has two rows waiting: the inbox and a drain never each hold a
\* copy, whatever order sends, leases, holds, releases and sweeps come in.
THEOREM QueueOneActiveRow == MCSpec => []OneActiveRow
<1>1. MCInit => OneActiveRow
  BY DEF MCInit, QInit, OneActiveRow, Active, ActiveStatus
<1>2. TypeOK /\ OneActiveRow /\ [MCNext]_mcvars => OneActiveRow'
  <2> SUFFICES ASSUME TypeOK, OneActiveRow, [MCNext]_mcvars,
                      NEW q \in Rows, NEW r \in Rows,
                      Active(q)', Active(r)', msg'[q] = msg'[r], msg'[q] # Notice
               PROVE  q = r
    BY DEF OneActiveRow
  <2>1. QTypeOK /\ [QNext]_qvars
    BY StepOfTable DEF TypeOK
  <2>2. CASE \E m \in Messages, s \in Status : EnqueueNew(m, s)
    <3>1. PICK m \in Messages, s \in Status : EnqueueNew(m, s)
      BY <2>2
    <3>2. PICK n \in Rows : NextRow(n) /\ Insert(n, m, s)
      BY <3>1 DEF EnqueueNew
    <3>3. \A p \in Rows \ {n} : (Active(p)' <=> Active(p)) /\ msg'[p] = msg[p]
      BY <3>2, <2>1 DEF Insert, Active, QTypeOK
    <3>4. msg'[n] = m /\ \A p \in Rows : Active(p) => msg[p] # m
      BY <3>1, <3>2, <2>1 DEF Insert, EnqueueNew, QTypeOK
    <3> QED
      BY <3>3, <3>4 DEF OneActiveRow
  <2>3. CASE \A m \in Messages, s \in Status : ~ EnqueueNew(m, s)
    <3>1. Active(q) /\ Active(r)
      BY <2>1, <2>3, ActiveKept
    <3>2. msg'[q] = msg[q] /\ msg'[r] = msg[r]
      BY <2>1, <3>1, RowsKept DEF RowKept, Active, ActiveStatus
    <3> QED
      BY <3>1, <3>2 DEF OneActiveRow
  <2> QED
    BY <2>2, <2>3
<1> QED
  BY <1>1, <1>2, QueueTypeOK, PTL DEF MCSpec

-----------------------------------------------------------------------------
\* What the inbox was shown, an unconfirmed paste and a finished row never go back
\* to terminal delivery, by any late release, sweep or repeated send.
THEOREM QueueNeverBackToDelivery == MCSpec => NeverBackToDelivery
<1>1. TypeOK /\ [MCNext]_mcvars =>
        [\A r \in Rows : status[r] \in {"checkpoint", "uncertain", "delivered", "expired"}
             => status'[r] \notin {"pending", "in_progress"}]_mcvars
  BY StepOfTable, SettledKept DEF TypeOK, Settled, Finished
<1> QED
  BY <1>1, QueueTypeOK, PTL DEF MCSpec, NeverBackToDelivery

\* An unconfirmed paste keeps its hold until it is acknowledged, retired or purged.
THEOREM QueueUncertainOnlyResolved == MCSpec => UncertainOnlyResolved
<1>1. TypeOK /\ [MCNext]_mcvars =>
        [\A r \in Rows : status[r] = "uncertain"
             => status'[r] \in {"uncertain", "delivered", "expired"}]_mcvars
  BY StepOfTable, UncertainKept DEF TypeOK
<1> QED
  BY <1>1, QueueTypeOK, PTL DEF MCSpec, UncertainOnlyResolved

-----------------------------------------------------------------------------
\* The receipt the sweep looks at is never older than the last resolution of an
\* unconfirmed direct message: the conjunct that makes the window inductive.
GraceCovers == grace <= sinceHold

\* The receipts the sweep reads are no older than the resolution of the last
\* unconfirmed direct message.
LEMMA GraceKept == TypeOK /\ GraceCovers /\ [MCNext]_mcvars => GraceCovers'
<1> SUFFICES ASSUME TypeOK, GraceCovers, [MCNext]_mcvars PROVE GraceCovers'
  OBVIOUS
<1>1. grace \in Nat /\ sinceHold \in Nat /\ grace <= sinceHold
      /\ grace \in 0 .. Window + 1 /\ sinceHold \in 0 .. Window + 1 /\ Window \in Nat
  BY QueueAssumption DEF TypeOK, QTypeOK, GraceCovers
<1>2. CASE Tick /\ sinceHold' = Older(sinceHold, Window)
  BY <1>1, <1>2 DEF Tick, Older, GraceCovers
<1>3. CASE UNCHANGED mcvars
  BY <1>1, <1>3 DEF mcvars, GraceCovers
<1>4. CASE QStep /\ sinceHold' = IF Resolving THEN 0 ELSE sinceHold
  <2>1. CASE grace' = 0
    BY <1>1, <1>4, <2>1 DEF GraceCovers
  <2>2. CASE grace' = grace /\ ~Resolving
    BY <1>1, <1>4, <2>2 DEF GraceCovers
  <2>3. grace' = 0 \/ (grace' = grace /\ ~Resolving)
    <3>0. QTypeOK
      BY DEF TypeOK
    <3> USE DEF Resolving, UncertainDirect
    <3>1. ASSUME NEW m \in Messages, NEW s \in {"pending", "checkpoint", "uncertain"},
                 EnqueueNew(m, s) \/ EnqueueAgain(m, s)
          PROVE  grace' = grace /\ ~Resolving
      BY <3>0, <3>1 DEF QTypeOK, EnqueueNew, Insert, NextRow, EnqueueAgain, Upgraded
    <3>2. ASSUME NEW batch \in SUBSET Rows, Dequeue(batch) \/ Release(batch)
          PROVE  grace' = grace /\ ~Resolving
      BY <3>0, <3>2 DEF QTypeOK, Dequeue, Release
    <3>3. ASSUME ExpireStaleLeases \/ PurgeForIssue \/ ReadInbox
          PROVE  grace' = grace /\ ~Resolving
      BY <3>0, <3>3 DEF QTypeOK, ExpireStaleLeases, PurgeForIssue, ReadInbox, DirectKind
    <3>4. ASSUME NEW q \in Rows, NEW s \in {"checkpoint", "uncertain"},
                 MarkDelivered(q) \/ HoldAs(q, s)
          PROVE  grace' = grace /\ ~Resolving
      BY <3>0, <3>4 DEF QTypeOK, MarkDelivered, HoldAs, HoldFrom
    <3>5. ASSUME ExpirePending PROVE grace' = grace /\ ~Resolving
      BY <3>0, <3>5 DEF QTypeOK, ExpirePending, NextRow, Expiring
    <3>6. ASSUME NEW tokens \in SUBSET Rows, Acknowledge(tokens)
          PROVE  grace' = 0 \/ (grace' = grace /\ ~Resolving)
      BY <3>0, <3>6 DEF QTypeOK, Acknowledge, Resolve
    <3>7. ASSUME RetirePendingBriefs
          PROVE  grace' = 0 \/ (grace' = grace /\ ~Resolving)
      BY <3>0, <3>7 DEF QTypeOK, RetirePendingBriefs, Resolve, Active, ActiveStatus
    <3>8. ASSUME NEW gone, NEW begun, Revoke(gone, begun)
          PROVE  grace' = grace /\ ~Resolving
      BY <3>0, <3>8 DEF QTypeOK, Revoke
    <3>9. ASSUME Reregister PROVE grace' = grace /\ ~Resolving
      BY <3>0, <3>9 DEF QTypeOK, Reregister
    <3>10. ASSUME SetInboxOnly PROVE grace' = grace /\ ~Resolving
      BY <3>10 DEF SetInboxOnly
    <3> QED
      BY <1>4, <3>1, <3>2, <3>3, <3>4, <3>5, <3>6, <3>7, <3>8, <3>9, <3>10 DEF QStep
  <2> QED
    BY <2>1, <2>2, <2>3
<1> QED
  BY <1>2, <1>3, <1>4 DEF MCNext

\* Nothing expires while a paste is unconfirmed or within a window of its
\* resolution, however long the messages behind it had waited.
THEOREM QueueFullWindowAfterHold == MCSpec => FullWindowAfterHold
<1>1. MCInit => GraceCovers
  BY QueueAssumption DEF MCInit, QInit, GraceCovers
<1>2. TypeOK /\ GraceCovers /\ [MCNext]_mcvars =>
        [ExpirePending /\ ~inboxOnly => ~HasUncertain /\ sinceHold > Window]_mcvars
  <2> SUFFICES ASSUME TypeOK, GraceCovers, ExpirePending, ~inboxOnly
               PROVE  ~HasUncertain /\ sinceHold > Window
    OBVIOUS
  <2>1. ~HasUncertain /\ grace > Window
    BY DEF ExpirePending, Expiring
  <2>2. grace \in Nat /\ sinceHold \in Nat /\ Window \in Nat /\ grace <= sinceHold
    BY QueueAssumption DEF TypeOK, QTypeOK, GraceCovers
  <2> QED
    BY <2>1, <2>2
<1> QED
  BY <1>1, <1>2, GraceKept, QueueTypeOK, PTL DEF MCSpec, FullWindowAfterHold

-----------------------------------------------------------------------------
\* Which transactions expire a row, and of which messages.
ExpiredBy(r) ==
    \/ ExpirePending /\ msg[r] \notin DirectKind
    \/ registration' # registration
    \/ RetirePendingBriefs /\ msg[r] \in Briefs
    \/ msg[r] \in Confirmed /\ \E gone, begun \in SUBSET Confirmed : Revoke(gone, begun)

\* A row expires only by the sweep, a launch, a key reset or the end of its
\* registration, each for its own kind of message.
LEMMA WhatExpires ==
    ASSUME QTypeOK, QStep, NEW r \in Rows, status[r] # "expired", status'[r] = "expired"
    PROVE  ExpiredBy(r)
<1> USE DEF QTypeOK
<1>1. ASSUME NEW m \in Messages, NEW s \in {"pending", "checkpoint", "uncertain"},
             EnqueueNew(m, s) \/ EnqueueAgain(m, s)
      PROVE  FALSE
  BY <1>1 DEF EnqueueNew, Insert, EnqueueAgain, Upgraded
<1>2. ASSUME NEW batch \in SUBSET Rows, Dequeue(batch) \/ Release(batch) PROVE FALSE
  BY <1>2 DEF Dequeue, Release
<1>3. ASSUME ExpireStaleLeases \/ PurgeForIssue \/ ReadInbox \/ SetInboxOnly PROVE FALSE
  BY <1>3 DEF ExpireStaleLeases, PurgeForIssue, ReadInbox, SetInboxOnly
<1>4. ASSUME NEW q \in Rows, NEW s \in {"checkpoint", "uncertain"},
             MarkDelivered(q) \/ HoldAs(q, s)
      PROVE  FALSE
  BY <1>4 DEF MarkDelivered, HoldAs
<1>5. ASSUME NEW tokens \in SUBSET Rows, Acknowledge(tokens) PROVE FALSE
  BY <1>5 DEF Acknowledge
<1>6. CASE ExpirePending
  BY <1>6 DEF ExpirePending, Expiring, ExpiredBy
<1>7. CASE RetirePendingBriefs
  BY <1>7 DEF RetirePendingBriefs, ExpiredBy
<1>8. ASSUME NEW gone \in SUBSET Confirmed, NEW begun \in SUBSET Confirmed, Revoke(gone, begun)
      PROVE  ExpiredBy(r)
  BY <1>8 DEF Revoke, ExpiredBy
<1>9. CASE Reregister
  BY <1>9, QueueAssumption DEF Reregister, ExpiredBy
<1> QED
  BY <1>1, <1>2, <1>3, <1>4, <1>5, <1>6, <1>7, <1>8, <1>9 DEF QStep

\* A direct message never expires by age, for an inbox-only agent or any other.
THEOREM QueueDirectNeverExpires == MCSpec => DirectNeverExpires
<1>1. TypeOK /\ [MCNext]_mcvars =>
        [\A r \in Rows : Active(r) /\ msg[r] \in DirectKind /\ status'[r] = "expired"
          => \/ registration' # registration
             \/ msg[r] \in Briefs /\ RetirePendingBriefs
             \/ msg[r] \in Confirmed /\ \E gone, begun \in SUBSET Confirmed : Revoke(gone, begun)]_mcvars
  <2> SUFFICES ASSUME TypeOK, MCNext, NEW r \in Rows, Active(r), msg[r] \in DirectKind,
                      status'[r] = "expired"
               PROVE  \/ registration' # registration
                      \/ msg[r] \in Briefs /\ RetirePendingBriefs
                      \/ msg[r] \in Confirmed
                         /\ \E gone, begun \in SUBSET Confirmed : Revoke(gone, begun)
    OBVIOUS
  <2>1. QTypeOK /\ status[r] # "expired"
    BY DEF TypeOK, Active, ActiveStatus
  <2>2. ~Tick
    BY <2>1 DEF Tick
  <2>3. ExpiredBy(r)
    BY <2>1, <2>2, WhatExpires DEF MCNext
  <2> QED
    BY <2>3 DEF ExpiredBy
<1> QED
  BY <1>1, QueueTypeOK, PTL DEF MCSpec, DirectNeverExpires

\* An expiry commits with its notice: one that nobody has taken yet waits.
THEOREM QueueExpiryLeavesNotice == MCSpec => ExpiryLeavesNotice
<1>1. TypeOK /\ [MCNext]_mcvars =>
        [(\E r \in Rows : msg[r] \in Comments /\ status[r] # "expired" /\ status'[r] = "expired")
          => registration' # registration
             \/ \E n \in Rows : msg'[n] = Notice /\ status'[n] = "pending"]_mcvars
  <2> SUFFICES ASSUME TypeOK, MCNext, NEW r \in Rows, msg[r] \in Comments,
                      status[r] # "expired", status'[r] = "expired",
                      registration' = registration
               PROVE  \E n \in Rows : msg'[n] = Notice /\ status'[n] = "pending"
    OBVIOUS
  <2>1. QTypeOK
    BY DEF TypeOK
  <2>2. ~Tick
    BY DEF Tick
  <2>3. ExpirePending
    BY <2>1, <2>2, WhatExpires, QueueAssumption DEF MCNext, ExpiredBy
  <2>4. CASE NoticeWaits
    <3>1. PICK n \in Rows : msg[n] = Notice /\ status[n] = "pending"
      BY <2>4 DEF NoticeWaits
    <3>2. msg' = msg /\ status' = [q \in Rows |-> IF Expiring(q) THEN "expired" ELSE status[q]]
      BY <2>3, <2>4 DEF ExpirePending
    <3>3. ~Expiring(n)
      BY <3>1, QueueAssumption DEF Expiring, DirectKind
    <3> QED
      BY <3>1, <3>2, <3>3
  <2>5. CASE ~NoticeWaits
    BY <2>1, <2>3, <2>5 DEF ExpirePending, QTypeOK
  <2> QED
    BY <2>4, <2>5
<1> QED
  BY <1>1, QueueTypeOK, PTL DEF MCSpec, ExpiryLeavesNotice
=============================================================================

------------------------- MODULE SafeDeliveryProofs -------------------------
(***************************************************************************)
(* The safety of delivery for any number of senders, rows, messages,       *)
(* launches and crashes.  The inductive invariant is IInv: who is inside   *)
(* holds the session lock, and what a delivery checked under the lock is   *)
(* still true when it pastes, because whoever could change it needs the    *)
(* same lock.  On it rest the contract: an owner-confirmed message is      *)
(* pasted at most once; a direct message leaves the queue only because it  *)
(* reached the agent or lost its authority, and is pasted twice only when  *)
(* its first delivery was cut off.                                         *)
(***************************************************************************)
EXTENDS DeliveryContract, MessageQueueProofs

\* Places of a drain that is busy with the row cur, and of one that has found
\* it in order.
WithRow == (Unchecked \ {"held"}) \cup Passed \cup {"lock", "mark"}
Checked == {"guard", "confirm", "leased"} \cup Passed
Gated == {"attempt", "paste"}

\* Each process is only where its own code takes it.
PlacesOK ==
    /\ \A p \in Senders : /\ pc[p] \in {"idle", "lock", "held", "ready", "gate", "paste", "finish"}
                          /\ pc[p] # "idle" => sending[p] \in Direct \cup Comments
    /\ pc[Launcher] \in {"idle", "brief", "session"}
    /\ pc[Drain] \in WithRow \cup {"idle", "next", "release"}

\* A drain works on rows it leased, which exist.
BatchOK ==
    /\ todo \subseteq mine
    /\ \A r \in mine : status[r] # "absent"
    /\ pc[Drain] \in WithRow => cur \in mine
    /\ pc[Drain] \in {"guard", "confirm", "attempt"} => msg[cur] \in Confirmed
    /\ pc[Drain] = "leased" => msg[cur] \notin Confirmed

\* Who is inside holds the session lock.
LockHeld == \A p \in Procs : pc[p] \in Inside => lock = p

\* An agent being launched is no inbox-only client.
LaunchOK == pc[Launcher] # "idle" => ~inboxOnly

\* What the inbox showed is out of terminal delivery; what is about to be pasted
\* was not shown.
ShownOK ==
    /\ \A r \in shown : status[r] \in Settled
    /\ pc[Drain] \in Passed \ {"finish"} => cur \notin shown

\* The registration a drain compared is still the current one.
OwnerOK == pc[Drain] \in Checked => owner[cur] = registration

\* Between the check and the paste nothing is unconfirmed but what a reset held.
UncertainOK ==
    \A p \in Deliverers : pc[p] \in Gated =>
        \A r \in Rows : status[r] = "uncertain" =>
            msg[r] \in Confirmed /\ signing[msg[r]] = "revoked"

\* An active brief, and the one being pasted, is the latest launch's.
BriefOK ==
    /\ \A r \in Rows : Active(r) /\ msg[r] \in Briefs => briefOf[r] = launches
    /\ pc[Drain] \in Passed /\ msg[cur] \in Briefs => briefOf[cur] = launches
    /\ \A p \in Deliverers : pc[p] \in Gated /\ Text(p) \notin Briefs =>
          \A r \in Rows : Active(r) => msg[r] \notin Briefs

\* A confirmation being delivered holds the revocation guard; a waiting one has
\* its authority.
AuthorityOK ==
    /\ pc[Drain] \in Passed \cup {"confirm"} /\ msg[cur] \in Confirmed => guard = Drain
    /\ \A r \in Rows : status[r] \in Open /\ msg[r] \in Confirmed => signing[msg[r]] = "admitted"
    /\ pc[Drain] \in Passed /\ msg[cur] \in Confirmed => signing[msg[cur]] = "admitted"

IInv ==
    /\ TypeOK /\ PlacesOK /\ BatchOK /\ LockHeld /\ LaunchOK
    /\ ShownOK /\ OwnerOK /\ UncertainOK /\ BriefOK /\ AuthorityOK

-----------------------------------------------------------------------------
(***************************************************************************)
(* Every step of the system is a transaction of the table, or none.        *)
(***************************************************************************)
LEMMA StoredStatus ==
    \A result \in {"unsure", "failed", "refused"} :
        StoredAs(result) \in {"pending", "checkpoint", "uncertain"}
  BY DEF StoredAs

\* Storing a message of a request, a launch or an admission is a transaction of
\* the table.
LEMMA EnqueueIsTransaction ==
    ASSUME NEW m \in Messages \ {Notice}, NEW s \in {"pending", "checkpoint", "uncertain"},
           m \in Briefs => ~inboxOnly, Enqueue(m, s)
    PROVE  QNext
  BY Zenon DEF Enqueue, QNext, QStep

\* A request under way sends a direct message or a notice about an issue.
LEMMA SentIsMessage ==
    ASSUME PlacesOK, NEW p \in Senders, pc[p] # "idle"
    PROVE  sending[p] \in Messages \ {Notice} /\ sending[p] \notin Briefs
  BY QueueAssumption DEF PlacesOK, Direct

\* A delivery put off before its paste stores the message or leaves the table.
LEMMA DeferIsTransaction ==
    ASSUME PlacesOK, NEW p \in Deliverers, pc[p] # "idle", Defer(p)
    PROVE  QNext \/ UNCHANGED qvars
<1>1. CASE p = Drain
  BY <1>1 DEF Defer
<1>2. CASE p # Drain
  BY <1>2, SentIsMessage, EnqueueIsTransaction DEF Defer, Deliverers
<1> QED
  BY <1>1, <1>2

\* The system changes the table through its transactions only.
LEMMA Transaction == TypeOK /\ PlacesOK /\ BatchOK /\ LaunchOK /\ [Next]_vars => [QNext]_qvars
<1> SUFFICES ASSUME TypeOK, PlacesOK, BatchOK, LaunchOK, [Next]_vars
             PROVE  QNext \/ UNCHANGED qvars
  OBVIOUS
<1>0. pc[Drain] \in WithRow => cur \in Rows
  BY DEF BatchOK, TypeOK
<1>1. ASSUME NEW p \in Senders, NEW m, Send(p, m) PROVE UNCHANGED qvars
  BY <1>1 DEF Send
<1>2. ASSUME NEW p, Acquire(p) \/ CheckHeld(p) \/ Paste(p) PROVE UNCHANGED qvars
  BY <1>2 DEF Acquire, CheckHeld, Paste
<1>3. ASSUME NEW p \in Deliverers, CheckReady(p) \/ CheckGate(p)
      PROVE  QNext \/ UNCHANGED qvars
  <2>1. pc[p] # "idle"
    BY <1>3 DEF CheckReady, CheckGate
  <2>2. Defer(p) \/ UNCHANGED qvars
    BY <1>3 DEF CheckReady, CheckGate
  <2> QED
    BY <2>1, <2>2, DeferIsTransaction
<1>4. ASSUME NEW p \in Senders, FinishSend(p) PROVE QNext \/ UNCHANGED qvars
  <2>1. pc[p] # "idle"
    BY <1>4 DEF FinishSend
  <2>2. \/ UNCHANGED qvars
        \/ out[p] \in {"unsure", "failed", "refused"} /\ Enqueue(sending[p], StoredAs(out[p]))
    BY <1>4 DEF FinishSend
  <2> QED
    BY <2>1, <2>2, SentIsMessage, StoredStatus, EnqueueIsTransaction
<1>5. CASE StartDrain
  BY <1>5 DEF StartDrain, QNext, QStep
<1>6. CASE CheckRegistration \/ MarkOutcome
  <2>1. UNCHANGED qvars \/ MarkDelivered(cur)
    BY <1>6 DEF CheckRegistration, MarkOutcome
  <2>2. cur \in Rows
    BY <1>0, <1>6 DEF CheckRegistration, MarkOutcome, WithRow, Unchecked
  <2> QED
    BY <2>1, <2>2 DEF QNext, QStep
<1>7. CASE CheckLease \/ TakeGuard \/ RecordAttempt \/ BatchDone
  BY <1>7 DEF CheckLease, TakeGuard, RecordAttempt, BatchDone
<1>8. CASE CheckConfirmed \/ FinishDrain
  <2>1. UNCHANGED qvars \/ HoldAs(cur, "uncertain") \/ HoldAs(cur, "checkpoint")
    BY <1>8 DEF CheckConfirmed, FinishDrain
  <2>2. cur \in Rows
    BY <1>0, <1>8 DEF CheckConfirmed, FinishDrain, WithRow, Unchecked, Passed
  <2> QED
    BY <2>1, <2>2 DEF QNext, QStep
<1>9. ASSUME NEW r \in Rows, TakeNext(r) PROVE QNext \/ UNCHANGED qvars
  <2>1. UNCHANGED qvars \/ MarkDelivered(r)
    BY <1>9 DEF TakeNext
  <2> QED
    BY <2>1 DEF QNext, QStep
<1>10. CASE ReleaseBatch
  <2>1. Release(mine) /\ mine \in SUBSET Rows
    BY <1>10 DEF ReleaseBatch, TypeOK
  <2> QED
    BY <2>1 DEF QNext, QStep
<1>11. CASE SweepLeases \/ SweepExpired \/ IssueClosed \/ Inbox
  BY <1>11 DEF SweepLeases, SweepExpired, IssueClosed, Inbox, QNext, QStep
<1>12. CASE AckInbox
  <2>1. PICK tokens \in SUBSET shown : Acknowledge(tokens)
    BY <1>12 DEF AckInbox
  <2>2. tokens \in SUBSET Rows
    BY DEF TypeOK
  <2> QED
    BY <2>1, <2>2 DEF QNext, QStep
<1>13. ASSUME NEW m \in Confirmed, Admit(m) PROVE QNext
  <2>1. EnqueueNew(m, "pending") /\ m \in Messages \ {Notice} /\ m \notin Briefs
    BY <1>13, QueueAssumption DEF Admit
  <2> QED
    BY <2>1, EnqueueIsTransaction DEF Enqueue
<1>14. CASE KeyReset
  <2>1. Revoke(Gone, attempted) /\ Gone \in SUBSET Confirmed /\ attempted \in SUBSET Confirmed
    BY <1>14 DEF KeyReset, Gone, Ending, TypeOK
  <2> QED
    BY <2>1 DEF QNext, QStep
<1>15. CASE LaunchBegin
  BY <1>15 DEF LaunchBegin, QNext, QStep
<1>16. CASE LaunchBrief
  <2>1. ~inboxOnly
    BY <1>16 DEF LaunchOK, LaunchBrief
  <2>2. UNCHANGED qvars \/ \E b \in Briefs : EnqueueNew(b, "pending")
    BY <1>16 DEF LaunchBrief
  <2>3. Briefs \subseteq Messages \ {Notice}
    BY QueueAssumption
  <2> QED
    BY <2>1, <2>2, <2>3, EnqueueIsTransaction DEF Enqueue
<1>17. CASE LaunchSession \/ AgentMoves \/ Crash \/ UNCHANGED vars
  BY <1>17 DEF LaunchSession, AgentMoves, Crash, vars
<1>18. CASE Forget \/ ChangeClient
  BY <1>18 DEF Forget, ChangeClient, QNext, QStep
<1>19. CASE TimePasses
  BY <1>19 DEF TimePasses, QNext
<1> QED
  BY <1>1, <1>2, <1>3, <1>4, <1>5, <1>6, <1>7, <1>8, <1>9, <1>10, <1>11, <1>12, <1>13,
     <1>14, <1>15, <1>16, <1>17, <1>18, <1>19
     DEF Next, SenderStep, DrainStep, DeliverStep, LauncherStep, Deliverers

\* What the steps change of the queue's rows, for every step of the system.
LEMMA TableKept ==
    ASSUME TypeOK, PlacesOK, BatchOK, LaunchOK, [Next]_vars
    PROVE  /\ QTypeOK'
           /\ \A r \in Rows : RowKept(r)
           /\ \A r \in Rows : status[r] \in Settled => status'[r] \in Settled
           /\ \A r \in Rows : status[r] \in Finished => status'[r] = status[r]
           /\ \A r \in Rows : status[r] # "absent" /\ status'[r] \in Open => status[r] \in Open
           /\ \A r \in Rows : status[r] # "absent" /\ Active(r)' => Active(r)
<1>1. /\ QTypeOK /\ QTypeOK'
      /\ \A r \in Rows : RowKept(r)
      /\ \A r \in Rows : status[r] \in Settled => status'[r] \in Settled
      /\ \A r \in Rows : status[r] \in Finished => status'[r] = status[r]
  BY Transaction, QTypeKept, RowsKept, SettledKept, FinishedKept DEF TypeOK
<1>2. \A r \in Rows : status[r] \in {"absent"} \cup Open \cup Settled
  BY <1>1 DEF QTypeOK, Status, ActiveStatus, Open, Settled, Finished
<1>3. Open \cap Settled = {} /\ Finished \cap ActiveStatus = {} /\ Status = {"absent"} \cup ActiveStatus \cup Finished
  BY DEF Open, Settled, Finished, ActiveStatus, Status
<1>4. \A r \in Rows : status[r] \in Status
  BY <1>1 DEF QTypeOK
<1> QED
  BY <1>1, <1>2, <1>3, <1>4 DEF Active

-----------------------------------------------------------------------------
(***************************************************************************)
(* Types                                                                   *)
(***************************************************************************)
\* The part of TypeOK that is not the table's.
RestOK ==
    /\ pc \in [Procs -> Places]
    /\ sending \in [Senders -> Messages]
    /\ todo \subseteq Rows /\ mine \subseteq Rows
    /\ cur \in Rows \cup {0}
    /\ out \in [Deliverers -> Outcome]
    /\ lock \in Procs \cup {NoProc} /\ guard \in {Drain, NoProc}
    /\ signing \in [Confirmed -> {"none", "admitted", "revoked"}]
    /\ attempted \subseteq Confirmed /\ recorded \subseteq Confirmed
    /\ agent \in {"offline", "busy", "ready"}
    /\ sends \in Nat /\ launches \in Nat /\ crashes \in Nat
    /\ got \in [Rows -> 0 .. 2]
    /\ shown \subseteq Rows /\ cutOff \subseteq Rows
    /\ briefOf \in [Rows -> Nat]

\* The end of safe_deliver keeps the types.
LEMMA ReturnTyped ==
    ASSUME RestOK, NEW p \in Deliverers, NEW result \in Outcome, Return(p, result)
    PROVE  /\ pc' \in [Procs -> Places]
           /\ out' \in [Deliverers -> Outcome]
           /\ lock' \in Procs \cup {NoProc} /\ guard' \in {Drain, NoProc}
  BY DEF RestOK, Return, Goto, Places, Outcome

\* Every step keeps the types of the processes, locks, receipts and history.
LEMMA RestKept == TypeOK /\ PlacesOK /\ BatchOK /\ [Next]_vars => RestOK'
<1> SUFFICES ASSUME TypeOK, PlacesOK, BatchOK, [Next]_vars PROVE RestOK'
  OBVIOUS
<1>0. RestOK /\ QTypeOK
  BY DEF TypeOK, RestOK
<1>a. Places = Unchecked \cup Passed \cup {"brief", "session", "idle", "lock", "next", "mark", "release"}
  BY DEF Places, Inside
<1>b. /\ {"none", "sent", "unsure", "failed", "refused", "error", "blocked", "already", "awaiting"} = Outcome
      /\ {"held", "registration", "guard", "confirm", "leased", "ready", "gate", "attempt",
          "paste", "finish"} \subseteq Places
  BY <1>a DEF Outcome, Unchecked, Passed
<1>c. Drain \in Deliverers /\ Deliverers \subseteq Procs /\ Senders \subseteq Deliverers
      /\ Launcher \in Procs
  BY DEF Deliverers, Procs
<1> USE <1>0, <1>a, <1>b, <1>c
<1> USE DEF RestOK, Goto, memory, keys, counters, history
<1>1. ASSUME NEW p \in Senders, NEW m \in Direct \cup Comments, Send(p, m) PROVE RestOK'
  <2>1. m \in Messages
    BY QueueAssumption DEF Direct
  <2> QED
    BY <1>1, <2>1 DEF Send
<1>2. ASSUME NEW p \in Deliverers, Acquire(p) PROVE RestOK'
  BY <1>2 DEF Acquire
<1>3. ASSUME NEW p \in Deliverers, CheckHeld(p) PROVE RestOK'
  BY <1>3, ReturnTyped DEF CheckHeld
<1>4. ASSUME NEW p \in Deliverers, CheckReady(p) PROVE RestOK'
  BY <1>4, ReturnTyped DEF CheckReady, Defer
<1>5. ASSUME NEW p \in Deliverers, CheckGate(p) PROVE RestOK'
  BY <1>5, ReturnTyped DEF CheckGate, Defer
<1>6. ASSUME NEW p \in Deliverers, Paste(p) PROVE RestOK'
  BY <1>6 DEF Paste, Older
<1>7. ASSUME NEW p \in Senders, FinishSend(p) PROVE RestOK'
  BY <1>7, ReturnTyped DEF FinishSend
<1>8. CASE StartDrain
  BY <1>8 DEF StartDrain
<1>9. CASE CheckRegistration
  BY <1>9, ReturnTyped DEF CheckRegistration
<1>10. CASE CheckLease
  BY <1>10, ReturnTyped DEF CheckLease
<1>11. CASE TakeGuard \/ BatchDone \/ ReleaseBatch
  BY <1>11 DEF TakeGuard, BatchDone, ReleaseBatch
<1>12. CASE CheckConfirmed
  BY <1>12, ReturnTyped DEF CheckConfirmed
<1>13. CASE RecordAttempt
  <2>1. msg[cur] \in Confirmed
    BY <1>13 DEF RecordAttempt, BatchOK
  <2> QED
    BY <1>13, <2>1 DEF RecordAttempt
<1>14. CASE FinishDrain
  BY <1>14, ReturnTyped DEF FinishDrain
<1>15. ASSUME NEW r \in Rows, TakeNext(r) PROVE RestOK'
  BY <1>15 DEF TakeNext
<1>16. CASE MarkOutcome
  BY <1>16 DEF MarkOutcome
<1>d. Landed \subseteq Rows /\ InFlight \subseteq Rows
  BY DEF Landed, InFlight, BatchOK, WithRow, Passed
<1>17. CASE SweepLeases \/ SweepExpired \/ IssueClosed
  BY <1>17, <1>d DEF SweepLeases, SweepExpired, IssueClosed
<1>18. CASE AckInbox \/ Inbox
  BY <1>18 DEF AckInbox, Inbox, InboxRows
<1>19. ASSUME NEW m \in Confirmed, Admit(m) PROVE RestOK'
  BY <1>19 DEF Admit
<1>20. CASE KeyReset
  BY <1>20 DEF KeyReset
<1>21. CASE LaunchBegin
  BY <1>21 DEF LaunchBegin
<1>22. CASE LaunchBrief
  BY <1>22 DEF LaunchBrief
<1>23. CASE LaunchSession \/ AgentMoves \/ Forget \/ ChangeClient \/ TimePasses
  BY <1>23 DEF LaunchSession, AgentMoves, Forget, ChangeClient, TimePasses
<1>24. CASE Crash
  BY <1>24, <1>d DEF Crash
<1>25. CASE UNCHANGED vars
  BY <1>25 DEF vars
<1> QED
  BY <1>1, <1>2, <1>3, <1>4, <1>5, <1>6, <1>7, <1>8, <1>9, <1>10, <1>11, <1>12, <1>13,
     <1>14, <1>15, <1>16, <1>17, <1>18, <1>19, <1>20, <1>21, <1>22, <1>23, <1>24, <1>25
     DEF Next, SenderStep, DrainStep, DeliverStep, LauncherStep

-----------------------------------------------------------------------------
(***************************************************************************)
(* Control: where each process is, the lock, the batch                     *)
(***************************************************************************)
\* The processes are different from each other.
LEMMA Distinct ==
    /\ Drain \notin Senders /\ Launcher \notin Senders /\ Drain # Launcher
    /\ NoProc \notin Procs
    /\ Drain \in Procs /\ Launcher \in Procs /\ Senders \subseteq Procs
    /\ Drain \in Deliverers /\ Senders \subseteq Deliverers /\ Deliverers \subseteq Procs
  BY DeliveryAssumption DEF Deliverers, Procs

\* A request, the drain and the launch go only where their code takes them.
LEMMA PlacesKept == TypeOK /\ PlacesOK /\ [Next]_vars => PlacesOK'
<1> SUFFICES ASSUME TypeOK, PlacesOK, [Next]_vars PROVE PlacesOK'
  OBVIOUS
<1>0. RestOK
  BY DEF TypeOK, RestOK
<1>a. WithRow \cup {"idle", "next", "release"} =
        {"registration", "guard", "confirm", "leased", "ready", "gate", "attempt", "paste",
         "finish", "lock", "mark", "idle", "next", "release"}
  BY DEF WithRow, Unchecked, Passed
<1> USE Distinct, <1>0, <1>a
<1> USE DEF RestOK, PlacesOK, Goto, Return, memory, Deliverers
<1>1. ASSUME NEW p \in Senders, NEW m \in Direct \cup Comments, Send(p, m) PROVE PlacesOK'
  BY <1>1 DEF Send
<1>2. ASSUME NEW p \in Deliverers, Acquire(p) PROVE PlacesOK'
  BY <1>2 DEF Acquire
<1>3. ASSUME NEW p \in Senders, CheckHeld(p) \/ FinishSend(p) PROVE PlacesOK'
  BY <1>3 DEF CheckHeld, FinishSend
<1>4. ASSUME NEW p \in Deliverers, CheckReady(p) PROVE PlacesOK'
  BY <1>4 DEF CheckReady, Defer
<1>5. ASSUME NEW p \in Deliverers, CheckGate(p) PROVE PlacesOK'
  BY <1>5 DEF CheckGate, Defer
<1>6. ASSUME NEW p \in Deliverers, Paste(p) PROVE PlacesOK'
  BY <1>6 DEF Paste
<1>7. CASE StartDrain \/ TakeGuard \/ BatchDone \/ ReleaseBatch \/ RecordAttempt \/ MarkOutcome
  BY <1>7 DEF StartDrain, TakeGuard, BatchDone, ReleaseBatch, RecordAttempt, MarkOutcome
<1>8. CASE CheckRegistration \/ CheckLease
  BY <1>8 DEF CheckRegistration, CheckLease
<1>9. CASE CheckConfirmed \/ FinishDrain
  BY <1>9 DEF CheckConfirmed, FinishDrain
<1>10. ASSUME NEW r \in Rows, TakeNext(r) PROVE PlacesOK'
  BY <1>10 DEF TakeNext
<1>11. ASSUME \/ SweepLeases \/ SweepExpired \/ IssueClosed \/ Inbox \/ AckInbox \/ KeyReset
              \/ \E m \in Confirmed : Admit(m)
              \/ AgentMoves \/ Forget \/ ChangeClient \/ TimePasses
       PROVE  PlacesOK'
  BY <1>11 DEF SweepLeases, SweepExpired, IssueClosed, Inbox, AckInbox, KeyReset, Admit,
               AgentMoves, Forget, ChangeClient, TimePasses
<1>12. CASE LaunchBegin \/ LaunchBrief \/ LaunchSession
  BY <1>12 DEF LaunchBegin, LaunchBrief, LaunchSession
<1>13. CASE Crash
  BY <1>13 DEF Crash
<1>14. CASE UNCHANGED vars
  BY <1>14 DEF vars
<1> QED
  BY <1>1, <1>2, <1>3, <1>4, <1>5, <1>6, <1>7, <1>8, <1>9, <1>10, <1>11, <1>12, <1>13, <1>14
     DEF Next, SenderStep, DrainStep, DeliverStep, LauncherStep

\* The lock protocol: who enters takes a free lock, who leaves held it.
LEMMA LockKept == TypeOK /\ PlacesOK /\ LockHeld /\ [Next]_vars => LockHeld'
<1> SUFFICES ASSUME TypeOK, PlacesOK, LockHeld, [Next]_vars,
                    NEW q \in Procs, pc'[q] \in Inside
             PROVE  lock' = q
  BY DEF LockHeld
<1>0. RestOK
  BY DEF TypeOK, RestOK
<1>a. Inside = {"held", "registration", "guard", "confirm", "leased", "ready", "gate",
                "attempt", "paste", "finish", "brief", "session"}
  BY DEF Inside, Unchecked, Passed
<1> USE Distinct, <1>0, <1>a
<1> USE DEF RestOK, LockHeld, Goto, Return, memory
<1>1. ASSUME NEW p \in Senders, NEW m \in Direct \cup Comments, Send(p, m) PROVE lock' = q
  BY <1>1 DEF Send
<1>2. ASSUME NEW p \in Deliverers, Acquire(p) PROVE lock' = q
  BY <1>2 DEF Acquire
<1>3. ASSUME NEW p \in Senders, CheckHeld(p) \/ FinishSend(p) PROVE lock' = q
  BY <1>3 DEF CheckHeld, FinishSend
<1>4. ASSUME NEW p \in Deliverers, CheckReady(p) PROVE lock' = q
  BY <1>4 DEF CheckReady, Defer
<1>5. ASSUME NEW p \in Deliverers, CheckGate(p) PROVE lock' = q
  BY <1>5 DEF CheckGate, Defer
<1>6. ASSUME NEW p \in Deliverers, Paste(p) PROVE lock' = q
  BY <1>6 DEF Paste
<1>7. CASE StartDrain \/ TakeGuard \/ BatchDone \/ ReleaseBatch \/ RecordAttempt \/ MarkOutcome
  BY <1>7 DEF StartDrain, TakeGuard, BatchDone, ReleaseBatch, RecordAttempt, MarkOutcome
<1>8. CASE CheckRegistration \/ CheckLease
  BY <1>8 DEF CheckRegistration, CheckLease
<1>9. CASE CheckConfirmed \/ FinishDrain
  BY <1>9 DEF CheckConfirmed, FinishDrain
<1>10. ASSUME NEW r \in Rows, TakeNext(r) PROVE lock' = q
  BY <1>10 DEF TakeNext
<1>11. ASSUME \/ SweepLeases \/ SweepExpired \/ IssueClosed \/ Inbox \/ AckInbox \/ KeyReset
              \/ \E m \in Confirmed : Admit(m)
              \/ AgentMoves \/ Forget \/ ChangeClient \/ TimePasses
       PROVE  lock' = q
  BY <1>11 DEF SweepLeases, SweepExpired, IssueClosed, Inbox, AckInbox, KeyReset, Admit,
               AgentMoves, Forget, ChangeClient, TimePasses
<1>12. CASE LaunchBegin \/ LaunchBrief
  BY <1>12 DEF LaunchBegin, LaunchBrief
<1>13. CASE LaunchSession \/ Crash
  BY <1>13 DEF LaunchSession, Crash
<1>14. CASE UNCHANGED vars
  BY <1>14 DEF vars
<1> QED
  BY <1>1, <1>2, <1>3, <1>4, <1>5, <1>6, <1>7, <1>8, <1>9, <1>10, <1>11, <1>12, <1>13, <1>14
     DEF Next, SenderStep, DrainStep, DeliverStep, LauncherStep

\* The steps that leave the drain and its rows alone.
LEMMA OthersKeepDrain ==
    ASSUME RestOK,
           \/ \E p \in Senders, m \in Direct \cup Comments : Send(p, m)
           \/ \E p \in Senders : SenderStep(p)
           \/ SweepLeases \/ SweepExpired \/ IssueClosed \/ Inbox \/ AckInbox \/ KeyReset
           \/ \E m \in Confirmed : Admit(m)
           \/ LaunchBegin \/ LauncherStep \/ AgentMoves \/ Forget \/ ChangeClient \/ TimePasses
           \/ UNCHANGED vars
    PROVE  UNCHANGED <<pc[Drain], out[Drain], cur, mine, todo>>
<1> USE Distinct DEF RestOK, Goto, Return, memory
<1>1. ASSUME NEW p \in Senders, NEW m \in Direct \cup Comments, Send(p, m)
      PROVE  UNCHANGED <<pc[Drain], out[Drain], cur, mine, todo>>
  BY <1>1 DEF Send
<1>2. ASSUME NEW p \in Senders, Acquire(p) \/ CheckHeld(p) \/ Paste(p) \/ FinishSend(p)
      PROVE  UNCHANGED <<pc[Drain], out[Drain], cur, mine, todo>>
  BY <1>2 DEF Acquire, CheckHeld, Paste, FinishSend
<1>3. ASSUME NEW p \in Senders, CheckReady(p) \/ CheckGate(p)
      PROVE  UNCHANGED <<pc[Drain], out[Drain], cur, mine, todo>>
  BY <1>3 DEF CheckReady, CheckGate, Defer
<1>4. ASSUME \/ SweepLeases \/ SweepExpired \/ IssueClosed \/ Inbox \/ AckInbox \/ KeyReset
             \/ \E m \in Confirmed : Admit(m)
             \/ AgentMoves \/ Forget \/ ChangeClient \/ TimePasses
      PROVE  UNCHANGED <<pc[Drain], out[Drain], cur, mine, todo>>
  BY <1>4 DEF SweepLeases, SweepExpired, IssueClosed, Inbox, AckInbox, KeyReset, Admit,
              AgentMoves, Forget, ChangeClient, TimePasses
<1>5. CASE LaunchBegin \/ LaunchBrief \/ LaunchSession
  BY <1>5 DEF LaunchBegin, LaunchBrief, LaunchSession
<1>6. CASE UNCHANGED vars
  BY <1>6 DEF vars
<1> QED
  BY <1>1, <1>2, <1>3, <1>4, <1>5, <1>6 DEF SenderStep, DeliverStep, LauncherStep

\* A drain only comes to rows it has leased.
LEMMA BatchKept ==
    TypeOK /\ PlacesOK /\ BatchOK /\ LaunchOK /\ [Next]_vars => BatchOK'
<1> SUFFICES ASSUME TypeOK, PlacesOK, BatchOK, LaunchOK, [Next]_vars PROVE BatchOK'
  OBVIOUS
<1>0. RestOK /\ QTypeOK
  BY DEF TypeOK, RestOK
<1>1. \A r \in Rows : RowKept(r)
  BY TableKept
<1>2. mine \subseteq Rows /\ \A r \in mine : status'[r] # "absent" /\ msg'[r] = msg[r]
  BY <1>0, <1>1 DEF BatchOK, RowKept, RestOK
<1>a. WithRow = {"registration", "guard", "confirm", "leased", "ready", "gate", "attempt",
                 "paste", "finish", "lock", "mark"}
  BY DEF WithRow, Unchecked, Passed
<1>3. CASE UNCHANGED <<pc[Drain], out[Drain], cur, mine, todo>>
  BY <1>2, <1>3, <1>a DEF BatchOK
<1> USE Distinct, <1>0, <1>2, <1>a DEF RestOK, BatchOK, Goto, Return, memory
<1>4. CASE StartDrain
  <2>1. PICK batch \in SUBSET Rows : Dequeue(batch) /\ todo' = batch /\ mine' = batch
    BY <1>4 DEF StartDrain
  <2>2. \A r \in batch : status'[r] # "absent"
    BY <2>1 DEF Dequeue
  <2> QED
    BY <1>4, <2>1, <2>2 DEF StartDrain
<1>5. CASE Acquire(Drain) \/ Paste(Drain) \/ CheckReady(Drain)
  BY <1>5 DEF Acquire, Paste, CheckReady, Defer
<1>6. CASE CheckGate(Drain) \/ RecordAttempt \/ TakeGuard
  BY <1>6 DEF CheckGate, Defer, RecordAttempt, TakeGuard
<1>7. CASE CheckRegistration \/ CheckLease \/ CheckConfirmed
  BY <1>7 DEF CheckRegistration, CheckLease, CheckConfirmed
<1>8. ASSUME NEW r \in Rows, TakeNext(r) PROVE BatchOK'
  BY <1>8 DEF TakeNext
<1>9. CASE FinishDrain \/ BatchDone \/ MarkOutcome \/ ReleaseBatch \/ Crash
  BY <1>9 DEF FinishDrain, BatchDone, MarkOutcome, ReleaseBatch, Crash
<1> QED
  BY <1>3, <1>4, <1>5, <1>6, <1>7, <1>8, <1>9, OthersKeepDrain
     DEF Next, DrainStep, DeliverStep

\* inboxOnly changes only under the lock that a launch holds.
LEMMA LaunchKept ==
    TypeOK /\ PlacesOK /\ LockHeld /\ LaunchOK /\ [Next]_vars => LaunchOK'
<1> SUFFICES ASSUME TypeOK, PlacesOK, LockHeld, LaunchOK, [Next]_vars PROVE LaunchOK'
  OBVIOUS
<1>0. RestOK
  BY DEF TypeOK, RestOK
<1>1. pc[Launcher] # "idle" => lock # NoProc
  BY Distinct DEF LockHeld, PlacesOK, Inside
<1> USE Distinct, <1>0 DEF RestOK, LaunchOK, Goto, Return, memory, qvars
<1>2. CASE Forget \/ ChangeClient
  BY <1>1, <1>2 DEF Forget, ChangeClient
<1>3. CASE LaunchBegin
  BY <1>3 DEF LaunchBegin, RetirePendingBriefs
<1>4. CASE LaunchSession \/ Crash
  BY <1>4 DEF LaunchSession, Crash
<1>5. CASE LaunchBrief
  BY <1>5 DEF LaunchBrief, EnqueueNew
<1>6. CASE UNCHANGED <<inboxOnly, pc[Launcher]>>
  BY <1>6
<1>7. ASSUME NEW p \in Senders, NEW m \in Direct \cup Comments, Send(p, m)
      PROVE  UNCHANGED <<inboxOnly, pc[Launcher]>>
  BY <1>7 DEF Send
<1>8. ASSUME NEW p \in Deliverers,
             Acquire(p) \/ CheckHeld(p) \/ Paste(p) \/ CheckReady(p) \/ CheckGate(p)
      PROVE  UNCHANGED <<inboxOnly, pc[Launcher]>>
  BY <1>8 DEF Acquire, CheckHeld, Paste, CheckReady, CheckGate, Defer, Enqueue, EnqueueNew,
              EnqueueAgain, Deliverers
<1>9. ASSUME NEW p \in Senders, FinishSend(p) PROVE UNCHANGED <<inboxOnly, pc[Launcher]>>
  BY <1>9 DEF FinishSend, Enqueue, EnqueueNew, EnqueueAgain
<1>10. CASE StartDrain \/ TakeGuard \/ BatchDone \/ ReleaseBatch \/ RecordAttempt \/ CheckLease
  <2>1. UNCHANGED <<inboxOnly, pc[Launcher]>>
    BY <1>10 DEF StartDrain, Dequeue, TakeGuard, BatchDone, ReleaseBatch, Release,
                 RecordAttempt, CheckLease
  <2> QED
    BY <2>1
<1>11. CASE MarkOutcome \/ CheckRegistration \/ CheckConfirmed \/ FinishDrain
  <2>1. UNCHANGED <<inboxOnly, pc[Launcher]>>
    BY <1>11 DEF MarkOutcome, MarkDelivered, CheckRegistration, CheckConfirmed, HoldAs, FinishDrain
  <2> QED
    BY <2>1
<1>12. ASSUME NEW r \in Rows, TakeNext(r) PROVE UNCHANGED <<inboxOnly, pc[Launcher]>>
  BY <1>12 DEF TakeNext, MarkDelivered
<1>13. CASE SweepLeases \/ SweepExpired \/ IssueClosed \/ Inbox \/ AckInbox \/ KeyReset
  <2>1. UNCHANGED <<inboxOnly, pc[Launcher]>>
    BY <1>13 DEF SweepLeases, ExpireStaleLeases, SweepExpired, ExpirePending, IssueClosed,
                 PurgeForIssue, Inbox, ReadInbox, AckInbox, Acknowledge, KeyReset, Revoke
  <2> QED
    BY <2>1
<1>14. ASSUME NEW m \in Confirmed, Admit(m) PROVE UNCHANGED <<inboxOnly, pc[Launcher]>>
  BY <1>14 DEF Admit, EnqueueNew
<1>15. CASE AgentMoves \/ TimePasses \/ UNCHANGED vars
  <2>1. UNCHANGED <<inboxOnly, pc[Launcher]>>
    BY <1>15 DEF AgentMoves, TimePasses, Tick, vars
  <2> QED
    BY <2>1
<1> QED
  BY <1>2, <1>3, <1>4, <1>5, <1>6, <1>7, <1>8, <1>9, <1>10, <1>11, <1>12, <1>13, <1>14, <1>15
     DEF Next, SenderStep, DrainStep, DeliverStep, LauncherStep, Deliverers

-----------------------------------------------------------------------------
(***************************************************************************)
(* Who changes what                                                        *)
(***************************************************************************)
\* What a delivery has checked is changed by few actions, most of which wait for
\* the session lock or the revocation guard.
LEMMA Frame ==
    ASSUME [Next]_vars
    PROVE  /\ Forget \/ UNCHANGED registration
           /\ Inbox \/ UNCHANGED shown
           /\ LaunchBegin \/ UNCHANGED launches
           /\ LaunchBrief \/ UNCHANGED briefOf
           /\ KeyReset \/ (\E m \in Confirmed : Admit(m)) \/ UNCHANGED signing
<1> DEFINE Fixed == UNCHANGED <<registration, shown, launches, briefOf, signing>>
<1> USE DEF qvars, memory, keys, counters, history
<1>1. ASSUME NEW p \in Senders, NEW m \in Direct \cup Comments, Send(p, m) PROVE Fixed
  BY <1>1 DEF Send
<1>2. ASSUME NEW p, Acquire(p) \/ CheckHeld(p) \/ Paste(p) PROVE Fixed
  BY <1>2 DEF Acquire, CheckHeld, Paste
<1>3. ASSUME NEW p, CheckReady(p) \/ CheckGate(p) PROVE Fixed
  BY <1>3 DEF CheckReady, CheckGate, Defer, Enqueue, EnqueueNew, EnqueueAgain
<1>4. ASSUME NEW p, FinishSend(p) PROVE Fixed
  BY <1>4 DEF FinishSend, Enqueue, EnqueueNew, EnqueueAgain
<1>5. CASE StartDrain \/ TakeGuard \/ BatchDone \/ ReleaseBatch \/ RecordAttempt \/ CheckLease
  <2>1. Fixed
    BY <1>5 DEF StartDrain, Dequeue, TakeGuard, BatchDone, ReleaseBatch, Release,
                RecordAttempt, CheckLease
  <2> QED
    BY <2>1
<1>6. CASE MarkOutcome \/ CheckRegistration \/ CheckConfirmed \/ FinishDrain
  <2>1. Fixed
    BY <1>6 DEF MarkOutcome, MarkDelivered, CheckRegistration, CheckConfirmed, HoldAs, FinishDrain
  <2> QED
    BY <2>1
<1>7. ASSUME NEW r \in Rows, TakeNext(r) PROVE Fixed
  BY <1>7 DEF TakeNext, MarkDelivered
<1>8. CASE SweepLeases \/ SweepExpired \/ IssueClosed \/ AckInbox
  <2>1. Fixed
    BY <1>8 DEF SweepLeases, ExpireStaleLeases, SweepExpired, ExpirePending, IssueClosed,
                PurgeForIssue, AckInbox, Acknowledge
  <2> QED
    BY <2>1
<1>9. CASE Inbox
  BY <1>9 DEF Inbox, ReadInbox
<1>10. CASE KeyReset
  BY <1>10 DEF KeyReset, Revoke
<1>11. ASSUME NEW m \in Confirmed, Admit(m)
       PROVE  UNCHANGED <<registration, shown, launches, briefOf>>
  BY <1>11 DEF Admit, EnqueueNew
<1>12. CASE LaunchBegin
  BY <1>12 DEF LaunchBegin, RetirePendingBriefs
<1>13. CASE LaunchBrief
  BY <1>13 DEF LaunchBrief, EnqueueNew
<1>14. CASE LaunchSession \/ AgentMoves \/ Crash \/ TimePasses \/ UNCHANGED vars
  <2>1. Fixed
    BY <1>14 DEF LaunchSession, AgentMoves, Crash, TimePasses, Tick, vars
  <2> QED
    BY <2>1
<1>15. CASE Forget
  BY <1>15 DEF Forget
<1>16. CASE ChangeClient
  BY <1>16 DEF ChangeClient, SetInboxOnly
<1> QED
  BY <1>1, <1>2, <1>3, <1>4, <1>5, <1>6, <1>7, <1>8, <1>9, <1>10, <1>11, <1>12, <1>13,
     <1>14, <1>15, <1>16 DEF Next, SenderStep, DrainStep, DeliverStep, LauncherStep

PrePaste == Passed \ {"finish"}

\* How a drain comes to a paste: every check it passed, it passed for this row.
LEMMA DrainEnters ==
    ASSUME RestOK, PlacesOK, [Next]_vars
    PROVE  /\ pc'[Drain] \in Checked =>
                 /\ cur' = cur
                 /\ \/ pc[Drain] \in Checked
                    \/ pc[Drain] = "registration" /\ owner[cur] = registration /\ UNCHANGED qvars
           /\ pc'[Drain] \in PrePaste =>
                 /\ cur' = cur
                 /\ \/ pc[Drain] \in PrePaste
                    \/ /\ pc[Drain] \in {"leased", "confirm"}
                       /\ status[cur] = "in_progress"
                       /\ UNCHANGED qvars
           /\ pc'[Drain] = "finish" => cur' = cur /\ pc[Drain] \in Passed
<1> DEFINE Enters ==
      /\ pc'[Drain] \in Checked =>
                 /\ cur' = cur
                 /\ \/ pc[Drain] \in Checked
                    \/ pc[Drain] = "registration" /\ owner[cur] = registration /\ UNCHANGED qvars
      /\ pc'[Drain] \in PrePaste =>
                 /\ cur' = cur
                 /\ \/ pc[Drain] \in PrePaste
                    \/ /\ pc[Drain] \in {"leased", "confirm"}
                       /\ status[cur] = "in_progress"
                       /\ UNCHANGED qvars
      /\ pc'[Drain] = "finish" => cur' = cur /\ pc[Drain] \in Passed
<1> SUFFICES Enters
  OBVIOUS
<1>a. /\ Checked = {"guard", "confirm", "leased", "ready", "gate", "attempt", "paste", "finish"}
      /\ PrePaste = {"ready", "gate", "attempt", "paste"}
      /\ Passed = {"ready", "gate", "attempt", "paste", "finish"}
  BY DEF Checked, PrePaste, Passed
<1>1. CASE UNCHANGED <<pc[Drain], out[Drain], cur, mine, todo>>
  BY <1>1, <1>a
<1> USE Distinct, <1>a DEF RestOK, Goto, Return
<1>2. CASE StartDrain \/ BatchDone \/ MarkOutcome \/ ReleaseBatch \/ Crash
  BY <1>2 DEF StartDrain, BatchDone, MarkOutcome, ReleaseBatch, Crash
<1>3. CASE Acquire(Drain) \/ Paste(Drain)
  BY <1>3 DEF Acquire, Paste
<1>4. CASE CheckReady(Drain) \/ CheckGate(Drain)
  BY <1>4 DEF CheckReady, CheckGate, Defer
<1>5. CASE RecordAttempt \/ TakeGuard
  BY <1>5 DEF RecordAttempt, TakeGuard
<1>6. CASE CheckRegistration
  BY <1>6 DEF CheckRegistration
<1>7. CASE CheckLease
  BY <1>7 DEF CheckLease
<1>8. CASE CheckConfirmed
  BY <1>8 DEF CheckConfirmed
<1>9. ASSUME NEW r \in Rows, TakeNext(r) PROVE Enters
  BY <1>9 DEF TakeNext
<1>10. CASE FinishDrain
  BY <1>10 DEF FinishDrain
<1> QED
  BY <1>1, <1>2, <1>3, <1>4, <1>5, <1>6, <1>7, <1>8, <1>9, <1>10, OthersKeepDrain
     DEF Next, DrainStep, DeliverStep

\* A row is inserted by a send, by a sweep (the notice), by a launch (its brief)
\* or by the admission of a confirmation.
LEMMA Inserted ==
    ASSUME TypeOK, PlacesOK, [Next]_vars, NEW r \in Rows,
           status[r] = "absent", status'[r] # "absent"
    PROVE  \/ msg'[r] \in Direct \cup Comments \cup {Notice}
           \/ msg'[r] \in Briefs /\ LaunchBrief
           \/ msg'[r] \in Confirmed /\ status'[r] = "pending" /\ Admit(msg'[r])
<1> DEFINE New == \/ msg'[r] \in Direct \cup Comments \cup {Notice}
                  \/ msg'[r] \in Briefs /\ LaunchBrief
                  \/ msg'[r] \in Confirmed /\ status'[r] = "pending" /\ Admit(msg'[r])
<1> SUFFICES New
  OBVIOUS
<1>0. QTypeOK
  BY DEF TypeOK
<1>a. ASSUME NEW m, NEW s, EnqueueNew(m, s) PROVE msg'[r] = m /\ status'[r] = s
  BY <1>0, <1>a DEF EnqueueNew, Insert, NextRow, QTypeOK
<1>b. ASSUME NEW m, NEW s, EnqueueAgain(m, s) PROVE FALSE
  BY <1>0, <1>b DEF EnqueueAgain, Upgraded, Active, ActiveStatus, QTypeOK
<1>c. ASSUME NEW p \in Senders, pc[p] # "idle", NEW s, Enqueue(sending[p], s) PROVE New
  BY <1>a, <1>b, <1>c DEF Enqueue, PlacesOK
<1>1. ASSUME NEW p \in Senders, CheckReady(p) \/ CheckGate(p) PROVE New
  <2>1. pc[p] # "idle" /\ (UNCHANGED qvars \/ Enqueue(sending[p], "pending"))
    BY <1>1, Distinct DEF CheckReady, CheckGate, Defer
  <2> QED
    BY <2>1, <1>c DEF qvars
<1>2. ASSUME NEW p \in Senders, FinishSend(p) PROVE New
  <2>1. pc[p] # "idle" /\ (UNCHANGED qvars \/ Enqueue(sending[p], StoredAs(out[p])))
    BY <1>2 DEF FinishSend
  <2> QED
    BY <2>1, <1>c DEF qvars
<1>3. CASE SweepExpired
  BY <1>0, <1>3 DEF SweepExpired, ExpirePending, QTypeOK, Expiring
<1>4. CASE LaunchBrief
  BY <1>4, <1>a DEF LaunchBrief, qvars
<1>5. ASSUME NEW m \in Confirmed, Admit(m) PROVE New
  BY <1>5, <1>a DEF Admit
<1>6. ASSUME NEW p, Send(p, sending'[p]) \/ Acquire(p) \/ CheckHeld(p) \/ Paste(p) PROVE FALSE
  BY <1>6 DEF Send, Acquire, CheckHeld, Paste, qvars
<1>7. ASSUME NEW p, NEW m, Send(p, m) PROVE FALSE
  BY <1>7 DEF Send, qvars
<1>8. ASSUME CheckReady(Drain) \/ CheckGate(Drain) PROVE FALSE
  BY <1>8 DEF CheckReady, CheckGate, Defer, qvars
<1>9. ASSUME StartDrain PROVE FALSE
  BY <1>0, <1>9 DEF StartDrain, Dequeue, QTypeOK
<1>10. ASSUME MarkOutcome \/ CheckRegistration PROVE FALSE
  BY <1>0, <1>10 DEF MarkOutcome, CheckRegistration, MarkDelivered, QTypeOK, qvars
<1>11. ASSUME CheckConfirmed \/ FinishDrain PROVE FALSE
  BY <1>0, <1>11 DEF CheckConfirmed, FinishDrain, HoldAs, HoldFrom, QTypeOK, qvars
<1>12. ASSUME CheckLease \/ TakeGuard \/ RecordAttempt \/ BatchDone PROVE FALSE
  BY <1>12 DEF CheckLease, TakeGuard, RecordAttempt, BatchDone, qvars
<1>13. ASSUME NEW q \in Rows, TakeNext(q) PROVE FALSE
  BY <1>0, <1>13 DEF TakeNext, MarkDelivered, QTypeOK, qvars
<1>14. ASSUME ReleaseBatch \/ SweepLeases \/ IssueClosed PROVE FALSE
  BY <1>0, <1>14 DEF ReleaseBatch, Release, SweepLeases, ExpireStaleLeases, IssueClosed,
                     PurgeForIssue, Active, ActiveStatus, QTypeOK
<1>15. ASSUME Inbox \/ AckInbox \/ KeyReset PROVE FALSE
  <2>1. CASE Inbox
    BY <1>0, <2>1 DEF Inbox, ReadInbox, QTypeOK
  <2>2. CASE AckInbox
    <3>1. PICK tokens \in SUBSET shown : Acknowledge(tokens)
      BY <2>2 DEF AckInbox
    <3> QED
      BY <1>0, <3>1 DEF Acknowledge, Held, QTypeOK
  <2>3. CASE KeyReset
    <3>1. Revoke(Gone, attempted)
      BY <2>3 DEF KeyReset
    <3> QED
      BY <1>0, <3>1 DEF Revoke, QTypeOK
  <2> QED
    BY <1>15, <2>1, <2>2, <2>3
<1>16. ASSUME LaunchBegin \/ Forget PROVE FALSE
  BY <1>0, <1>16 DEF LaunchBegin, RetirePendingBriefs, Forget, Reregister, Active, ActiveStatus,
                     QTypeOK
<1>17. ASSUME \/ LaunchSession \/ AgentMoves \/ ChangeClient \/ Crash \/ TimePasses
              \/ UNCHANGED vars
       PROVE  FALSE
  BY <1>17 DEF LaunchSession, AgentMoves, ChangeClient, SetInboxOnly, Crash, TimePasses, Tick,
               vars, qvars
<1> QED
  BY <1>1, <1>2, <1>3, <1>4, <1>5, <1>6, <1>7, <1>8, <1>9, <1>10, <1>11, <1>12, <1>13,
     <1>14, <1>15, <1>16, <1>17 DEF Next, SenderStep, DrainStep, DeliverStep, LauncherStep

\* A row becomes unconfirmed by the end of a delivery, which holds the lock, or by
\* a key reset.
LEMMA NewUncertain ==
    ASSUME TypeOK, PlacesOK, [Next]_vars, NEW r \in Rows,
           status[r] # "uncertain", status'[r] = "uncertain"
    PROVE  \/ \E p \in Senders : FinishSend(p)
           \/ FinishDrain \/ CheckConfirmed
           \/ KeyReset /\ msg[r] \in Gone
<1> DEFINE New == \/ \E p \in Senders : FinishSend(p)
                  \/ FinishDrain \/ CheckConfirmed
                  \/ KeyReset /\ msg[r] \in Gone
<1> SUFFICES New
  OBVIOUS
<1>0. QTypeOK
  BY DEF TypeOK
<1>a. ASSUME NEW m, Enqueue(m, "pending") PROVE FALSE
  BY <1>0, <1>a DEF Enqueue, EnqueueNew, Insert, EnqueueAgain, Upgraded, QTypeOK
<1>1. ASSUME NEW p \in Deliverers, CheckReady(p) \/ CheckGate(p) PROVE FALSE
  <2>1. UNCHANGED qvars \/ Enqueue(sending[p], "pending")
    BY <1>1 DEF CheckReady, CheckGate, Defer
  <2> QED
    BY <2>1, <1>a DEF qvars
<1>2. ASSUME NEW p, NEW m, Send(p, m) \/ Acquire(p) \/ CheckHeld(p) \/ Paste(p) PROVE FALSE
  BY <1>2 DEF Send, Acquire, CheckHeld, Paste, qvars
<1>3. ASSUME StartDrain PROVE FALSE
  BY <1>0, <1>3 DEF StartDrain, Dequeue, QTypeOK
<1>4. ASSUME MarkOutcome \/ CheckRegistration PROVE FALSE
  BY <1>0, <1>4 DEF MarkOutcome, CheckRegistration, MarkDelivered, QTypeOK, qvars
<1>5. ASSUME CheckLease \/ TakeGuard \/ RecordAttempt \/ BatchDone PROVE FALSE
  BY <1>5 DEF CheckLease, TakeGuard, RecordAttempt, BatchDone, qvars
<1>6. ASSUME NEW q \in Rows, TakeNext(q) PROVE FALSE
  BY <1>0, <1>6 DEF TakeNext, MarkDelivered, QTypeOK, qvars
<1>7. ASSUME ReleaseBatch \/ SweepLeases \/ IssueClosed PROVE FALSE
  BY <1>0, <1>7 DEF ReleaseBatch, Release, SweepLeases, ExpireStaleLeases, IssueClosed,
                    PurgeForIssue, QTypeOK
<1>8. ASSUME SweepExpired PROVE FALSE
  BY <1>0, <1>8 DEF SweepExpired, ExpirePending, QTypeOK
<1>9. ASSUME Inbox PROVE FALSE
  BY <1>0, <1>9 DEF Inbox, ReadInbox, QTypeOK
<1>10. ASSUME AckInbox PROVE FALSE
  <2>1. PICK tokens \in SUBSET shown : Acknowledge(tokens)
    BY <1>10 DEF AckInbox
  <2> QED
    BY <1>0, <2>1 DEF Acknowledge, QTypeOK
<1>11. ASSUME NEW m \in Confirmed, Admit(m) PROVE FALSE
  BY <1>11, <1>a DEF Admit, Enqueue
<1>12. CASE KeyReset
  <2>1. Revoke(Gone, attempted)
    BY <1>12 DEF KeyReset
  <2> QED
    BY <1>0, <1>12, <2>1 DEF Revoke, QTypeOK
<1>13. ASSUME LaunchBegin \/ Forget PROVE FALSE
  BY <1>0, <1>13 DEF LaunchBegin, RetirePendingBriefs, Forget, Reregister, QTypeOK
<1>14. ASSUME LaunchBrief PROVE FALSE
  <2>1. UNCHANGED qvars \/ \E b \in Briefs : Enqueue(b, "pending")
    BY <1>14 DEF LaunchBrief, Enqueue
  <2> QED
    BY <2>1, <1>a DEF qvars
<1>15. ASSUME \/ LaunchSession \/ AgentMoves \/ ChangeClient \/ Crash \/ TimePasses
              \/ UNCHANGED vars
       PROVE  FALSE
  BY <1>15 DEF LaunchSession, AgentMoves, ChangeClient, SetInboxOnly, Crash, TimePasses, Tick,
               vars, qvars
<1> QED
  BY <1>1, <1>2, <1>3, <1>4, <1>5, <1>6, <1>7, <1>8, <1>9, <1>10, <1>11, <1>12, <1>13,
     <1>14, <1>15, Distinct
     DEF Next, SenderStep, DrainStep, DeliverStep, LauncherStep

\* How a delivery comes between the gate and the paste.
LEMMA GateEntered ==
    ASSUME TypeOK, PlacesOK, BatchOK, LaunchOK, [Next]_vars,
           NEW p \in Deliverers, pc'[p] \in Gated
    PROVE  /\ Text(p)' = Text(p)
           /\ \/ pc[p] \in Gated
              \/ /\ pc[p] = "gate" /\ ~HasUncertain /\ ~BriefAhead(p)
                 /\ UNCHANGED <<qvars, signing>>
<1>0. RestOK
  BY DEF TypeOK, RestOK
<1> DEFINE Entered == \/ pc[p] \in Gated
                      \/ /\ pc[p] = "gate" /\ ~HasUncertain /\ ~BriefAhead(p)
                         /\ UNCHANGED <<qvars, signing>>
<1>a. /\ Gated = {"attempt", "paste"}
      /\ PrePaste = {"ready", "gate", "attempt", "paste"}
      /\ WithRow = {"registration", "guard", "confirm", "leased", "ready", "gate", "attempt",
                    "paste", "finish", "lock", "mark"}
  BY DEF Gated, PrePaste, Passed, WithRow, Unchecked
<1>1. p = Drain => cur' = cur /\ msg'[cur] = msg[cur]
  <2> SUFFICES ASSUME p = Drain PROVE cur' = cur /\ msg'[cur] = msg[cur]
    OBVIOUS
  <2>1. cur' = cur /\ pc[Drain] \in WithRow
    BY <1>0, <1>a, DrainEnters
  <2>2. cur \in Rows /\ status[cur] # "absent"
    BY <1>0, <2>1 DEF BatchOK, RestOK
  <2> QED
    BY <2>1, <2>2, TableKept DEF RowKept
<1> DEFINE Fine == Entered /\ (p # Drain => sending'[p] = sending[p])
<1> SUFFICES Fine
  BY <1>1 DEF Text
<1> USE Distinct, <1>0, <1>a DEF RestOK, Goto, Return, memory
<1>2. ASSUME NEW q \in Senders, NEW m \in Direct \cup Comments, Send(q, m) PROVE Fine
  BY <1>2 DEF Send
<1>3. ASSUME NEW q \in Deliverers, Acquire(q) \/ Paste(q) PROVE Fine
  BY <1>3 DEF Acquire, Paste
<1>4. ASSUME NEW q \in Senders, CheckHeld(q) \/ FinishSend(q) PROVE Fine
  BY <1>4 DEF CheckHeld, FinishSend
<1>5. ASSUME NEW q \in Deliverers, CheckReady(q) PROVE Fine
  BY <1>5 DEF CheckReady, Defer
<1>6. ASSUME NEW q \in Deliverers, CheckGate(q) PROVE Fine
  BY <1>6 DEF CheckGate, Defer, keys
<1>7. CASE StartDrain \/ TakeGuard \/ BatchDone \/ ReleaseBatch \/ RecordAttempt \/ MarkOutcome
  BY <1>7 DEF StartDrain, TakeGuard, BatchDone, ReleaseBatch, RecordAttempt, MarkOutcome
<1>8. CASE CheckRegistration \/ CheckLease
  BY <1>8 DEF CheckRegistration, CheckLease
<1>9. CASE CheckConfirmed \/ FinishDrain
  BY <1>9 DEF CheckConfirmed, FinishDrain
<1>10. ASSUME NEW r \in Rows, TakeNext(r) PROVE Fine
  BY <1>10 DEF TakeNext
<1>11. ASSUME \/ SweepLeases \/ SweepExpired \/ IssueClosed \/ Inbox \/ AckInbox \/ KeyReset
              \/ \E m \in Confirmed : Admit(m)
              \/ AgentMoves \/ Forget \/ ChangeClient \/ TimePasses
       PROVE  Fine
  BY <1>11 DEF SweepLeases, SweepExpired, IssueClosed, Inbox, AckInbox, KeyReset, Admit,
               AgentMoves, Forget, ChangeClient, TimePasses
<1>12. CASE LaunchBegin \/ LaunchBrief \/ LaunchSession
  BY <1>12 DEF LaunchBegin, LaunchBrief, LaunchSession
<1>13. CASE Crash \/ UNCHANGED vars
  BY <1>13 DEF Crash, vars
<1> QED
  BY <1>2, <1>3, <1>4, <1>5, <1>6, <1>7, <1>8, <1>9, <1>10, <1>11, <1>12, <1>13
     DEF Next, SenderStep, DrainStep, DeliverStep, LauncherStep, Deliverers

-----------------------------------------------------------------------------
(***************************************************************************)
(* What was checked still holds at the paste                               *)
(***************************************************************************)
\* A drain inside keeps away whoever waits for the lock.
LEMMA InsideExcludes ==
    ASSUME LockHeld
    PROVE  /\ pc[Drain] \in Checked => ~Forget /\ ~Inbox /\ ~LaunchBegin
           /\ \A p \in Deliverers : pc[p] \in Gated \cup {"gate"} =>
                 /\ lock = p /\ ~LaunchBegin /\ (PlacesOK => ~LaunchBrief)
<1> USE Distinct
<1>1. /\ Checked \subseteq Inside /\ Gated \cup {"gate"} \subseteq Inside
      /\ {"brief", "session"} \subseteq Inside
  BY DEF Checked, Gated, Inside, Passed, Unchecked
<1>2. pc[Drain] \in Checked => lock = Drain
  BY <1>1 DEF LockHeld
<1>3. \A p \in Deliverers : pc[p] \in Gated \cup {"gate"} => lock = p
  BY <1>1 DEF LockHeld
<1>4. LaunchBrief => lock = Launcher
  BY <1>1 DEF LaunchBrief, LockHeld
<1> QED
  BY <1>2, <1>3, <1>4, DeliveryAssumption DEF Forget, Inbox, LaunchBegin, Deliverers

\* The lease check under the session lock keeps what the inbox showed from the
\* terminal, as reading the inbox takes the same lock.
LEMMA ShownKept ==
    TypeOK /\ PlacesOK /\ BatchOK /\ LaunchOK /\ LockHeld /\ ShownOK /\ [Next]_vars => ShownOK'
<1> SUFFICES ASSUME TypeOK, PlacesOK, BatchOK, LaunchOK, LockHeld, ShownOK, [Next]_vars
             PROVE  ShownOK'
  OBVIOUS
<1>0. RestOK /\ QTypeOK
  BY DEF TypeOK, RestOK
<1>1. ASSUME NEW r \in shown' PROVE status'[r] \in Settled
  <2>1. CASE r \in shown
    BY <1>0, <2>1, TableKept DEF ShownOK, RestOK
  <2>2. CASE r \notin shown
    <3>1. Inbox
      BY <1>1, <2>2, Frame
    <3> QED
      BY <1>0, <1>1, <2>2, <3>1
         DEF Inbox, ReadInbox, InboxRows, Held, Settled, Finished, QTypeOK
  <2> QED
    BY <2>1, <2>2
<1>2. ASSUME pc'[Drain] \in PrePaste PROVE cur' \notin shown'
  <2>1. /\ cur' = cur
        /\ \/ pc[Drain] \in PrePaste
           \/ pc[Drain] \in {"leased", "confirm"} /\ status[cur] = "in_progress"
    BY <1>0, <1>2, DrainEnters
  <2>2. pc[Drain] \in Checked
    BY <2>1 DEF Checked, PrePaste
  <2>3. shown' = shown
    BY <2>2, InsideExcludes, Frame
  <2>4. cur \notin shown
    BY <2>1 DEF ShownOK, PrePaste, Settled, Finished
  <2> QED
    BY <2>1, <2>3, <2>4
<1> QED
  BY <1>1, <1>2 DEF ShownOK, PrePaste

\* Forgetting a name takes the lifecycle lock, so the registration a drain has
\* compared stays current while it delivers.
LEMMA OwnerKept ==
    TypeOK /\ PlacesOK /\ BatchOK /\ LaunchOK /\ LockHeld /\ OwnerOK /\ [Next]_vars => OwnerOK'
<1> SUFFICES ASSUME TypeOK, PlacesOK, BatchOK, LaunchOK, LockHeld, OwnerOK, [Next]_vars,
                    pc'[Drain] \in Checked
             PROVE  owner'[cur'] = registration'
  BY DEF OwnerOK
<1>0. RestOK
  BY DEF TypeOK, RestOK
<1>1. /\ cur' = cur
      /\ \/ pc[Drain] \in Checked
         \/ pc[Drain] = "registration" /\ owner[cur] = registration /\ UNCHANGED qvars
  BY <1>0, DrainEnters
<1>2. CASE pc[Drain] \in Checked
  <2>1. registration' = registration /\ owner[cur] = registration
    BY <1>2, InsideExcludes, Frame DEF OwnerOK
  <2>2. cur \in Rows /\ status[cur] # "absent"
    BY <1>0, <1>2 DEF BatchOK, RestOK, WithRow, Checked, Unchecked
  <2>3. owner'[cur] = owner[cur]
    BY <2>2, TableKept DEF RowKept
  <2> QED
    BY <1>1, <2>1, <2>3
<1>3. CASE owner[cur] = registration /\ UNCHANGED qvars
  BY <1>1, <1>3 DEF qvars
<1> QED
  BY <1>1, <1>2, <1>3

\* While a delivery is between its check and its paste no other process makes a
\* row uncertain, except a key reset.
LEMMA UncertainStays ==
    TypeOK /\ PlacesOK /\ BatchOK /\ LaunchOK /\ LockHeld /\ UncertainOK /\ [Next]_vars
        => UncertainOK'
<1> SUFFICES ASSUME TypeOK, PlacesOK, BatchOK, LaunchOK, LockHeld, UncertainOK, [Next]_vars,
                    NEW p \in Deliverers, pc'[p] \in Gated,
                    NEW r \in Rows, status'[r] = "uncertain"
             PROVE  msg'[r] \in Confirmed /\ signing'[msg'[r]] = "revoked"
  BY DEF UncertainOK
<1>0. RestOK /\ QTypeOK
  BY DEF TypeOK, RestOK
<1>1. \/ pc[p] \in Gated
      \/ pc[p] = "gate" /\ ~HasUncertain /\ UNCHANGED <<qvars, signing>>
  BY GateEntered
<1>2. CASE ~HasUncertain /\ UNCHANGED <<qvars, signing>>
  BY <1>2 DEF HasUncertain, qvars
<1>3. CASE pc[p] \in Gated
  <2>1. \A m \in Confirmed : signing[m] = "revoked" => signing'[m] = "revoked"
    BY <1>0, Frame DEF RestOK, KeyReset, Admit
  <2>2. CASE status[r] = "uncertain"
    <3>1. msg'[r] = msg[r]
      BY <2>2, TableKept DEF RowKept
    <3>2. msg[r] \in Confirmed /\ signing[msg[r]] = "revoked"
      BY <1>3, <2>2 DEF UncertainOK
    <3> QED
      BY <2>1, <3>1, <3>2
  <2>3. CASE status[r] # "uncertain"
    <3>1. lock = p
      BY <1>3, InsideExcludes
    <3>2. ASSUME NEW q \in Senders, FinishSend(q) PROVE FALSE
      <4>1. q = p
        BY <3>1, <3>2, Distinct DEF FinishSend, LockHeld, Inside, Passed
      <4> QED
        BY <1>3, <3>2, <4>1 DEF FinishSend, Gated
    <3>3. ASSUME FinishDrain \/ CheckConfirmed PROVE FALSE
      <4>1. Drain = p
        BY <3>1, <3>3, Distinct DEF FinishDrain, CheckConfirmed, LockHeld, Inside, Passed, Unchecked
      <4> QED
        BY <1>3, <3>3, <4>1 DEF FinishDrain, CheckConfirmed, Gated
    <3>4. KeyReset /\ msg[r] \in Gone
      BY <2>3, <3>2, <3>3, NewUncertain
    <3>5. msg'[r] = msg[r]
      BY <3>4 DEF KeyReset, Revoke
    <3> QED
      BY <1>0, <3>4, <3>5 DEF KeyReset, Gone, Ending, RestOK
  <2> QED
    BY <2>2, <2>3
<1> QED
  BY <1>1, <1>2, <1>3

\* An active row was active before, or was just inserted.
LEMMA NewActiveBrief ==
    ASSUME TypeOK, PlacesOK, BatchOK, LaunchOK, [Next]_vars,
           NEW r \in Rows, Active(r)', msg'[r] \in Briefs
    PROVE  \/ Active(r) /\ msg[r] = msg'[r]
           \/ status[r] = "absent" /\ LaunchBrief
<1>1. status'[r] # "absent"
  BY DEF Active, ActiveStatus
<1>2. CASE status[r] = "absent"
  BY <1>1, <1>2, Inserted, QueueAssumption DEF Direct
<1>3. CASE status[r] # "absent"
  BY <1>3, TableKept DEF RowKept
<1> QED
  BY <1>2, <1>3

\* A launch retires the briefs before it under the lock every delivery takes.
LEMMA BriefKept ==
    TypeOK /\ PlacesOK /\ BatchOK /\ LaunchOK /\ LockHeld /\ BriefOK /\ [Next]_vars => BriefOK'
<1> SUFFICES ASSUME TypeOK, PlacesOK, BatchOK, LaunchOK, LockHeld, BriefOK, [Next]_vars
             PROVE  BriefOK'
  OBVIOUS
<1>0. RestOK /\ QTypeOK /\ QTypeOK'
  BY TableKept DEF TypeOK, RestOK
<1>1. ASSUME NEW r \in Rows, Active(r)', msg'[r] \in Briefs PROVE briefOf'[r] = launches'
  <2>1. ~LaunchBegin
    BY <1>0, <1>1 DEF LaunchBegin, RetirePendingBriefs, QTypeOK, Active, ActiveStatus
  <2>2. launches' = launches
    BY <2>1, Frame
  <2>3. CASE status[r] = "absent"
    <3>1. LaunchBrief /\ status'[r] # "absent"
      BY <1>1, <2>3, NewActiveBrief DEF Active, ActiveStatus
    <3> QED
      BY <1>0, <2>2, <2>3, <3>1 DEF LaunchBrief, RestOK, qvars
  <2>4. CASE status[r] # "absent"
    <3>1. Active(r) /\ msg[r] = msg'[r]
      BY <1>1, <2>4, NewActiveBrief
    <3>2. briefOf[r] = launches
      BY <1>1, <3>1 DEF BriefOK
    <3>3. briefOf'[r] = briefOf[r] \/ briefOf'[r] = launches
      BY <1>0, Frame DEF LaunchBrief, RestOK
    <3> QED
      BY <2>2, <3>2, <3>3
  <2> QED
    BY <2>3, <2>4
<1>2. ASSUME pc'[Drain] \in Passed, msg'[cur'] \in Briefs PROVE briefOf'[cur'] = launches'
  <2>1. /\ cur' = cur
        /\ \/ pc[Drain] \in Passed
           \/ pc[Drain] \in {"leased", "confirm"} /\ status[cur] = "in_progress"
    BY <1>0, <1>2, DrainEnters DEF PrePaste, Passed
  <2>2. pc[Drain] \in Checked
    BY <2>1 DEF Checked
  <2>3. cur \in Rows /\ status[cur] # "absent"
    BY <1>0, <2>2 DEF BatchOK, RestOK, WithRow, Checked, Unchecked
  <2>4. msg'[cur] = msg[cur]
    BY <2>3, TableKept DEF RowKept
  <2>5. briefOf[cur] = launches
    BY <1>2, <2>1, <2>3, <2>4 DEF BriefOK, Active, ActiveStatus
  <2>6. lock = Drain
    BY <2>2, Distinct DEF LockHeld, Checked, Inside, Unchecked
  <2>7. ~LaunchBegin /\ ~LaunchBrief
    BY <2>6, Distinct DEF LaunchBegin, LaunchBrief, LockHeld, Inside
  <2> QED
    BY <2>1, <2>5, <2>7, Frame
<1>3. ASSUME NEW p \in Deliverers, pc'[p] \in Gated, Text(p)' \notin Briefs,
             NEW r \in Rows, Active(r)', msg'[r] \in Briefs
      PROVE  FALSE
  <2>1. /\ Text(p) \notin Briefs
        /\ \/ pc[p] \in Gated
           \/ pc[p] = "gate" /\ ~BriefAhead(p)
    BY <1>3, GateEntered
  <2>2. ~LaunchBrief
    BY <2>1, InsideExcludes
  <2>3. Active(r) /\ msg[r] \in Briefs
    BY <1>3, <2>2, NewActiveBrief
  <2> QED
    BY <2>1, <2>3 DEF BriefOK, BriefAhead, Text
<1> QED
  BY <1>1, <1>2, <1>3 DEF BriefOK

\* The revocation guard is held from the check of a confirmation to the end of
\* its delivery.
GuardOK == pc[Drain] \in Passed \cup {"confirm"} /\ msg[cur] \in Confirmed => guard = Drain

\* The revocation guard stays with the drain until its delivery returns.
LEMMA GuardKept ==
    TypeOK /\ PlacesOK /\ BatchOK /\ LaunchOK /\ GuardOK /\ [Next]_vars => GuardOK'
<1> SUFFICES ASSUME TypeOK, PlacesOK, BatchOK, LaunchOK, GuardOK, [Next]_vars,
                    pc'[Drain] \in Passed \cup {"confirm"}, msg'[cur'] \in Confirmed
             PROVE  guard' = Drain
  BY DEF GuardOK
<1>0. RestOK
  BY DEF TypeOK, RestOK
<1>a. /\ Passed = {"ready", "gate", "attempt", "paste", "finish"}
      /\ Checked = {"guard", "confirm", "leased"} \cup Passed
      /\ PrePaste = {"ready", "gate", "attempt", "paste"}
  BY DEF Checked, Passed, PrePaste
<1>1. cur' = cur /\ (pc[Drain] \in Checked \/ pc[Drain] = "registration")
  BY <1>0, <1>a, DrainEnters
<1>2. cur \in Rows /\ status[cur] # "absent"
  BY <1>0, <1>1 DEF BatchOK, RestOK, WithRow, Checked, Unchecked
<1>3. msg[cur] \in Confirmed
  BY <1>1, <1>2, TableKept DEF RowKept
<1> USE Distinct, <1>0, <1>a, <1>1, <1>3 DEF RestOK, Goto, Return, GuardOK, memory
<1>4. ASSUME NEW p \in Senders, NEW m \in Direct \cup Comments, Send(p, m) PROVE guard' = Drain
  BY <1>4 DEF Send
<1>5. ASSUME NEW q \in Deliverers, Acquire(q) \/ Paste(q) PROVE guard' = Drain
  BY <1>5 DEF Acquire, Paste
<1>6. ASSUME NEW q \in Senders, CheckHeld(q) \/ FinishSend(q) PROVE guard' = Drain
  BY <1>6 DEF CheckHeld, FinishSend
<1>7. ASSUME NEW q \in Deliverers, CheckReady(q) PROVE guard' = Drain
  BY <1>7 DEF CheckReady, Defer
<1>8. ASSUME NEW q \in Deliverers, CheckGate(q) PROVE guard' = Drain
  BY <1>8 DEF CheckGate, Defer
<1>9. CASE StartDrain \/ TakeGuard \/ BatchDone \/ ReleaseBatch \/ RecordAttempt \/ MarkOutcome
  BY <1>9 DEF StartDrain, TakeGuard, BatchDone, ReleaseBatch, RecordAttempt, MarkOutcome
<1>10. CASE CheckRegistration \/ CheckLease
  BY <1>10 DEF CheckRegistration, CheckLease, BatchOK
<1>11. CASE CheckConfirmed \/ FinishDrain
  BY <1>11 DEF CheckConfirmed, FinishDrain
<1>12. ASSUME NEW r \in Rows, TakeNext(r) PROVE guard' = Drain
  BY <1>12 DEF TakeNext
<1>13. ASSUME \/ SweepLeases \/ SweepExpired \/ IssueClosed \/ Inbox \/ AckInbox \/ KeyReset
              \/ \E m \in Confirmed : Admit(m)
              \/ AgentMoves \/ Forget \/ ChangeClient \/ TimePasses
       PROVE  guard' = Drain
  BY <1>13 DEF SweepLeases, SweepExpired, IssueClosed, Inbox, AckInbox, KeyReset, Admit,
               AgentMoves, Forget, ChangeClient, TimePasses
<1>14. CASE LaunchBegin \/ LaunchBrief \/ LaunchSession
  BY <1>14 DEF LaunchBegin, LaunchBrief, LaunchSession
<1>15. CASE Crash \/ UNCHANGED vars
  BY <1>15 DEF Crash, vars
<1> QED
  BY <1>4, <1>5, <1>6, <1>7, <1>8, <1>9, <1>10, <1>11, <1>12, <1>13, <1>14, <1>15
     DEF Next, SenderStep, DrainStep, DeliverStep, LauncherStep, Deliverers

\* A waiting confirmation has its authority: a reset takes the rows with it.
LEMMA AuthorityKept ==
    TypeOK /\ PlacesOK /\ BatchOK /\ LaunchOK /\ AuthorityOK /\ [Next]_vars => AuthorityOK'
<1> SUFFICES ASSUME TypeOK, PlacesOK, BatchOK, LaunchOK, AuthorityOK, [Next]_vars
             PROVE  AuthorityOK'
  OBVIOUS
<1>0. RestOK /\ QTypeOK
  BY DEF TypeOK, RestOK
<1>1. GuardOK'
  BY GuardKept DEF AuthorityOK, GuardOK
<1>2. ASSUME NEW m \in Confirmed, signing[m] = "admitted"
      PROVE  signing'[m] = "admitted" \/ (KeyReset /\ m \in Gone /\ guard = NoProc)
  BY <1>0, <1>2, Frame DEF RestOK, KeyReset, Admit, Gone
<1>3. ASSUME NEW r \in Rows, status'[r] \in Open, msg'[r] \in Confirmed
      PROVE  signing'[msg'[r]] = "admitted"
  <2>1. CASE status[r] = "absent"
    <3>1. Admit(msg'[r])
      BY <1>3, <2>1, Inserted, QueueAssumption DEF Direct, Open
    <3> QED
      BY <1>0, <1>3, <3>1 DEF Admit, RestOK
  <2>2. CASE status[r] # "absent"
    <3>1. status[r] \in Open /\ msg'[r] = msg[r]
      BY <1>3, <2>2, TableKept DEF RowKept
    <3>2. signing[msg[r]] = "admitted"
      BY <1>3, <3>1 DEF AuthorityOK
    <3>3. ~(KeyReset /\ msg[r] \in Gone)
      BY <1>0, <1>3, <3>1 DEF KeyReset, Revoke, QTypeOK, Open
    <3> QED
      BY <1>2, <1>3, <3>1, <3>2, <3>3
  <2> QED
    BY <2>1, <2>2
<1>4. ASSUME pc'[Drain] \in Passed, msg'[cur'] \in Confirmed
      PROVE  signing'[msg'[cur']] = "admitted"
  <2>1. /\ cur' = cur
        /\ \/ pc[Drain] \in Passed
           \/ /\ pc[Drain] \in {"leased", "confirm"} /\ status[cur] = "in_progress"
              /\ UNCHANGED qvars
    BY <1>0, <1>4, DrainEnters DEF PrePaste, Passed
  <2>2. cur \in Rows /\ status[cur] # "absent"
    BY <1>0, <2>1 DEF BatchOK, RestOK, WithRow, Unchecked
  <2>3. msg'[cur] = msg[cur]
    BY <2>2, TableKept DEF RowKept
  <2>4. CASE pc[Drain] \in Passed
    <3>1. guard = Drain /\ signing[msg[cur]] = "admitted"
      BY <1>4, <2>1, <2>3, <2>4 DEF AuthorityOK
    <3> QED
      BY <1>2, <1>4, <2>1, <2>3, <3>1, Distinct
  <2>5. CASE status[cur] = "in_progress" /\ UNCHANGED qvars
    <3>1. status'[cur] \in Open
      BY <2>5 DEF qvars, Open
    <3> QED
      BY <1>3, <1>4, <2>1, <2>2, <3>1
  <2> QED
    BY <2>1, <2>4, <2>5
<1> QED
  BY <1>1, <1>3, <1>4 DEF AuthorityOK, GuardOK

-----------------------------------------------------------------------------
(***************************************************************************)
(* The properties                                                          *)
(***************************************************************************)
\* What a delivery checked under the session lock is still true when it pastes,
\* whatever requests, sweeps, inbox reads, resets, launches and crashes happen in
\* between (_serialized and safe_deliver).
THEOREM InductiveInvariant == Spec => []IInv
<1>1. Init => IInv
  <2> SUFFICES ASSUME Init PROVE IInv
    OBVIOUS
  <2>1. /\ Window + 1 \in 0 .. Window + 1 /\ 0 \in 0 .. LeaseLimit + 1 /\ 1 \in 1 .. MaxReg
        /\ Notice \in Messages
    BY QueueAssumption
  <2>2. QTypeOK
    BY <2>1 DEF Init, QInit, QTypeOK, Status
  <2>3. TypeOK
    BY <2>1, <2>2 DEF Init, TypeOK, Places, Outcome
  <2>4. \A r \in Rows : status[r] = "absent"
    BY DEF Init, QInit
  <2>5. \A p \in Procs : pc[p] = "idle"
    BY DEF Init
  <2>6. "idle" \notin Inside \cup WithRow \cup Checked \cup Passed \cup Gated
    BY DEF Inside, WithRow, Checked, Gated, Passed, Unchecked
  <2>7. PlacesOK /\ LockHeld /\ LaunchOK /\ OwnerOK /\ UncertainOK
    BY <2>5, <2>6, Distinct DEF PlacesOK, LockHeld, LaunchOK, OwnerOK, UncertainOK
  <2>8. BatchOK /\ ShownOK
    BY <2>5, <2>6, Distinct DEF Init, BatchOK, ShownOK
  <2>9. BriefOK /\ AuthorityOK
    BY <2>4, <2>5, <2>6, Distinct DEF BriefOK, AuthorityOK, Active, ActiveStatus, Open
  <2> QED
    BY <2>3, <2>7, <2>8, <2>9 DEF IInv
<1>2. IInv /\ [Next]_vars => IInv'
  <2> SUFFICES ASSUME IInv, [Next]_vars PROVE IInv'
    OBVIOUS
  <2> USE DEF IInv
  <2>1. TypeOK'
    BY RestKept, TableKept DEF TypeOK, RestOK
  <2>2. PlacesOK' /\ BatchOK' /\ LockHeld' /\ LaunchOK'
    BY PlacesKept, BatchKept, LockKept, LaunchKept
  <2>3. ShownOK' /\ OwnerOK' /\ UncertainOK'
    BY ShownKept, OwnerKept, UncertainStays
  <2>4. BriefOK' /\ AuthorityOK'
    BY BriefKept, AuthorityKept
  <2> QED
    BY <2>1, <2>2, <2>3, <2>4
<1> QED
  BY <1>1, <1>2, PTL DEF Spec

\* Every variable keeps its type over every step of the requests, the drain, the
\* launch, the sweeps, the inbox, the key reset and the crash.
THEOREM DeliveryTypeOK == Spec => []TypeOK
<1>1. IInv => TypeOK
  BY DEF IInv
<1> QED
  BY <1>1, InductiveInvariant, PTL

\* No text is pasted into an input box that may hold an unconfirmed paste, by any
\* number of requests and the drain (has_uncertain under the session lock).
THEOREM NeverOverUncertain == Spec => []NoPasteOverUncertain
<1>1. IInv => NoPasteOverUncertain
  BY DEF IInv, UncertainOK, NoPasteOverUncertain, Pasting, Gated
<1> QED
  BY <1>1, InductiveInvariant, PTL

\* A message the inbox has shown is never pasted as well (still_leased under the
\* session lock that checkpoint_inbox takes too).
THEOREM OneChannel == Spec => []NotPastedOnceShown
<1>1. IInv => NotPastedOnceShown
  BY DEF IInv, ShownOK, NotPastedOnceShown, Pasting, Passed
<1> QED
  BY <1>1, InductiveInvariant, PTL

\* A row is pasted only to the registration it was queued for, however often the
\* name is forgotten and registered again (registration_matches in _serialized).
THEOREM ToItsRegistration == Spec => []RightRegistration
<1>1. IInv => RightRegistration
  BY DEF IInv, OwnerOK, RightRegistration, Pasting, Checked, Passed
<1> QED
  BY <1>1, InductiveInvariant, PTL

\* While a launch's brief is waiting, leased or held, nothing else is pasted
\* (has_brief_ahead).
THEOREM BriefBeforeWork == Spec => []BriefGoesFirst
<1>1. IInv => BriefGoesFirst
  BY DEF IInv, BriefOK, BriefGoesFirst, Pasting, Gated
<1> QED
  BY <1>1, InductiveInvariant, PTL

\* No session is handed the brief of an earlier launch (retire_pending_briefs).
THEOREM CurrentBrief == Spec => []BriefOfThisLaunch
<1>1. IInv => BriefOfThisLaunch
  BY DEF IInv, BriefOK, BriefOfThisLaunch, Pasting, Passed
<1> QED
  BY <1>1, InductiveInvariant, PTL

\* A key reset never falls between the last check of a confirmation and its paste
\* (revocation_guard).
THEOREM NoRevokedPaste == Spec => []RevokedNeverPasted
<1>1. IInv => RevokedNeverPasted
  BY DEF IInv, AuthorityOK, RevokedNeverPasted, Pasting, Passed
<1> QED
  BY <1>1, InductiveInvariant, PTL

\* Delivery changes the queue through the transactions of its table only, so what
\* holds of the table under any client holds of the system.
THEOREM DeliveryKeepsTable == Spec => QSpec
<1>1. Init => QInit
  BY DEF Init
<1>2. IInv /\ [Next]_vars => [QNext]_qvars
  BY Transaction DEF IInv
<1> QED
  BY <1>1, <1>2, InductiveInvariant, PTL DEF Spec, QSpec

-----------------------------------------------------------------------------
(***************************************************************************)
(* An owner-confirmed message is pasted at most once, if tmux runs no      *)
(* paste that was given up on (LatePaste = FALSE): the start of its paste  *)
(* is recorded before it (signing.attempt), taken back only when nothing   *)
(* was pasted, and looked at before the next one (_serialized).            *)
(***************************************************************************)
\* A confirmation that was queued is signed, and has one row.
OneRowOK ==
    \A r \in Rows : status[r] # "absent" /\ msg[r] \in Confirmed =>
        /\ signing[msg[r]] # "none"
        /\ \A q \in Rows : status[q] # "absent" /\ msg[q] = msg[r] => q = r

\* Confirmations: one row each, pasted at most once, and never without a trace in
\* attempted.
OnceOK ==
    /\ OneRowOK
    /\ \A r \in Rows : status[r] = "absent" => got[r] = 0
    /\ \A r \in Rows : status[r] # "absent" /\ msg[r] \in Confirmed /\ got[r] # 0 =>
          got[r] = 1 /\ msg[r] \in attempted
    /\ pc[Drain] \in {"ready", "gate"} /\ msg[cur] \in Confirmed => msg[cur] \notin attempted
    /\ pc[Drain] = "paste" /\ msg[cur] \in Confirmed => msg[cur] \in attempted
    /\ pc[Drain] \in Passed \ {"finish"} /\ msg[cur] \in Confirmed => got[cur] = 0
    /\ pc[Drain] = "finish" /\ out[Drain] \in {"failed", "refused"} /\ msg[cur] \in Confirmed
          => got[cur] = 0

-----------------------------------------------------------------------------
\* What changes the attempts, the receipts and the number of pastes; what a crash or a
\* sweep cut off stays cut off.
LEMMA OnceFrame ==
    ASSUME [Next]_vars
    PROVE  /\ RecordAttempt \/ FinishDrain \/ UNCHANGED attempted
           /\ FinishDrain \/ AckInbox \/ UNCHANGED recorded
           /\ Paste(Drain) \/ (\E p \in Senders : FinishSend(p)) \/ UNCHANGED got
           /\ cutOff \subseteq cutOff'
<1> DEFINE Fixed == UNCHANGED <<attempted, got, recorded>> /\ cutOff \subseteq cutOff'
<1> USE DEF keys, history
<1>1. ASSUME NEW p \in Senders, NEW m \in Direct \cup Comments, Send(p, m) PROVE Fixed
  BY <1>1 DEF Send
<1>2. ASSUME NEW p, Acquire(p) \/ CheckHeld(p) \/ CheckReady(p) \/ CheckGate(p) PROVE Fixed
  BY <1>2 DEF Acquire, CheckHeld, CheckReady, CheckGate
<1>3. ASSUME NEW p \in Senders, Paste(p) PROVE Fixed
  BY <1>3, Distinct DEF Paste
<1>4. ASSUME Paste(Drain) PROVE UNCHANGED <<attempted, recorded, cutOff>>
  BY <1>4 DEF Paste
<1>5. ASSUME NEW p, FinishSend(p) PROVE UNCHANGED <<attempted, recorded, cutOff>>
  BY <1>5 DEF FinishSend
<1>6. CASE StartDrain \/ CheckRegistration \/ CheckLease \/ TakeGuard \/ CheckConfirmed \/ BatchDone
  <2>1. Fixed
    BY <1>6 DEF StartDrain, CheckRegistration, CheckLease, TakeGuard, CheckConfirmed, BatchDone
  <2> QED
    BY <2>1
<1>7. CASE MarkOutcome \/ ReleaseBatch \/ SweepLeases \/ SweepExpired \/ IssueClosed \/ Inbox
  <2>1. Fixed
    BY <1>7 DEF MarkOutcome, ReleaseBatch, SweepLeases, SweepExpired, IssueClosed, Inbox
  <2> QED
    BY <2>1
<1>8. ASSUME NEW r \in Rows, TakeNext(r) PROVE Fixed
  BY <1>8 DEF TakeNext
<1>9. ASSUME KeyReset \/ \E m \in Confirmed : Admit(m) PROVE Fixed
  BY <1>9 DEF KeyReset, Admit
<1>10. CASE LaunchBegin \/ LaunchBrief \/ LaunchSession \/ AgentMoves \/ Forget \/ ChangeClient
  <2>1. Fixed
    BY <1>10 DEF LaunchBegin, LaunchBrief, LaunchSession, AgentMoves, Forget, ChangeClient
  <2> QED
    BY <2>1
<1>11. CASE Crash \/ TimePasses \/ UNCHANGED vars
  <2>1. Fixed
    BY <1>11 DEF Crash, TimePasses, vars
  <2> QED
    BY <2>1
<1>12. CASE RecordAttempt
  BY <1>12 DEF RecordAttempt
<1>13. CASE FinishDrain
  BY <1>13 DEF FinishDrain
<1>14. CASE AckInbox
  BY <1>14 DEF AckInbox
<1> QED
  BY <1>1, <1>2, <1>3, <1>4, <1>5, <1>6, <1>7, <1>8, <1>9, <1>10, <1>11, <1>12, <1>13, <1>14
     DEF Next, SenderStep, DrainStep, DeliverStep, LauncherStep

\* How the drain comes from the check of a confirmation to the end of its paste.
LEMMA ConfirmedPath ==
    ASSUME RestOK, PlacesOK, BatchOK, [Next]_vars
    PROVE  /\ pc'[Drain] \in {"ready", "gate"} =>
                 \/ pc[Drain] \in {"ready", "gate"}
                 \/ msg[cur] \notin Confirmed
                 \/ pc[Drain] = "confirm" /\ msg[cur] \notin attempted
           /\ pc'[Drain] = "attempt" => pc[Drain] \in {"gate", "attempt"}
           /\ pc'[Drain] = "paste" =>
                 pc[Drain] = "paste" \/ RecordAttempt \/ msg[cur] \notin Confirmed
           /\ pc'[Drain] = "finish" =>
                 (pc[Drain] = "finish" /\ out'[Drain] = out[Drain]) \/ Paste(Drain)
<1> DEFINE Path ==
           /\ pc'[Drain] \in {"ready", "gate"} =>
                 \/ pc[Drain] \in {"ready", "gate"}
                 \/ msg[cur] \notin Confirmed
                 \/ pc[Drain] = "confirm" /\ msg[cur] \notin attempted
           /\ pc'[Drain] = "attempt" => pc[Drain] \in {"gate", "attempt"}
           /\ pc'[Drain] = "paste" =>
                 pc[Drain] = "paste" \/ RecordAttempt \/ msg[cur] \notin Confirmed
           /\ pc'[Drain] = "finish" =>
                 (pc[Drain] = "finish" /\ out'[Drain] = out[Drain]) \/ Paste(Drain)
<1> SUFFICES Path
  OBVIOUS
<1>1. CASE UNCHANGED <<pc[Drain], out[Drain], cur, mine, todo>>
  BY <1>1
<1> USE Distinct DEF RestOK, Goto, Return
<1>2. CASE StartDrain \/ BatchDone \/ MarkOutcome \/ ReleaseBatch \/ Crash
  BY <1>2 DEF StartDrain, BatchDone, MarkOutcome, ReleaseBatch, Crash
<1>3. CASE Acquire(Drain) \/ Paste(Drain)
  BY <1>3 DEF Acquire, Paste
<1>4. CASE CheckReady(Drain) \/ CheckGate(Drain)
  BY <1>4 DEF CheckReady, CheckGate, Defer
<1>5. CASE RecordAttempt \/ TakeGuard
  BY <1>5 DEF RecordAttempt, TakeGuard
<1>6. CASE CheckRegistration
  BY <1>6 DEF CheckRegistration
<1>7. CASE CheckLease
  BY <1>7 DEF CheckLease, BatchOK
<1>8. CASE CheckConfirmed
  BY <1>8 DEF CheckConfirmed
<1>9. ASSUME NEW r \in Rows, TakeNext(r) PROVE Path
  BY <1>9 DEF TakeNext
<1>10. CASE FinishDrain
  BY <1>10 DEF FinishDrain
<1> QED
  BY <1>1, <1>2, <1>3, <1>4, <1>5, <1>6, <1>7, <1>8, <1>9, <1>10, OthersKeepDrain
     DEF Next, DrainStep, DeliverStep

\* A step counts at most one more paste of a row that exists: the drain's.
LEMMA GotStep ==
    ASSUME TypeOK, PlacesOK, [Next]_vars, NEW r \in Rows
    PROVE  /\ status[r] = "absent" /\ status'[r] = "absent" => got'[r] = got[r] \/ Paste(Drain)
           /\ status[r] # "absent" /\ got'[r] # got[r] =>
                 /\ Paste(Drain) /\ r = cur /\ got'[r] = Older(got[r], 1)
                 /\ out'[Drain] \in {"sent", "unsure"} \/ LatePaste
<1>0. RestOK
  BY DEF TypeOK, RestOK
<1> USE <1>0 DEF RestOK
<1>1. CASE Paste(Drain)
  <2>1. PICK result \in {"sent", "unsure", "failed", "refused", "error"} :
          /\ out' = [out EXCEPT ![Drain] = result]
          /\ \/ /\ result \in {"sent", "unsure"} \/ LatePaste
                /\ got' = [got EXCEPT ![cur] = Older(@, 1)]
             \/ UNCHANGED got
    BY <1>1 DEF Paste
  <2>2. out'[Drain] = result
    BY <2>1, Distinct
  <2> QED
    BY <1>1, <2>1, <2>2
<1>2. ASSUME NEW p \in Senders, FinishSend(p) PROVE status'[r] # "absent" \/ got'[r] = got[r]
  BY <1>2 DEF FinishSend
<1>3. ASSUME NEW p \in Senders, FinishSend(p), status[r] # "absent" PROVE got'[r] = got[r]
  BY <1>3 DEF FinishSend
<1> QED
  BY <1>1, <1>2, <1>3, OnceFrame

-----------------------------------------------------------------------------
\* A confirmation is admitted once, with its row.
LEMMA OneRowKept ==
    ASSUME TypeOK, PlacesOK, BatchOK, LaunchOK, OneRowOK, [Next]_vars
    PROVE  OneRowOK'
<1>0. RestOK /\ QTypeOK
  BY DEF TypeOK, RestOK
<1>t. \A r \in Rows : RowKept(r)
  BY TableKept
<1>1. ASSUME NEW r \in Rows, status'[r] # "absent", msg'[r] \in Confirmed
      PROVE  signing'[msg'[r]] # "none"
  <2>1. ASSUME NEW m \in Confirmed, signing[m] # "none" PROVE signing'[m] # "none"
    BY <1>0, <2>1, Frame DEF RestOK, KeyReset, Admit
  <2>2. CASE status[r] = "absent"
    <3>1. Admit(msg'[r])
      BY <1>1, <2>2, Inserted, QueueAssumption DEF Direct
    <3> QED
      BY <1>0, <1>1, <3>1 DEF Admit, RestOK
  <2>3. CASE status[r] # "absent"
    BY <1>1, <1>t, <2>1, <2>3 DEF RowKept, OneRowOK
  <2> QED
    BY <2>2, <2>3
<1>2. ASSUME NEW r \in Rows, NEW q \in Rows, status'[r] # "absent", status'[q] # "absent",
             msg'[r] \in Confirmed, msg'[q] = msg'[r]
      PROVE  q = r
  <2>1. CASE status[r] # "absent" /\ status[q] # "absent"
    BY <1>2, <1>t, <2>1 DEF RowKept, OneRowOK
  <2>2. ASSUME NEW x \in Rows, NEW y \in Rows, status[x] = "absent", status'[x] # "absent",
               status'[y] # "absent", msg'[x] = msg'[y], msg'[x] \in Confirmed, x # y
        PROVE  FALSE
    <3>1. Admit(msg'[x])
      BY <2>2, Inserted, QueueAssumption DEF Direct
    <3>2. status[y] # "absent"
      BY <1>0, <2>2, <3>1 DEF Admit, EnqueueNew, Insert, QTypeOK
    <3>3. signing[msg[y]] # "none" /\ msg[y] = msg'[x]
      BY <1>t, <2>2, <3>2 DEF RowKept, OneRowOK
    <3> QED
      BY <3>1, <3>3 DEF Admit
  <2> QED
    BY <1>2, <2>1, <2>2
<1> QED
  BY <1>1, <1>2 DEF OneRowOK

\* Confirmations keep one row each, and every paste of one leaves its trace.
LEMMA OnceKept ==
    ASSUME LatePaste = FALSE, TypeOK, PlacesOK, BatchOK, LaunchOK, OnceOK, [Next]_vars
    PROVE  OnceOK'
<1>0. RestOK /\ QTypeOK
  BY DEF TypeOK, RestOK
<1>t. \A r \in Rows : RowKept(r)
  BY TableKept
<1>p. /\ Passed = {"ready", "gate", "attempt", "paste", "finish"}
      /\ PrePaste = {"ready", "gate", "attempt", "paste"}
      /\ Passed \ {"finish"} = PrePaste
  BY DEF Passed, PrePaste
\* The row the drain delivers, before and after the step.
<1>c. ASSUME pc'[Drain] \in Passed
      PROVE  /\ cur' = cur /\ cur \in Rows /\ status[cur] # "absent" /\ msg'[cur] = msg[cur]
             /\ pc[Drain] \in Passed \cup {"leased", "confirm"}
  <2>1. cur' = cur /\ pc[Drain] \in Passed \cup {"leased", "confirm"}
    BY <1>0, <1>p, <1>c, DrainEnters
  <2>2. cur \in Rows /\ status[cur] # "absent"
    BY <1>0, <2>1 DEF BatchOK, RestOK, WithRow, Unchecked
  <2> QED
    BY <1>t, <2>1, <2>2 DEF RowKept
<1>1. OneRowOK'
  BY OneRowKept DEF OnceOK
<1>2. ASSUME NEW r \in Rows, status'[r] = "absent" PROVE got'[r] = 0
  <2>1. status[r] = "absent"
    BY <1>2, <1>t DEF RowKept
  <2>2. Paste(Drain) => r # cur
    BY <1>0, <2>1, Distinct DEF Paste, BatchOK, RestOK, WithRow, Passed
  <2>3. Paste(Drain) => got'[r] = got[r]
    BY <1>0, <2>2 DEF Paste, RestOK
  <2> QED
    BY <1>2, <2>1, <2>3, GotStep DEF OnceOK
\* A row that was pasted, and the trace of it.
<1>3. ASSUME NEW r \in Rows, status'[r] # "absent", msg'[r] \in Confirmed, got'[r] # 0
      PROVE  got'[r] = 1 /\ msg'[r] \in attempted'
  <2>1. status[r] # "absent" /\ msg'[r] = msg[r]
    <3>1. CASE status[r] = "absent"
      <4>1. Admit(msg'[r])
        BY <1>3, <3>1, Inserted, QueueAssumption DEF Direct
      <4> QED
        BY <1>3, <3>1, <4>1 DEF Admit, history, OnceOK
    <3> QED
      BY <1>t, <3>1 DEF RowKept
  <2>2. CASE got'[r] = got[r]
    <3>1. got[r] = 1 /\ msg[r] \in attempted
      BY <1>3, <2>1, <2>2 DEF OnceOK
    <3>2. CASE FinishDrain
      <4>1. cur \in Rows /\ status[cur] # "absent"
        BY <1>0, <3>2 DEF FinishDrain, BatchOK, RestOK, WithRow, Passed
      <4>2. out[Drain] \in {"failed", "refused"} => msg[cur] # msg[r]
        BY <1>3, <2>1, <3>1, <3>2, <4>1 DEF FinishDrain, OnceOK, OneRowOK
      <4> QED
        BY <2>1, <2>2, <3>1, <3>2, <4>2 DEF FinishDrain
    <3>3. CASE RecordAttempt
      BY <2>1, <2>2, <3>1, <3>3 DEF RecordAttempt
    <3> QED
      BY <2>1, <2>2, <3>1, <3>2, <3>3, OnceFrame
  <2>3. CASE got'[r] # got[r]
    <3>1. Paste(Drain) /\ r = cur /\ got'[r] = Older(got[r], 1)
      BY <2>1, <2>3, GotStep
    <3>2. pc[Drain] = "paste" /\ UNCHANGED attempted
      BY <3>1 DEF Paste, keys
    <3>3. got[r] = 0 /\ msg[r] \in attempted
      BY <1>3, <1>p, <2>1, <3>1, <3>2 DEF OnceOK
    <3> QED
      BY <2>1, <3>1, <3>2, <3>3 DEF Older
  <2> QED
    BY <2>2, <2>3
\* Before its paste a confirmation has no trace of another one.
<1>4. ASSUME pc'[Drain] \in {"ready", "gate"}, msg'[cur'] \in Confirmed
      PROVE  msg'[cur'] \notin attempted'
  <2>1. cur' = cur /\ msg'[cur] = msg[cur]
    BY <1>4, <1>c, <1>p
  <2>2. msg[cur] \notin attempted
    BY <1>0, <1>4, <2>1, ConfirmedPath DEF OnceOK
  <2>3. ~RecordAttempt /\ ~FinishDrain
    BY <1>0, <1>4, Distinct DEF RecordAttempt, FinishDrain, Return, Goto, RestOK
  <2> QED
    BY <2>1, <2>2, <2>3, OnceFrame
<1>5. ASSUME pc'[Drain] = "paste", msg'[cur'] \in Confirmed PROVE msg'[cur'] \in attempted'
  <2>1. cur' = cur /\ msg'[cur] = msg[cur]
    BY <1>5, <1>c, <1>p
  <2>2. CASE RecordAttempt
    BY <2>1, <2>2 DEF RecordAttempt
  <2>3. CASE pc[Drain] = "paste"
    <3>1. ~RecordAttempt /\ ~FinishDrain /\ msg[cur] \in attempted
      BY <1>5, <2>1, <2>3 DEF RecordAttempt, FinishDrain, OnceOK
    <3> QED
      BY <2>1, <3>1, OnceFrame
  <2> QED
    BY <1>0, <1>5, <2>1, <2>2, <2>3, ConfirmedPath
<1>6. ASSUME pc'[Drain] \in PrePaste, msg'[cur'] \in Confirmed PROVE got'[cur'] = 0
  <2>1. /\ cur' = cur /\ msg'[cur] = msg[cur] /\ cur \in Rows /\ status[cur] # "absent"
        /\ pc[Drain] \in PrePaste \cup {"leased", "confirm"}
    BY <1>0, <1>6, <1>c, <1>p, DrainEnters
  <2>2. got[cur] = 0
    <3>1. CASE pc[Drain] \in PrePaste
      BY <1>6, <1>p, <2>1, <3>1 DEF OnceOK
    <3>2. CASE pc[Drain] = "confirm"
      <4>1. msg[cur] \notin attempted
        BY <1>0, <1>6, <1>p, <2>1, <3>2, ConfirmedPath DEF RecordAttempt
      <4> QED
        BY <1>6, <2>1, <4>1 DEF OnceOK
    <3>3. CASE pc[Drain] = "leased"
      BY <1>6, <2>1, <3>3 DEF BatchOK
    <3> QED
      BY <2>1, <3>1, <3>2, <3>3
  <2>3. ~Paste(Drain)
    BY <1>0, <1>6, <1>p, Distinct DEF Paste, Goto, RestOK
  <2> QED
    BY <2>1, <2>2, <2>3, GotStep
<1>7. ASSUME pc'[Drain] = "finish", out'[Drain] \in {"failed", "refused"}, msg'[cur'] \in Confirmed
      PROVE  got'[cur'] = 0
  <2>1. /\ cur' = cur /\ msg'[cur] = msg[cur] /\ cur \in Rows /\ status[cur] # "absent"
    BY <1>7, <1>c, <1>p
  <2>2. got'[cur] = got[cur]
    BY <1>7, <2>1, GotStep
  <2>3. CASE pc[Drain] = "finish" /\ out'[Drain] = out[Drain]
    BY <1>7, <2>1, <2>2, <2>3 DEF OnceOK
  <2>4. CASE Paste(Drain)
    BY <1>7, <1>p, <2>1, <2>2, <2>4 DEF OnceOK, Paste
  <2> QED
    BY <1>0, <1>7, <2>3, <2>4, ConfirmedPath
<1> QED
  BY <1>p, <1>1, <1>2, <1>3, <1>4, <1>5, <1>6, <1>7 DEF OnceOK

\* A confirmation has one row and one paste, and every paste leaves its trace.
LEMMA OnceInvariant == ASSUME LatePaste = FALSE PROVE Spec => []OnceOK
<1>1. Init => OnceOK
  BY Distinct DEF Init, QInit, OnceOK, OneRowOK, Passed, Procs, Deliverers
<1>2. IInv /\ OnceOK /\ [Next]_vars => OnceOK'
  BY OnceKept DEF IInv
<1> QED
  BY <1>1, <1>2, InductiveInvariant, PTL DEF Spec

\* An owner-confirmed message is never pasted twice, whatever crashes, lease
\* sweeps, key resets and later drains happen, as long as a paste that was given
\* up on does not run (docs/owner-confirmed-messages.md).
THEOREM PastedOnce == ASSUME LatePaste = FALSE PROVE Spec => []ConfirmedPastedOnce
<1>1. IInv /\ OnceOK => ConfirmedPastedOnce
  <2> SUFFICES ASSUME IInv, OnceOK, NEW r \in Rows, msg[r] \in Confirmed PROVE got[r] <= 1
    BY DEF ConfirmedPastedOnce
  <2> QED
    BY DEF OnceOK
<1> QED
  BY <1>1, InductiveInvariant, OnceInvariant, PTL

-----------------------------------------------------------------------------
(***************************************************************************)
(* A direct message reaches its agent                                      *)
(***************************************************************************)
Reached(r) == got[r] > 0 \/ r \in shown

PasteOutcome == {"sent", "unsure", "failed", "refused", "error"}

\* A registration is not given a second time; what counts as delivered was pasted or
\* shown; what a drain is about to paste still waits.
ReachOK ==
    /\ pc[Drain] = "finish" => out[Drain] \in PasteOutcome
    /\ \A r \in Rows : status[r] # "absent" => owner[r] <= registration
    /\ pc[Drain] \in {"finish", "mark"} /\ out[Drain] = "sent" => got[cur] > 0
    /\ pc[Drain] = "mark" /\ out[Drain] = "already" =>
          status[cur] # "in_progress" \/ Reached(cur)
    /\ \A m \in recorded : /\ signing[m] # "none"
                           /\ \A r \in Rows : status[r] # "absent" /\ msg[r] = m => Reached(r)
    /\ pc[Drain] \in PrePaste /\ msg[cur] \in DirectKind => status[cur] \in Open

-----------------------------------------------------------------------------
(***************************************************************************)
(* What the steps do to a row                                              *)
(***************************************************************************)
\* The steps that put an end to a direct message's row.
EndsRow(r) ==
    \/ MarkOutcome /\ r = cur /\ status[r] = "in_progress" /\ out[Drain] \in {"sent", "already"}
    \/ CheckRegistration /\ r = cur /\ owner[r] # registration
    \/ AckInbox /\ r \in shown /\ status'[r] = "delivered"
    \/ LaunchBegin /\ Active(r) /\ msg[r] \in Briefs
    \/ KeyReset /\ msg[r] \in Gone
    \/ Forget /\ status[r] # "absent"

\* The steps that take a direct message's row out of terminal delivery.
LeavesQueue(r) ==
    \/ EndsRow(r) \/ Inbox \/ CheckConfirmed \/ FinishDrain
    \/ \E p \in Senders : FinishSend(p)

\* How a row moves: it is inserted active, leased by the start of a drain, put back by a
\* sweep or the end of a drain, and taken out by few steps.
Moves(r) ==
    /\ status[r] = "absent" => status'[r] \in {"absent", "pending", "checkpoint", "uncertain"}
    /\ status[r] = "absent" /\ status'[r] # "absent" =>
          owner'[r] = registration /\ UNCHANGED registration
    /\ status[r] # "in_progress" /\ status'[r] = "in_progress" => StartDrain
    /\ status[r] = "in_progress" /\ status'[r] = "pending" => ReleaseBatch \/ SweepLeases
    /\ status[r] \in Open /\ status'[r] \notin Open /\ msg[r] \in DirectKind => LeavesQueue(r)
    /\ status[r] \notin Finished /\ status'[r] \in Finished /\ msg[r] \in DirectKind => EndsRow(r)

\* An inserted or upgraded row is active.
LEMMA EnqueueMoves ==
    ASSUME QTypeOK, NEW m, NEW s \in {"pending", "checkpoint", "uncertain"}, Enqueue(m, s),
           NEW r \in Rows
    PROVE  /\ status[r] = "absent" => status'[r] \in {"absent", "pending", "checkpoint", "uncertain"}
           /\ status[r] = "absent" /\ status'[r] # "absent" =>
                 owner'[r] = registration /\ UNCHANGED registration
           /\ status'[r] = "in_progress" => status[r] = "in_progress"
           /\ status[r] = "in_progress" => status'[r] # "pending"
           /\ status[r] \in Open /\ s = "pending" => status'[r] \in Open
           /\ status'[r] \in Finished => status[r] \in Finished
<1>1. CASE EnqueueNew(m, s)
  BY <1>1 DEF EnqueueNew, Insert, NextRow, QTypeOK, Open, Finished
<1>2. CASE EnqueueAgain(m, s)
  BY <1>2 DEF EnqueueAgain, Upgraded, Active, ActiveStatus, QTypeOK, Open, Finished
<1> QED
  BY <1>1, <1>2 DEF Enqueue

\* Every step of the system moves the rows so.
LEMMA RowMoves ==
    ASSUME TypeOK, PlacesOK, BatchOK, [Next]_vars, NEW r \in Rows
    PROVE  Moves(r)
<1>0. QTypeOK /\ RestOK
  BY DEF TypeOK, RestOK
<1>i. /\ UNCHANGED status => Moves(r)
      /\ Open = {"pending", "in_progress"} /\ Finished = {"delivered", "expired"}
  BY DEF Moves, Open, Finished
<1> USE <1>0, <1>i
<1>1. ASSUME NEW p \in Senders, NEW m \in Direct \cup Comments, Send(p, m) PROVE Moves(r)
  BY <1>1 DEF Send, qvars
<1>2. ASSUME NEW p \in Deliverers, Acquire(p) \/ CheckHeld(p) \/ Paste(p) PROVE Moves(r)
  BY <1>2 DEF Acquire, CheckHeld, Paste, qvars
<1>3. ASSUME NEW p \in Deliverers, CheckReady(p) \/ CheckGate(p) PROVE Moves(r)
  <2>1. UNCHANGED qvars \/ Enqueue(sending[p], "pending")
    BY <1>3 DEF CheckReady, CheckGate, Defer
  <2> QED
    BY <2>1, EnqueueMoves DEF Moves, qvars
<1>4. ASSUME NEW p \in Senders, FinishSend(p) PROVE Moves(r)
  <2>1. \/ UNCHANGED qvars
        \/ out[p] \in {"unsure", "failed", "refused"} /\ Enqueue(sending[p], StoredAs(out[p]))
    BY <1>4 DEF FinishSend
  <2>2. CASE UNCHANGED qvars
    BY <2>2 DEF qvars
  <2>3. CASE UNCHANGED qvars \/ Enqueue(sending[p], StoredAs(out[p]))
    BY <1>4, <2>1, <2>2, StoredStatus, EnqueueMoves DEF Moves, LeavesQueue
  <2> QED
    BY <2>1, <2>3
<1>5. CASE StartDrain
  BY <1>5 DEF StartDrain, Dequeue, Moves, QTypeOK
<1>6. CASE CheckRegistration
  BY <1>6 DEF CheckRegistration, MarkDelivered, Moves, LeavesQueue, EndsRow, QTypeOK, qvars
<1>7. CASE MarkOutcome
  BY <1>7 DEF MarkOutcome, MarkDelivered, Moves, LeavesQueue, EndsRow, QTypeOK, qvars
<1>8. CASE CheckLease \/ TakeGuard \/ RecordAttempt \/ BatchDone
  BY <1>8 DEF CheckLease, TakeGuard, RecordAttempt, BatchDone, qvars
<1>9. CASE CheckConfirmed \/ FinishDrain
  BY <1>9 DEF CheckConfirmed, FinishDrain, HoldAs, HoldFrom, Moves, LeavesQueue, QTypeOK, qvars
<1>10. ASSUME NEW q \in Rows, TakeNext(q) PROVE Moves(r)
  BY <1>10, QueueAssumption DEF TakeNext, MarkDelivered, Moves, DirectKind, QTypeOK, qvars
<1>11. CASE ReleaseBatch \/ SweepLeases
  BY <1>11 DEF ReleaseBatch, Release, SweepLeases, ExpireStaleLeases, Moves, QTypeOK
<1>12. CASE SweepExpired
  BY <1>12 DEF SweepExpired, ExpirePending, Expiring, NextRow, Moves, QTypeOK
<1>13. CASE IssueClosed
  BY <1>13 DEF IssueClosed, PurgeForIssue, Moves, DirectKind, Active, ActiveStatus, QTypeOK
<1>14. CASE Inbox
  BY <1>14 DEF Inbox, ReadInbox, Moves, LeavesQueue, QTypeOK
<1>15. CASE AckInbox
  <2>1. PICK tokens \in SUBSET shown : Acknowledge(tokens)
    BY <1>15 DEF AckInbox
  <2> QED
    BY <1>15, <2>1 DEF Acknowledge, Held, Moves, LeavesQueue, EndsRow, QTypeOK
<1>16. ASSUME NEW m \in Confirmed, Admit(m) PROVE Moves(r)
  <2>1. Enqueue(m, "pending")
    BY <1>16 DEF Admit, Enqueue
  <2> QED
    BY <2>1, EnqueueMoves DEF Moves
<1>17. CASE KeyReset
  <2>1. Revoke(Gone, attempted)
    BY <1>17 DEF KeyReset
  <2> QED
    BY <1>17, <2>1 DEF Revoke, Moves, LeavesQueue, EndsRow, QTypeOK
<1>18. CASE LaunchBegin
  BY <1>18 DEF LaunchBegin, RetirePendingBriefs, Moves, LeavesQueue, EndsRow, Active,
               ActiveStatus, QTypeOK
<1>19. CASE LaunchBrief
  <2>1. UNCHANGED qvars \/ \E b \in Briefs : Enqueue(b, "pending")
    BY <1>19 DEF LaunchBrief, Enqueue
  <2> QED
    BY <2>1, EnqueueMoves DEF Moves, qvars
<1>20. CASE Forget
  BY <1>20 DEF Forget, Reregister, Moves, LeavesQueue, EndsRow, Active, ActiveStatus, QTypeOK
<1>21. ASSUME \/ LaunchSession \/ AgentMoves \/ ChangeClient \/ Crash \/ TimePasses
              \/ UNCHANGED vars
       PROVE  Moves(r)
  BY <1>21 DEF LaunchSession, AgentMoves, ChangeClient, SetInboxOnly, Crash, TimePasses, Tick,
               vars, qvars
<1> QED
  BY <1>1, <1>2, <1>3, <1>4, <1>5, <1>6, <1>7, <1>8, <1>9, <1>10, <1>11, <1>12, <1>13, <1>14,
     <1>15, <1>16, <1>17, <1>18, <1>19, <1>20, <1>21, Distinct
     DEF Next, SenderStep, DrainStep, DeliverStep, LauncherStep

\* How the drain comes to a delivered outcome.
LEMMA DrainOutcome ==
    ASSUME RestOK, PlacesOK, pc[Drain] = "finish" => out[Drain] \in PasteOutcome, [Next]_vars
    PROVE  /\ pc'[Drain] \in {"finish", "mark"} /\ out'[Drain] = "sent" =>
                 /\ cur' = cur
                 /\ \/ pc[Drain] = "mark" /\ out[Drain] = "sent" /\ pc'[Drain] = "mark"
                    \/ pc[Drain] = "finish" /\ out[Drain] = "sent"
                    \/ Paste(Drain) /\ pc'[Drain] = "finish"
           /\ pc'[Drain] = "mark" /\ out'[Drain] = "already" =>
                 /\ cur' = cur
                 /\ \/ pc[Drain] = "mark" /\ out[Drain] = "already"
                    \/ CheckRegistration /\ MarkDelivered(cur)
                    \/ /\ UNCHANGED <<qvars, got, shown>> /\ pc[Drain] = "confirm"
                       /\ status[cur] # "in_progress" \/ msg[cur] \in recorded
<1> DEFINE Sent == pc'[Drain] \in {"finish", "mark"} /\ out'[Drain] = "sent" =>
                 /\ cur' = cur
                 /\ \/ pc[Drain] = "mark" /\ out[Drain] = "sent" /\ pc'[Drain] = "mark"
                    \/ pc[Drain] = "finish" /\ out[Drain] = "sent"
                    \/ Paste(Drain) /\ pc'[Drain] = "finish"
           Already == pc'[Drain] = "mark" /\ out'[Drain] = "already" =>
                 /\ cur' = cur
                 /\ \/ pc[Drain] = "mark" /\ out[Drain] = "already"
                    \/ CheckRegistration /\ MarkDelivered(cur)
                    \/ /\ UNCHANGED <<qvars, got, shown>> /\ pc[Drain] = "confirm"
                       /\ status[cur] # "in_progress" \/ msg[cur] \in recorded
<1> SUFFICES Sent /\ Already
  OBVIOUS
<1>1. CASE UNCHANGED <<pc[Drain], out[Drain], cur, mine, todo>>
  BY <1>1
<1> USE Distinct DEF RestOK, PlacesOK, Goto, Return
<1>a. "sent" # "already" /\ WithRow \cup {"idle", "next", "release"} =
        {"registration", "guard", "confirm", "leased", "ready", "gate", "attempt", "paste",
         "finish", "lock", "mark", "idle", "next", "release"}
  BY DEF WithRow, Unchecked, Passed
<1>2. CASE StartDrain \/ BatchDone \/ MarkOutcome \/ ReleaseBatch \/ Crash
  BY <1>2 DEF StartDrain, BatchDone, MarkOutcome, ReleaseBatch, Crash
<1>3. CASE Acquire(Drain)
  BY <1>3 DEF Acquire
<1>4. CASE Paste(Drain)
  BY <1>4 DEF Paste
<1>5. CASE CheckReady(Drain) \/ CheckGate(Drain)
  BY <1>5 DEF CheckReady, CheckGate, Defer
<1>6. CASE RecordAttempt \/ TakeGuard
  BY <1>6 DEF RecordAttempt, TakeGuard
<1>7. CASE CheckRegistration
  BY <1>7 DEF CheckRegistration
<1>8. CASE CheckLease
  BY <1>8 DEF CheckLease
<1>9. CASE CheckConfirmed
  BY <1>9 DEF CheckConfirmed, history
<1>10. ASSUME NEW r \in Rows, TakeNext(r) PROVE Sent /\ Already
  BY <1>10 DEF TakeNext
<1>11. CASE FinishDrain
  BY <1>11 DEF FinishDrain, PasteOutcome
<1> QED
  BY <1>1, <1>2, <1>3, <1>4, <1>5, <1>6, <1>7, <1>8, <1>9, <1>10, <1>11, OthersKeepDrain
     DEF Next, DrainStep, DeliverStep

-----------------------------------------------------------------------------
(***************************************************************************)
(* A message that reached the agent has reached it, and an authority that  *)
(* ended has ended                                                         *)
(***************************************************************************)
\* Pastes and what the inbox showed are not taken back.
LEMMA ReachedStays ==
    ASSUME TypeOK, PlacesOK, [Next]_vars, NEW r \in Rows, status[r] # "absent"
    PROVE  /\ got[r] > 0 => got'[r] > 0
           /\ Reached(r) => Reached(r)'
<1>1. got[r] > 0 => got'[r] > 0
  BY GotStep DEF TypeOK, Older
<1>2. r \in shown => r \in shown'
  BY Frame DEF Inbox
<1> QED
  BY <1>1, <1>2 DEF Reached

\* A revoked confirmation stays revoked, and a signed one stays signed.
LEMMA SigningGrows ==
    ASSUME TypeOK, [Next]_vars, NEW m \in Confirmed
    PROVE  /\ signing[m] = "revoked" => signing'[m] = "revoked"
           /\ signing[m] # "none" => signing'[m] # "none"
  BY Frame DEF TypeOK, KeyReset, Admit

\* The registration of a name, the launch of an agent and the reset of a key are not undone.
LEMMA VoidStays ==
    ASSUME TypeOK, PlacesOK, BatchOK, LaunchOK, [Next]_vars,
           NEW r \in Rows, status[r] # "absent", owner[r] <= registration, Voided(r)
    PROVE  Voided(r)'
<1>0. QTypeOK /\ RestOK /\ msg'[r] = msg[r] /\ owner'[r] = owner[r]
  BY TableKept DEF TypeOK, RestOK, RowKept
<1>1. ASSUME owner[r] # registration PROVE owner'[r] # registration'
  BY <1>0, <1>1, QueueAssumption, Frame DEF Forget, Reregister, QTypeOK
<1>2. ASSUME msg[r] \in Confirmed, signing[msg[r]] = "revoked"
      PROVE  signing'[msg'[r]] = "revoked"
  BY <1>0, <1>2, SigningGrows
<1>3. ASSUME briefOf[r] < launches PROVE briefOf'[r] < launches'
  <2>1. launches' \in Nat /\ launches' >= launches
    BY <1>0, Frame DEF LaunchBegin, RestOK
  <2>2. briefOf'[r] = briefOf[r]
    <3>1. LaunchBrief => UNCHANGED briefOf \/ status'[r] = status[r]
      BY <1>0 DEF LaunchBrief, EnqueueNew, Insert, NextRow, QTypeOK
    <3> QED
      BY <1>0, <3>1, Frame DEF LaunchBrief, RestOK
  <2> QED
    BY <1>0, <1>3, <2>1, <2>2 DEF RestOK
<1> QED
  BY <1>0, <1>1, <1>2, <1>3 DEF Voided

\* A drain with a row in hand has one that exists, and its message does not change.
LEMMA RowInHand ==
    ASSUME TypeOK, PlacesOK, BatchOK, LaunchOK, [Next]_vars, pc[Drain] \in WithRow
    PROVE  /\ cur \in Rows /\ status[cur] # "absent" /\ status'[cur] # "absent"
           /\ msg'[cur] = msg[cur] /\ owner'[cur] = owner[cur]
  BY TableKept DEF TypeOK, BatchOK, RowKept

\* A row about to be pasted waits: what could take it out of terminal delivery waits for
\* the session lock or, for a confirmation, the revocation guard.
LEMMA StillWaiting ==
    ASSUME IInv, ReachOK, [Next]_vars, pc'[Drain] \in PrePaste, msg'[cur'] \in DirectKind
    PROVE  status'[cur'] \in Open
<1> USE DEF IInv
<1>0. RestOK /\ QTypeOK
  BY DEF TypeOK, RestOK
<1>a. PrePaste = {"ready", "gate", "attempt", "paste"} /\ PrePaste \subseteq WithRow
      /\ PrePaste \subseteq Inside /\ PrePaste \subseteq Checked /\ "finish" \in Inside
      /\ {"leased", "confirm"} \subseteq WithRow
  BY DEF PrePaste, Passed, WithRow, Inside, Checked, Unchecked
<1>1. /\ cur' = cur
      /\ \/ pc[Drain] \in PrePaste
         \/ pc[Drain] \in {"leased", "confirm"} /\ status[cur] = "in_progress" /\ UNCHANGED qvars
  BY <1>0, DrainEnters
<1>2. CASE status[cur] = "in_progress" /\ UNCHANGED qvars
  BY <1>1, <1>2 DEF qvars, Open
<1>3. CASE pc[Drain] \in PrePaste
  <2>1. cur \in Rows /\ status[cur] # "absent" /\ msg'[cur] = msg[cur]
    BY <1>a, <1>3, RowInHand
  <2>2. status[cur] \in Open
    BY <1>1, <1>3, <2>1 DEF ReachOK
  <2>3. lock = Drain /\ ~Inbox /\ ~Forget /\ ~LaunchBegin
    BY <1>a, <1>3, Distinct, InsideExcludes DEF LockHeld
  <2>4. ~FinishDrain /\ ~CheckConfirmed /\ ~MarkOutcome /\ ~CheckRegistration
    BY <1>a, <1>3 DEF FinishDrain, CheckConfirmed, MarkOutcome, CheckRegistration
  <2>5. ASSUME NEW p \in Senders, FinishSend(p) PROVE FALSE
    BY <1>a, <2>3, <2>5, Distinct DEF FinishSend, LockHeld
  <2>6. ASSUME KeyReset, msg[cur] \in Gone PROVE FALSE
    <3>1. msg[cur] \in Confirmed
      BY <2>6 DEF Gone, Ending
    <3>2. guard = Drain
      BY <1>3, <3>1 DEF AuthorityOK, PrePaste
    <3> QED
      BY <2>6, <3>2, Distinct DEF KeyReset
  <2>7. ~(AckInbox /\ cur \in shown)
    BY <1>3 DEF ShownOK, PrePaste
  <2>8. ~LeavesQueue(cur)
    BY <2>3, <2>4, <2>5, <2>6, <2>7 DEF LeavesQueue, EndsRow
  <2> QED
    BY <1>1, <2>1, <2>2, <2>8, RowMoves DEF Moves
<1> QED
  BY <1>1, <1>2, <1>3

\* What a delivery counts as delivered was pasted or shown.
LEMMA ReachKept == ASSUME IInv, OneRowOK, ReachOK, [Next]_vars PROVE ReachOK'
<1> USE DEF IInv
<1>0. RestOK /\ QTypeOK
  BY DEF TypeOK, RestOK
<1>a. {"registration", "confirm", "finish", "mark", "paste"} \subseteq WithRow
  BY DEF WithRow, Unchecked, Passed
<1>t. \A r \in Rows : RowKept(r) /\ Moves(r)
  BY TableKept, RowMoves
<1>1. ASSUME pc'[Drain] = "finish" PROVE out'[Drain] \in PasteOutcome
  BY <1>0, <1>1, ConfirmedPath, Distinct DEF ReachOK, Paste, PasteOutcome, RestOK
<1>2. ASSUME NEW r \in Rows, status'[r] # "absent" PROVE owner'[r] <= registration'
  <2>1. CASE status[r] = "absent"
    BY <1>0, <1>2, <1>t, <2>1 DEF Moves, QTypeOK
  <2>2. CASE status[r] # "absent"
    <3>1. owner'[r] = owner[r] /\ owner[r] <= registration
      BY <1>t, <2>2 DEF RowKept, ReachOK
    <3> QED
      BY <1>0, <3>1, Frame, QueueAssumption DEF Forget, Reregister, QTypeOK
  <2> QED
    BY <2>1, <2>2
<1>3. ASSUME pc'[Drain] \in {"finish", "mark"}, out'[Drain] = "sent" PROVE got'[cur'] > 0
  <2>1. /\ cur' = cur
        /\ \/ pc[Drain] \in {"finish", "mark"} /\ out[Drain] = "sent"
           \/ Paste(Drain)
    BY <1>0, <1>3, DrainOutcome DEF ReachOK
  <2>2. pc[Drain] \in WithRow
    BY <1>a, <2>1 DEF Paste
  <2>3. CASE Paste(Drain)
    BY <1>0, <1>3, <2>1, <2>2, <2>3, RowInHand, Distinct DEF Paste, Older, RestOK
  <2> QED
    BY <2>1, <2>2, <2>3, RowInHand, ReachedStays DEF ReachOK
<1>4. ASSUME pc'[Drain] = "mark", out'[Drain] = "already"
      PROVE  status'[cur'] # "in_progress" \/ Reached(cur)'
  <2>1. /\ cur' = cur
        /\ \/ pc[Drain] = "mark" /\ out[Drain] = "already"
           \/ CheckRegistration /\ MarkDelivered(cur)
           \/ /\ UNCHANGED <<qvars, got, shown>> /\ pc[Drain] = "confirm"
              /\ status[cur] # "in_progress" \/ msg[cur] \in recorded
    BY <1>0, <1>4, DrainOutcome DEF ReachOK
  <2>2. pc[Drain] \in WithRow
    BY <1>a, <2>1 DEF CheckRegistration
  <2>3. cur \in Rows /\ status[cur] # "absent"
    BY <2>2, RowInHand
  <2>4. ASSUME Reached(cur) PROVE Reached(cur)'
    BY <2>1, <2>3, <2>4, ReachedStays DEF Reached
  <2>5. ASSUME status[cur] # "in_progress" PROVE status'[cur] # "in_progress" \/ StartDrain
    BY <1>t, <2>3, <2>5 DEF Moves
  <2>6. ~StartDrain
    BY <1>0, <1>4, Distinct DEF StartDrain, Goto, RestOK
  <2>7. CASE pc[Drain] = "mark" /\ out[Drain] = "already"
    BY <2>1, <2>4, <2>5, <2>6, <2>7 DEF ReachOK
  <2>8. CASE MarkDelivered(cur)
    BY <1>0, <2>1, <2>3, <2>8 DEF MarkDelivered, QTypeOK
  <2>9. CASE msg[cur] \in recorded
    BY <2>3, <2>4, <2>9 DEF ReachOK
  <2> QED
    BY <2>1, <2>5, <2>6, <2>7, <2>8, <2>9
<1>5. ASSUME NEW m \in recorded'
      PROVE  signing'[m] # "none" /\ \A r \in Rows : status'[r] # "absent" /\ msg'[r] = m => Reached(r)'
  <2> DEFINE Known == signing[m] # "none"
                      /\ \A r \in Rows : status[r] # "absent" /\ msg[r] = m => Reached(r)'
  <2>1. m \in Confirmed
    BY <1>5, RestKept DEF RestOK
  <2>2. ASSUME m \in recorded PROVE Known
    BY <2>2, ReachedStays DEF ReachOK
  <2>3. ASSUME NEW q \in Rows, status[q] # "absent", msg[q] = m, Reached(q)' PROVE Known
    BY <2>1, <2>3 DEF OneRowOK
  <2>4. ASSUME FinishDrain, m \notin recorded PROVE Known
    <3>1. m = msg[cur] /\ out[Drain] = "sent" /\ pc[Drain] = "finish"
      BY <1>5, <2>4 DEF FinishDrain
    <3>2. cur \in Rows /\ status[cur] # "absent" /\ got[cur] > 0
      BY <1>a, <3>1, RowInHand DEF ReachOK
    <3> QED
      BY <2>3, <3>1, <3>2, ReachedStays DEF Reached
  <2>5. ASSUME AckInbox, m \notin recorded PROVE Known
    <3>1. PICK r \in shown : Held(r) /\ msg[r] = m
      BY <1>5, <2>5 DEF AckInbox
    <3>2. r \in Rows /\ status[r] # "absent"
      BY <1>0, <3>1 DEF Held, RestOK
    <3> QED
      BY <2>3, <3>1, <3>2, ReachedStays DEF Reached
  <2>6. Known
    BY <1>5, <2>2, <2>4, <2>5, OnceFrame
  <2>7. ASSUME NEW r \in Rows, status'[r] # "absent", msg'[r] = m PROVE Reached(r)'
    <3>1. status[r] # "absent"
      <4> SUFFICES ASSUME status[r] = "absent" PROVE FALSE
        OBVIOUS
      <4>1. Admit(m)
        BY <2>1, <2>7, Inserted, QueueAssumption DEF Direct
      <4> QED
        BY <2>6, <4>1 DEF Admit
    <3> QED
      BY <1>t, <2>6, <2>7, <3>1 DEF RowKept
  <2> QED
    BY <2>1, <2>6, <2>7, SigningGrows
<1>6. pc'[Drain] \in PrePaste /\ msg'[cur'] \in DirectKind => status'[cur'] \in Open
  BY StillWaiting
<1> QED
  BY <1>1, <1>2, <1>3, <1>4, <1>5, <1>6 DEF ReachOK, Reached

\* What a step puts an end to, it puts an end to for one of the four reasons.
LEMMA EndedFor ==
    ASSUME IInv, ReachOK, [Next]_vars, NEW r \in Rows, status[r] # "absent",
           msg[r] \in DirectKind, EndsRow(r)
    PROVE  (status'[r] = "delivered" /\ Reached(r)') \/ Voided(r)'
<1> USE DEF IInv
<1>0. RestOK /\ QTypeOK /\ msg'[r] = msg[r] /\ owner'[r] = owner[r]
  BY TableKept DEF TypeOK, RestOK, RowKept
<1>1. CASE MarkOutcome /\ r = cur /\ status[r] = "in_progress" /\ out[Drain] \in {"sent", "already"}
  <2>1. pc[Drain] = "mark" /\ MarkDelivered(r)
    BY <1>1 DEF MarkOutcome
  <2>2. Reached(r)
    BY <1>1, <2>1 DEF ReachOK, Reached
  <2> QED
    BY <1>0, <1>1, <2>1, <2>2, ReachedStays DEF MarkDelivered, QTypeOK
<1>2. CASE CheckRegistration /\ owner[r] # registration
  BY <1>2, VoidStays DEF ReachOK, Voided
<1>3. CASE AckInbox /\ r \in shown /\ status'[r] = "delivered"
  BY <1>3, ReachedStays DEF Reached
<1>4. CASE LaunchBegin /\ Active(r) /\ msg[r] \in Briefs
  <2>1. briefOf[r] = launches /\ launches' = launches + 1 /\ briefOf' = briefOf
    BY <1>4 DEF BriefOK, LaunchBegin, history
  <2> QED
    BY <1>0, <1>4, <2>1 DEF Voided, RestOK
<1>5. CASE KeyReset /\ msg[r] \in Gone
  BY <1>0, <1>5 DEF KeyReset, Gone, Ending, Voided, RestOK
<1>6. CASE Forget
  BY <1>0, <1>6, QueueAssumption DEF Forget, Reregister, ReachOK, Voided, QTypeOK
<1> QED
  BY <1>1, <1>2, <1>3, <1>4, <1>5, <1>6 DEF EndsRow

\* A direct message that is over was delivered or lost its authority, and stays so.
LEMMA NeverLostKept ==
    ASSUME IInv, ReachOK, DirectNeverLost, [Next]_vars PROVE DirectNeverLost'
<1> USE DEF IInv
<1> SUFFICES ASSUME NEW r \in Rows, msg'[r] \in DirectKind, status'[r] \in Finished
             PROVE  (status'[r] = "delivered" /\ Reached(r)') \/ Voided(r)'
  BY DEF DirectNeverLost, Finished, Reached, Voided
<1>0. QTypeOK
  BY DEF TypeOK
<1>1. status[r] # "absent" /\ msg'[r] = msg[r]
  BY RowMoves, TableKept DEF Moves, RowKept, Finished
<1>2. CASE status[r] \in Finished
  <2>1. status'[r] = status[r]
    BY <1>2, TableKept
  <2>2. (status[r] = "delivered" /\ Reached(r)) \/ Voided(r)
    BY <1>1, <1>2 DEF DirectNeverLost, Finished, Reached, Voided
  <2> QED
    BY <1>1, <2>1, <2>2, ReachedStays, VoidStays DEF ReachOK
<1>3. CASE status[r] \notin Finished
  BY <1>1, <1>3, RowMoves, EndedFor DEF Moves
<1> QED
  BY <1>2, <1>3

-----------------------------------------------------------------------------
(***************************************************************************)
(* A message is pasted again only when its delivery was cut off            *)
(***************************************************************************)
\* The text of the row in hand may be in the terminal, and its row not completed yet.
Uncompleted ==
    \/ pc[Drain] = "finish" /\ out[Drain] \in {"sent", "unsure"}
    \/ pc[Drain] = "mark" /\ out[Drain] = "sent"

\* A row that is delivered although it is leased no longer was swept; a row pasted before
\* and still waiting was cut off, but for the one whose completion comes next.
CutOK ==
    /\ pc[Drain] \in Passed \/ Uncompleted => (status[cur] = "pending" => cur \in cutOff)
    /\ pc[Drain] \in PrePaste => got[cur] = 0 \/ cur \in cutOff
    /\ \A r \in Rows : got[r] > 0 /\ status[r] \in Open =>
          r \in cutOff \/ (r = cur /\ Uncompleted)
    /\ RepeatsOnlyWhenCutOff

\* A row put back to wait while it is delivered was swept.
LEMMA SweptIsCutOff ==
    ASSUME IInv, ReachOK, CutOK, [Next]_vars, (pc[Drain] \in Passed \/ Uncompleted)',
           status'[cur'] = "pending"
    PROVE  cur' \in cutOff'
<1> USE DEF IInv
<1>0. RestOK /\ QTypeOK
  BY DEF TypeOK, RestOK
<1>a. /\ Passed = {"ready", "gate", "attempt", "paste", "finish"}
      /\ PrePaste = {"ready", "gate", "attempt", "paste"}
      /\ Passed \cup {"mark", "leased", "confirm"} \subseteq WithRow
  BY DEF PrePaste, Passed, WithRow, Unchecked
<1>1. /\ cur' = cur
      /\ \/ pc[Drain] \in Passed \/ Uncompleted
         \/ pc[Drain] \in {"leased", "confirm"} /\ status[cur] = "in_progress" /\ UNCHANGED qvars
  <2>1. CASE pc'[Drain] \in Passed
    BY <1>0, <1>a, <2>1, DrainEnters
  <2>2. CASE pc'[Drain] = "mark" /\ out'[Drain] = "sent"
    BY <1>0, <1>a, <2>2, DrainOutcome DEF ReachOK, Uncompleted
  <2> QED
    BY <1>a, <2>1, <2>2 DEF Uncompleted
<1>2. pc[Drain] \in Passed \/ Uncompleted
  BY <1>1 DEF qvars
<1>3. pc[Drain] \in Passed \cup {"mark"}
  BY <1>a, <1>2 DEF Uncompleted
<1>4. cur \in Rows /\ status[cur] # "absent"
  BY <1>a, <1>3, RowInHand
<1>5. CASE status[cur] = "pending"
  BY <1>1, <1>2, <1>5, OnceFrame DEF CutOK
<1>6. CASE status[cur] # "pending"
  <2>1. status[cur] = "in_progress"
    BY <1>1, <1>4, <1>6, TableKept DEF Open
  <2>2. ~ReleaseBatch
    BY <1>0, <1>3, <1>a DEF ReleaseBatch
  <2>3. SweepLeases
    BY <1>1, <1>4, <2>1, <2>2, RowMoves DEF Moves
  <2> QED
    BY <1>1, <1>3, <1>6, <2>3 DEF SweepLeases, InFlight
<1> QED
  BY <1>5, <1>6

\* A new row that waits was not pasted.
LEMMA NewNotPasted ==
    ASSUME TypeOK, PlacesOK, [Next]_vars, NEW r \in Rows, status[r] = "absent"
    PROVE  /\ status'[r] \in Open => got'[r] = got[r]
           /\ status'[r] # "absent" => got'[r] = got[r] \/ got'[r] = 1
<1>1. Paste(Drain) => status'[r] = "absent"
  BY DEF Paste, qvars
<1>2. ASSUME NEW p \in Senders, FinishSend(p)
      PROVE  got'[r] = got[r] \/ (got'[r] = 1 /\ status'[r] = "uncertain")
  BY <1>2 DEF FinishSend
<1> QED
  BY <1>1, <1>2, OnceFrame DEF Open

\* The completion of a pasted row ends its delivery, unless it is cut off.
LEMMA UncompletedKept ==
    ASSUME IInv, ReachOK, CutOK, [Next]_vars, Uncompleted, status[cur] \in Open,
           status'[cur] \in Open, cur \notin cutOff'
    PROVE  cur' = cur /\ Uncompleted'
<1> USE DEF IInv
<1>0. RestOK /\ QTypeOK
  BY DEF TypeOK, RestOK
<1>a. pc[Drain] \in {"finish", "mark"} /\ pc[Drain] \in WithRow
  BY DEF Uncompleted, WithRow, Passed
<1>b. cur \in Rows /\ status[cur] = "in_progress"
  <2>1. cur \in Rows /\ cur \notin cutOff
    BY <1>a, RowInHand, OnceFrame
  <2> QED
    BY <2>1 DEF CutOK, Open
<1>1. CASE UNCHANGED <<pc[Drain], out[Drain], cur, mine, todo>>
  BY <1>1 DEF Uncompleted
<1>2. CASE FinishDrain
  BY <1>0, <1>a, <1>b, <1>2, Distinct
     DEF FinishDrain, HoldAs, HoldFrom, Return, Goto, Uncompleted, Open, RestOK, QTypeOK
<1>3. CASE MarkOutcome
  BY <1>0, <1>a, <1>b, <1>3 DEF MarkOutcome, MarkDelivered, Uncompleted, Open, QTypeOK
<1>4. CASE Crash
  BY <1>a, <1>4 DEF Crash, Landed
<1>5. ASSUME NEW r \in Rows, TakeNext(r) PROVE FALSE
  BY <1>a, <1>5 DEF TakeNext
<1>6. ASSUME StartDrain \/ Acquire(Drain) \/ CheckRegistration \/ CheckLease \/ TakeGuard
             \/ CheckConfirmed \/ RecordAttempt \/ BatchDone \/ ReleaseBatch
             \/ CheckReady(Drain) \/ CheckGate(Drain) \/ Paste(Drain)
      PROVE  FALSE
  BY <1>a, <1>6 DEF StartDrain, Acquire, CheckRegistration, CheckLease, TakeGuard, CheckConfirmed,
                    RecordAttempt, BatchDone, ReleaseBatch, CheckReady, CheckGate, Paste
<1> QED
  BY <1>0, <1>1, <1>2, <1>3, <1>4, <1>5, <1>6, OthersKeepDrain DEF Next, DrainStep, DeliverStep

\* Only what was cut off waits although it was pasted.
LEMMA CutKept ==
    ASSUME LatePaste = FALSE, IInv, OnceOK, ReachOK, CutOK, [Next]_vars
    PROVE  CutOK'
<1> USE DEF IInv
<1>0. RestOK /\ QTypeOK
  BY DEF TypeOK, RestOK
<1>a. /\ PrePaste = {"ready", "gate", "attempt", "paste"}
      /\ PrePaste \cup {"leased", "confirm", "finish"} \subseteq WithRow
  BY DEF PrePaste, Passed, WithRow, Unchecked
<1>1. ASSUME pc'[Drain] \in PrePaste PROVE got'[cur'] = 0 \/ cur' \in cutOff'
  <2>1. /\ cur' = cur
        /\ \/ pc[Drain] \in PrePaste
           \/ pc[Drain] \in {"leased", "confirm"} /\ status[cur] = "in_progress"
    BY <1>0, <1>1, DrainEnters
  <2>2. cur \in Rows /\ status[cur] # "absent"
    BY <1>a, <2>1, RowInHand
  <2>3. got[cur] = 0 \/ cur \in cutOff
    BY <1>0, <1>a, <2>1, <2>2 DEF CutOK, Uncompleted, Open, RestOK
  <2>4. ~Paste(Drain)
    BY <1>0, <1>1, <1>a, Distinct DEF Paste, Goto, RestOK
  <2> QED
    BY <2>1, <2>2, <2>3, <2>4, GotStep, OnceFrame
<1>2. ASSUME NEW r \in Rows, got'[r] > 0, status'[r] \in Open, r \notin cutOff'
      PROVE  r = cur' /\ Uncompleted'
  <2>1. status[r] # "absent"
    BY <1>2, NewNotPasted DEF OnceOK
  <2>2. status[r] \in Open /\ r \notin cutOff
    BY <1>2, <2>1, TableKept, OnceFrame
  <2>3. CASE got'[r] = got[r]
    <3>1. r = cur /\ Uncompleted
      BY <1>2, <2>2, <2>3 DEF CutOK
    <3> QED
      BY <1>2, <2>2, <3>1, UncompletedKept
  <2>4. CASE got'[r] # got[r]
    <3>1. Paste(Drain) /\ r = cur /\ out'[Drain] \in {"sent", "unsure"}
      BY <2>1, <2>4, GotStep
    <3> QED
      BY <1>0, <3>1, Distinct DEF Paste, Goto, Uncompleted, RestOK
  <2> QED
    BY <2>3, <2>4
<1>3. ASSUME NEW r \in Rows, got'[r] > 1 PROVE r \in cutOff'
  <2>1. CASE got[r] > 1
    BY <2>1, OnceFrame DEF CutOK, RepeatsOnlyWhenCutOff
  <2>2. CASE ~(got[r] > 1)
    <3>1. status[r] # "absent"
      <4>1. OnceOK'
        BY OnceKept
      <4>2. status'[r] # "absent"
        BY <1>3, <4>1 DEF OnceOK
      <4> QED
        BY <1>3, <2>2, <4>2, NewNotPasted
    <3>2. Paste(Drain) /\ r = cur /\ got'[r] = Older(got[r], 1)
      BY <1>3, <2>2, <3>1, GotStep
    <3>3. got[r] # 0
      BY <1>3, <3>2 DEF Older
    <3> QED
      BY <1>a, <3>2, <3>3, OnceFrame DEF Paste, CutOK
  <2> QED
    BY <2>1, <2>2
<1>4. (pc[Drain] \in Passed \/ Uncompleted)' => (status'[cur'] = "pending" => cur' \in cutOff')
  BY SweptIsCutOff
<1> QED
  BY <1>1, <1>2, <1>3, <1>4 DEF CutOK, RepeatsOnlyWhenCutOff

-----------------------------------------------------------------------------
(***************************************************************************)
(* The properties                                                          *)
(***************************************************************************)
\* Delivery keeps what it counts as delivered, for every constant.
LEMMA ReachInvariant == Spec => [](IInv /\ OneRowOK /\ ReachOK /\ DirectNeverLost)
<1>1. Init => OneRowOK /\ ReachOK /\ DirectNeverLost
  BY Distinct DEF Init, QInit, OneRowOK, ReachOK, DirectNeverLost, PrePaste, Passed, Procs, Deliverers
<1>2. IInv /\ OneRowOK /\ ReachOK /\ DirectNeverLost /\ [Next]_vars
        => OneRowOK' /\ ReachOK' /\ DirectNeverLost'
  <2>1. IInv /\ OneRowOK /\ [Next]_vars => OneRowOK'
    BY OneRowKept DEF IInv
  <2> QED
    BY <2>1, ReachKept, NeverLostKept
<1> QED
  BY <1>1, <1>2, InductiveInvariant, PTL DEF Spec

\* A direct message leaves the queue only because its text was pasted or the inbox showed
\* it, because the name was registered again, its confirmation revoked, or its brief retired
\* by a later launch (mark_delivered, acknowledge_checkpoint and the sweeps, with the drain,
\* the requests, the inbox, the launch and the key reset in any order, and crashes).
THEOREM NeverLost == Spec => []DirectNeverLost
  BY ReachInvariant, PTL

\* A message is pasted again only when a crash or a lease sweep cut its delivery off, as
\* long as a paste that was given up on does not run (the drain, expire_stale_leases).
THEOREM RepeatsWhenCutOff == ASSUME LatePaste = FALSE PROVE Spec => []RepeatsOnlyWhenCutOff
<1>1. Init => CutOK
  BY Distinct DEF Init, QInit, CutOK, Uncompleted, RepeatsOnlyWhenCutOff, PrePaste, Passed, Open,
                  Procs, Deliverers
<1>2. IInv /\ OnceOK /\ ReachOK /\ CutOK /\ [Next]_vars => CutOK'
  BY CutKept
<1>3. CutOK => RepeatsOnlyWhenCutOff
  BY DEF CutOK
<1> QED
  BY <1>1, <1>2, <1>3, ReachInvariant, OnceInvariant, PTL DEF Spec

-----------------------------------------------------------------------------
(***************************************************************************)
(* Refinement: SafeDelivery implements MessageContract                     *)
(***************************************************************************)
\* Where a row of a direct message stands with its contract.
LEMMA PlaceIs ==
    ASSUME QTypeOK, NEW r \in Rows
    PROVE  /\ PlaceOf(r) \in {"absent", "waiting", "held", "over"}
           /\ PlaceOf(r) = "absent" <=> ~Promised(r)
           /\ PlaceOf(r) = "waiting" <=> Promised(r) /\ status[r] \in Open
           /\ PlaceOf(r) = "held" <=> Promised(r) /\ Held(r)
           /\ PlaceOf(r) = "over" <=> Promised(r) /\ status[r] \in Finished
  BY DEF PlaceOf, Promised, Held, Open, Finished, QTypeOK, Status, ActiveStatus

\* The same after a step.
LEMMA PlaceIsNext ==
    ASSUME QTypeOK', NEW r \in Rows
    PROVE  /\ PlaceOf(r)' \in {"absent", "waiting", "held", "over"}
           /\ PlaceOf(r)' = "absent" <=> ~Promised(r)'
           /\ PlaceOf(r)' = "waiting" <=> Promised(r)' /\ status'[r] \in Open
           /\ PlaceOf(r)' = "held" <=> Promised(r)' /\ status'[r] \in {"checkpoint", "uncertain"}
           /\ PlaceOf(r)' = "over" <=> Promised(r)' /\ status'[r] \in Finished
  BY DEF PlaceOf, Promised, Held, Open, Finished, QTypeOK, Status, ActiveStatus

\* What is over is neither pasted nor shown again.
LEMMA OverRests ==
    ASSUME IInv, ReachOK, [Next]_vars, NEW r \in Rows, Promised(r), status[r] \in Finished
    PROVE  Reached(r)' <=> Reached(r)
<1> USE DEF IInv
<1>1. got'[r] = got[r]
  <2>1. ~(Paste(Drain) /\ r = cur)
    BY DEF Paste, ReachOK, Promised, PrePaste, Passed, Open, Finished
  <2> QED
    BY <2>1, GotStep DEF Promised
<1>2. r \in shown' <=> r \in shown
  BY Frame DEF Inbox, InboxRows, Held, Finished
<1> QED
  BY <1>1, <1>2 DEF Reached

\* Every step keeps the contract of every direct message.
LEMMA ContractStep ==
    ASSUME IInv, ReachOK, DirectNeverLost', [Next]_vars, NEW r \in Rows
    PROVE  \/ /\ PlaceOf(r)' = PlaceOf(r)
              /\ (Promised(r) /\ Reached(r))' <=> (Promised(r) /\ Reached(r))
           \/ PlaceOf(r) = "absent" /\ PlaceOf(r)' \in {"waiting", "held"}
           \/ PlaceOf(r) = "waiting" /\ PlaceOf(r)' = "waiting" /\ (Promised(r) /\ Reached(r))'
           \/ PlaceOf(r) \in {"waiting", "held"} /\ PlaceOf(r)' = "held"
           \/ /\ PlaceOf(r) \in {"waiting", "held"} /\ PlaceOf(r)' = "over"
              /\ (Promised(r) /\ Reached(r))' \/ (Promised(r) /\ Voided(r))'
<1> USE DEF IInv
<1>0. QTypeOK /\ QTypeOK' /\ RowKept(r) /\ Moves(r)
  BY TableKept, RowMoves DEF TypeOK
<1>1. CASE ~Promised(r)
  <2>1. PlaceOf(r) = "absent"
    BY <1>1, <1>0, PlaceIs
  <2>2. CASE ~Promised(r)'
    BY <1>0, <1>1, <2>1, <2>2, PlaceIsNext
  <2>3. CASE Promised(r)'
    <3>1. status[r] = "absent"
      BY <1>0, <1>1, <2>3 DEF Promised, RowKept
    <3>2. status'[r] \in {"pending", "checkpoint", "uncertain"}
      BY <1>0, <2>3, <3>1 DEF Moves, Promised
    <3> QED
      BY <1>0, <2>1, <2>3, <3>2, PlaceIsNext DEF Open
  <2> QED
    BY <2>2, <2>3
<1>2. CASE Promised(r)
  <2>1. Promised(r)' /\ status[r] # "absent"
    BY <1>0, <1>2 DEF Promised, RowKept
  <2>2. CASE status[r] \in Finished
    <3>1. status'[r] \in Finished /\ (Reached(r)' <=> Reached(r))
      BY <1>2, <2>2, TableKept, OverRests
    <3> QED
      BY <1>0, <1>2, <2>1, <2>2, <3>1, PlaceIs, PlaceIsNext
  <2>3. CASE status[r] \notin Finished
    <3>1. PlaceOf(r) = IF status[r] \in Open THEN "waiting" ELSE "held"
      BY <1>0, <1>2, <2>1, <2>3, PlaceIs DEF PlaceOf, Open, Finished, Held, QTypeOK, Status, ActiveStatus
    <3>2. CASE status'[r] \in Finished
      <4>1. Reached(r)' \/ Voided(r)'
        BY <2>1, <3>2 DEF DirectNeverLost, Reached, Voided, Promised, Finished
      <4> QED
        BY <1>0, <2>1, <3>1, <3>2, <4>1, PlaceIsNext
    <3>3. CASE status'[r] \in Open
      <4>1. status[r] \in Open /\ (Reached(r) => Reached(r)')
        BY <2>1, <3>3, TableKept, ReachedStays
      <4> QED
        BY <1>0, <1>2, <2>1, <3>1, <3>3, <4>1, PlaceIsNext
    <3>4. CASE status'[r] \notin Open \cup Finished
      <4>1. PlaceOf(r)' = "held"
        BY <1>0, <2>1, <3>4, PlaceIsNext DEF QTypeOK, Open, Finished, Status, ActiveStatus, Promised
      <4> QED
        BY <3>1, <4>1
    <3> QED
      BY <3>2, <3>3, <3>4
  <2> QED
    BY <2>2, <2>3
<1> QED
  BY <1>1, <1>2

\* What has reached the agent, and what lost its authority, stays so.
LEMMA HistoryGrows ==
    ASSUME IInv, ReachOK, [Next]_vars, NEW r \in Rows, Promised(r)
    PROVE  /\ Promised(r)'
           /\ Reached(r) => Reached(r)'
           /\ Voided(r) => Voided(r)'
<1>1. Promised(r)'
  BY TableKept DEF IInv, Promised, RowKept
<1> QED
  BY <1>1, ReachedStays, VoidStays DEF IInv, Promised, ReachOK

\* SafeDelivery implements MessageContract for every constant: an accepted direct message
\* waits or is held until it reached the agent or lost its authority, what is held is never
\* pasted, and what is over is over.
THEOREM DeliveryKeepsContract == Spec => KeepsContract
<1>1. Init => Contract!Init
  <2> SUFFICES ASSUME Init PROVE Contract!Init
    OBVIOUS
  <2>1. \A r \in Rows : ~Promised(r)
    BY DEF Init, QInit, Promised
  <2> QED
    BY <2>1 DEF Contract!Init, PlaceOf
<1>2. IInv /\ ReachOK /\ DirectNeverLost' /\ [Next]_vars => [Contract!Next]_<<
          [r \in Rows |-> PlaceOf(r)],
          {r \in Rows : Promised(r) /\ (got[r] > 0 \/ r \in shown)},
          {r \in Rows : Promised(r) /\ Voided(r)}>>
  <2> SUFFICES ASSUME IInv, ReachOK, DirectNeverLost', [Next]_vars PROVE Contract!Next
    OBVIOUS
  <2>1. QTypeOK /\ QTypeOK'
    BY TableKept DEF IInv, TypeOK
  <2>2. [r \in Rows |-> PlaceOf(r)]' \in [Rows -> Contract!Places]
    BY <2>1, PlaceIsNext DEF Contract!Places
  <2>3. \A r \in Rows : Promised(r) =>
            Promised(r)' /\ (Reached(r) => Reached(r)') /\ (Voided(r) => Voided(r)')
    BY HistoryGrows
  <2>4. ASSUME NEW r \in Rows
        PROVE  Contract!Rest(r) \/ Contract!Accept(r) \/ Contract!HandOver(r)
               \/ Contract!Hold(r) \/ Contract!End(r)
    BY ContractStep DEF Contract!Rest, Contract!Accept, Contract!HandOver, Contract!Hold,
                        Contract!End, Reached
  <2> QED
    BY <2>2, <2>3, <2>4 DEF Contract!Next, Reached
<1> QED
  BY <1>1, <1>2, ReachInvariant, PTL DEF Spec, KeepsContract, Contract!Spec
=============================================================================

---------------------------- MODULE SafeDelivery ----------------------------
(***************************************************************************)
(* Delivery of messages to one agent's terminal: safe_deliver and its      *)
(* per-session serialization (services/routing/_delivery.py), the queue    *)
(* drain (services/jobs/retry.py), the inbox, owner-confirmed messages and *)
(* their key reset (_signing_repo.py), and the launch of the agent         *)
(* (agents/launch.py), over the table of MessageQueue.                     *)
(*                                                                         *)
(* One process per request that sends a message, one drain (the _draining  *)
(* set keeps a second one out) and one launch.  A step is what runs        *)
(* between two awaits that matter: a database transaction, the readiness   *)
(* check, the paste.  The lifecycle lock and the session lock are always   *)
(* taken together by a delivery, so they are one lock here.                *)
(***************************************************************************)
EXTENDS MessageQueue

CONSTANTS
    Senders,      \* requests that send a message (safe_deliver, requeue=True)
    Drain,        \* the drain of this session's queue
    Launcher,     \* the start of the agent's session
    NoProc,       \* nobody
    Limit,        \* rows one drain leases (5 in the code)
    InboxClient,  \* TRUE: the agent may become an inbox-only client
    LatePaste,    \* TRUE: tmux may still run a paste-buffer command given up on
    MaxSends,     \* bound: messages sent
    MaxLaunches,  \* bound: launches
    MaxCrashes    \* bound: deaths of the service

ASSUME DeliveryAssumption ==
    /\ Drain \notin Senders /\ Launcher \notin Senders /\ Drain # Launcher
    /\ NoProc \notin Senders \cup {Drain, Launcher}
    /\ Limit \in Nat \ {0} /\ LatePaste \in BOOLEAN /\ InboxClient \in BOOLEAN
    /\ MaxSends \in Nat /\ MaxLaunches \in Nat /\ MaxCrashes \in Nat

Deliverers == Senders \cup {Drain}
Procs == Deliverers \cup {Launcher}

VARIABLES
    pc,           \* where each process is
    sending,      \* the message each request sends
    todo,         \* rows of the drain's batch it has not come to
    mine,         \* rows of the drain's batch
    cur,          \* the row the drain delivers, 0 for none
    out,          \* what the paste or the checks before it came to
    lock,         \* who holds the lifecycle lock and session lock
    guard,        \* who holds the revocation guard
    signing,      \* signing_receipts.status of each confirmation
    attempted,    \* confirmations with attempted_at
    recorded,     \* confirmations with a successful delivery record
    agent,        \* the terminal session
    sends, launches, crashes,     \* counters for the bounds
    \* history
    got,          \* how often each row's text may have reached the terminal, up to 2
    shown,        \* rows the inbox has returned
    cutOff,       \* rows whose delivery a crash or a lease sweep cut off
    briefOf       \* the launch each brief row was queued for

memory == <<pc, sending, todo, mine, cur, out, lock, guard>>
keys == <<signing, attempted, recorded>>
counters == <<sends, launches, crashes>>
history == <<got, shown, cutOff, briefOf>>
vars == <<qvars, memory, keys, agent, counters, history>>

\* A delivery that holds the session lock, and one that has passed its checks.
Unchecked == {"held", "registration", "guard", "confirm", "leased"}
Passed == {"ready", "gate", "attempt", "paste", "finish"}
Inside == Unchecked \cup Passed \cup {"brief", "session"}
Places == Inside \cup {"idle", "lock", "next", "mark", "release"}
Outcome == {"none", "sent", "unsure", "failed", "refused", "error",
            "blocked", "already", "awaiting"}

TypeOK ==
    /\ QTypeOK
    /\ pc \in [Procs -> Places]
    /\ sending \in [Senders -> Messages]
    /\ todo \subseteq Rows /\ mine \subseteq Rows
    /\ cur \in Rows \cup {0}
    /\ out \in [Deliverers -> Outcome]
    /\ lock \in Procs \cup {NoProc} /\ guard \in {Drain, NoProc}
    /\ signing \in [Confirmed -> {"none", "admitted", "revoked"}]
    /\ attempted \subseteq Confirmed /\ recorded \subseteq Confirmed
    /\ agent \in {"offline", "busy", "ready"}
    /\ sends \in Nat /\ launches \in Nat /\ crashes \in Nat
    /\ got \in [Rows -> 0 .. 2]
    /\ shown \subseteq Rows /\ cutOff \subseteq Rows
    /\ briefOf \in [Rows -> Nat]

Init ==
    /\ QInit
    /\ pc = [p \in Procs |-> "idle"]
    /\ sending = [p \in Senders |-> Notice]
    /\ todo = {} /\ mine = {} /\ cur = 0
    /\ out = [p \in Deliverers |-> "none"]
    /\ lock = NoProc /\ guard = NoProc
    /\ signing = [m \in Confirmed |-> "none"]
    /\ attempted = {} /\ recorded = {}
    /\ agent = "offline"
    /\ sends = 0 /\ launches = 0 /\ crashes = 0
    /\ got = [r \in Rows |-> 0]
    /\ shown = {} /\ cutOff = {}
    /\ briefOf = [r \in Rows |-> 0]

(***************************************************************************)
(* Helpers                                                                 *)
(***************************************************************************)
Text(p) == IF p = Drain THEN msg[cur] ELSE sending[p]

Goto(p, place) == pc' = [pc EXCEPT ![p] = place]

\* Bound: a row is kept free for every request under way, so that the bound on
\* rows stops no process halfway.
Room == Cardinality({r \in Rows : status[r] = "absent"})
            > Cardinality({p \in Senders : pc[p] # "idle"})

\* Store the message: a new row, or the one already waiting answers.
Enqueue(m, s) == EnqueueNew(m, s) \/ EnqueueAgain(m, s)

\* Fault: a brief that is leased or held is not waited for.
BriefQueued(p) ==
    /\ ~(p = Drain /\ msg[cur] \in Briefs)
    /\ \E r \in Rows : status[r] = "pending" /\ msg[r] \in Briefs

\* has_brief_ahead: another brief is still to go; a brief waits for none.
BriefAhead(p) ==
    /\ ~(p = Drain /\ msg[cur] \in Briefs)
    /\ \E r \in Rows : Active(r) /\ msg[r] \in Briefs

\* Fault: an error leaves without releasing the session lock.
ReturnUnlessError(p, result) ==
    /\ lock' = IF result = "error" THEN lock ELSE NoProc
    /\ guard' = IF guard = p THEN NoProc ELSE guard
    /\ out' = [out EXCEPT ![p] = IF p = Drain THEN result ELSE "none"]
    /\ Goto(p, IF p = Drain THEN IF result = "error" THEN "release" ELSE "mark"
                            ELSE "idle")

\* safe_deliver returns: the locks are released; a request is answered, the
\* drain goes on to what it does with the outcome.
Return(p, result) ==
    /\ lock' = NoProc
    /\ guard' = IF guard = p THEN NoProc ELSE guard
    /\ out' = [out EXCEPT ![p] = IF p = Drain THEN result ELSE "none"]
    /\ Goto(p, IF p = Drain THEN IF result = "error" THEN "release" ELSE "mark"
                            ELSE "idle")

\* The row whose text may have gone in without its row being completed yet.
Landed == IF pc[Drain] \in {"finish", "mark"} THEN {cur} ELSE {}

\* The row a drain goes on delivering although its lease is swept.
InFlight == IF pc[Drain] \in Passed \cup {"mark"} THEN {cur} ELSE {}

(***************************************************************************)
(* safe_deliver, for a request and for the drain                           *)
(***************************************************************************)
Send(p, m) ==
    /\ pc[p] = "idle" /\ sends < MaxSends /\ Room
    /\ sends' = sends + 1
    /\ sending' = [sending EXCEPT ![p] = m]
    /\ Goto(p, "lock")
    /\ UNCHANGED <<qvars, todo, mine, cur, out, lock, guard, keys, agent,
                   launches, crashes, history>>

Acquire(p) ==
    /\ pc[p] = "lock" /\ lock = NoProc
    /\ lock' = p
    /\ Goto(p, IF p = Drain THEN "registration" ELSE "held")
    /\ UNCHANGED <<qvars, sending, todo, mine, cur, out, guard, keys, agent,
                   counters, history>>

\* _serialized: a row of an earlier registration is completed, never pasted.
CheckRegistration ==
    /\ pc[Drain] = "registration"
    /\ \/ /\ owner[cur] # registration
          /\ MarkDelivered(cur)
          /\ Return(Drain, "already")
       \/ /\ owner[cur] = registration
          /\ Goto(Drain, IF msg[cur] \in Confirmed THEN "guard" ELSE "leased")
          /\ UNCHANGED <<qvars, out, lock, guard>>
    /\ UNCHANGED <<sending, todo, mine, cur, keys, agent, counters, history>>

\* Fault: the lease is not looked at again once the lock is held.
TrustLease ==
    /\ pc[Drain] = "leased"
    /\ Goto(Drain, "ready")
    /\ UNCHANGED <<qvars, sending, todo, mine, cur, out, lock, guard, keys, agent,
                   counters, history>>

\* _serialized: only a row still leased is delivered.
CheckLease ==
    /\ pc[Drain] = "leased"
    /\ \/ /\ status[cur] = "in_progress"
          /\ Goto(Drain, "ready")
          /\ UNCHANGED <<out, lock, guard>>
       \/ /\ status[cur] # "in_progress"
          /\ Return(Drain, "awaiting")
    /\ UNCHANGED <<qvars, sending, todo, mine, cur, keys, agent, counters, history>>

TakeGuard ==
    /\ pc[Drain] = "guard" /\ guard = NoProc
    /\ guard' = Drain
    /\ Goto(Drain, "confirm")
    /\ UNCHANGED <<qvars, sending, todo, mine, cur, out, lock, keys, agent,
                   counters, history>>

\* _serialized, a queued confirmation: revoked or already delivered, begun
\* earlier and never recorded, or to be delivered.
CheckConfirmed ==
    /\ pc[Drain] = "confirm"
    /\ LET revoked == status[cur] # "in_progress"
           done == msg[cur] \in recorded
           begun == msg[cur] \in attempted
       IN  \/ /\ revoked \/ done
              /\ Return(Drain, "already")
              /\ UNCHANGED qvars
           \/ /\ ~revoked /\ ~done /\ begun
              /\ HoldAs(cur, "uncertain")
              /\ Return(Drain, "awaiting")
           \/ /\ ~revoked /\ ~done /\ ~begun
              /\ Goto(Drain, "ready")
              /\ UNCHANGED <<qvars, out, lock, guard>>
    /\ UNCHANGED <<sending, todo, mine, cur, keys, agent, counters, history>>

\* held_receipt: a waiting copy answers a request at once.
CheckHeld(p) ==
    /\ pc[p] = "held"
    /\ \/ /\ \E r \in Rows : Active(r) /\ msg[r] = sending[p]
          /\ Return(p, "awaiting")
       \/ /\ \A r \in Rows : Active(r) => msg[r] # sending[p]
          /\ Goto(p, "ready")
          /\ UNCHANGED <<out, lock, guard>>
    /\ UNCHANGED <<qvars, sending, todo, mine, cur, keys, agent, counters, history>>

\* finish(..., queue=True) before any paste: a request stores its message, the
\* drain keeps its leased row.
Defer(p) ==
    /\ IF p = Drain THEN UNCHANGED qvars ELSE Enqueue(sending[p], "pending")
    /\ Return(p, "blocked")

\* 3. Readiness
CheckReady(p) ==
    /\ pc[p] = "ready"
    /\ \/ /\ agent # "ready" \/ inboxOnly
          /\ Defer(p)
       \/ /\ agent = "ready" /\ ~inboxOnly
          /\ Goto(p, "gate")
          /\ UNCHANGED <<qvars, out, lock, guard>>
    /\ UNCHANGED <<sending, todo, mine, cur, keys, agent, counters, history>>

\* Fault: only the brief is waited for.
CheckGateBriefOnly(p) ==
    /\ pc[p] = "gate"
    /\ \/ BriefAhead(p) /\ Defer(p)
       \/ /\ ~BriefAhead(p)
          /\ Goto(p, IF p = Drain /\ msg[cur] \in Confirmed THEN "attempt" ELSE "paste")
          /\ UNCHANGED <<qvars, out, lock, guard>>
    /\ UNCHANGED <<sending, todo, mine, cur, keys, agent, counters, history>>

\* has_uncertain and has_brief_ahead
CheckGate(p) ==
    /\ pc[p] = "gate"
    /\ \/ /\ HasUncertain \/ BriefAhead(p)
          /\ Defer(p)
       \/ /\ ~HasUncertain /\ ~BriefAhead(p)
          /\ Goto(p, IF p = Drain /\ msg[cur] \in Confirmed THEN "attempt" ELSE "paste")
          /\ UNCHANGED <<qvars, out, lock, guard>>
    /\ UNCHANGED <<sending, todo, mine, cur, keys, agent, counters, history>>

\* Fault: the start of the paste is not recorded.
SkipAttempt ==
    /\ pc[Drain] = "attempt"
    /\ Goto(Drain, "paste")
    /\ UNCHANGED <<qvars, sending, todo, mine, cur, out, lock, guard, keys, agent,
                   counters, history>>

\* signing.attempt(begun=True), before the paste of a confirmation.
RecordAttempt ==
    /\ pc[Drain] = "attempt"
    /\ attempted' = attempted \cup {msg[cur]}
    /\ Goto(Drain, "paste")
    /\ UNCHANGED <<qvars, sending, todo, mine, cur, out, lock, guard, signing,
                   recorded, agent, counters, history>>

\* 4. Paste + submit: confirmed; unconfirmed, so it may have landed; not pasted
\* (a definite failure); refused by the runtime; an error before the paste.
Paste(p) ==
    /\ pc[p] = "paste"
    /\ \E result \in {"sent", "unsure", "failed", "refused", "error"} :
         /\ agent = "offline" => result \notin {"sent", "unsure"}
         /\ out' = [out EXCEPT ![p] = result]
         /\ \/ /\ p = Drain
               /\ result \in {"sent", "unsure"} \/ (result = "failed" /\ LatePaste)
               /\ got' = [got EXCEPT ![cur] = Older(@, 1)]
            \/ /\ p \in Senders \/ result \notin {"sent", "unsure"}
               /\ UNCHANGED got
    /\ Goto(p, "finish")
    /\ UNCHANGED <<qvars, sending, todo, mine, cur, lock, guard, keys, agent,
                   counters, shown, cutOff, briefOf>>

StoredAs(result) ==
    IF result = "unsure" THEN "uncertain" ELSE IF result = "refused" THEN "checkpoint" ELSE "pending"

\* finish, for a request: what was not delivered is stored. An error stores nothing.
FinishSend(p) ==
    /\ pc[p] = "finish"
    /\ \/ /\ out[p] \in {"sent", "error"}
          /\ UNCHANGED <<qvars, got>>
       \/ /\ out[p] \in {"unsure", "failed", "refused"}
          /\ Enqueue(sending[p], StoredAs(out[p]))
          /\ got' = [r \in Rows |-> IF status[r] = "absent" /\ status'[r] = "uncertain"
                                    THEN 1 ELSE got[r]]
    /\ Return(p, out[p])
    /\ UNCHANGED <<sending, todo, mine, cur, keys, agent, counters, shown, cutOff, briefOf>>

\* finish, for the drain: its row is held, the attempt of a confirmation that
\* was not pasted is taken back, a delivered one is recorded.
FinishDrain ==
    /\ pc[Drain] = "finish"
    /\ \/ out[Drain] = "unsure" /\ HoldAs(cur, "uncertain")
       \/ out[Drain] = "refused" /\ HoldAs(cur, "checkpoint")
       \/ out[Drain] \notin {"unsure", "refused"} /\ UNCHANGED qvars
    /\ attempted' = IF out[Drain] \in {"failed", "refused"}
                    THEN attempted \ {msg[cur]} ELSE attempted
    /\ recorded' = IF out[Drain] = "sent" /\ msg[cur] \in Confirmed
                   THEN recorded \cup {msg[cur]} ELSE recorded
    /\ Return(Drain, out[Drain])
    /\ UNCHANGED <<sending, todo, mine, cur, signing, agent, counters, history>>

(***************************************************************************)
(* The queue drain                                                         *)
(***************************************************************************)
StartDrain ==
    /\ pc[Drain] = "idle" /\ ~inboxOnly
    /\ \E batch \in SUBSET Rows :
         /\ Dequeue(batch)
         /\ Cardinality(batch) <= Limit
         /\ \/ Cardinality(batch) = Limit
            \/ \A r \in Rows : status[r] = "pending" => r \in batch
         /\ todo' = batch /\ mine' = batch
    /\ Goto(Drain, "next")
    /\ UNCHANGED <<sending, cur, out, lock, guard, keys, agent, counters, history>>

\* Fault: a notice that cannot be checked ends the batch.
TakeNextOrStop(r) ==
    /\ pc[Drain] = "next"
    /\ r \in todo /\ \A q \in todo \ {r} : Before(r, q)
    /\ \/ /\ msg[r] \in Comments
          /\ Goto(Drain, "release")
          /\ UNCHANGED <<qvars, todo, cur>>
       \/ /\ status[r] # "in_progress"
          /\ todo' = todo \ {r}
          /\ UNCHANGED <<qvars, pc, cur>>
       \/ /\ status[r] = "in_progress"
          /\ todo' = todo \ {r}
          /\ cur' = r
          /\ Goto(Drain, "lock")
          /\ UNCHANGED qvars
    /\ UNCHANGED <<sending, mine, out, lock, guard, keys, agent, counters, history>>

\* The next row of the batch: its notice is obsolete, or could not be checked;
\* it is no longer leased; it is delivered; or its agent has no session and the
\* drain stops.
TakeNext(r) ==
    /\ pc[Drain] = "next"
    /\ r \in todo /\ \A q \in todo \ {r} : Before(r, q)
    /\ \/ /\ msg[r] \in Comments                     \* obsolete
          /\ MarkDelivered(r)
          /\ todo' = todo \ {r}
          /\ UNCHANGED <<pc, cur>>
       \/ /\ msg[r] \in Comments \/ status[r] # "in_progress"
          /\ todo' = todo \ {r}
          /\ UNCHANGED <<qvars, pc, cur>>
       \/ /\ status[r] = "in_progress"
          /\ todo' = todo \ {r}
          /\ cur' = r
          /\ Goto(Drain, "lock")
          /\ UNCHANGED qvars
       \/ /\ status[r] = "in_progress" /\ agent = "offline"
          /\ Goto(Drain, "release")
          /\ UNCHANGED <<qvars, todo, cur>>
    /\ UNCHANGED <<sending, mine, out, lock, guard, keys, agent, counters, history>>

BatchDone ==
    /\ pc[Drain] = "next" /\ todo = {}
    /\ Goto(Drain, "release")
    /\ UNCHANGED <<qvars, sending, todo, mine, cur, out, lock, guard, keys, agent,
                   counters, history>>

\* Fault: every outcome but a blocked one completes the row.
MarkUnlessBlocked ==
    /\ pc[Drain] = "mark"
    /\ \/ /\ out[Drain] # "blocked"
          /\ MarkDelivered(cur)
          /\ Goto(Drain, "next")
       \/ /\ out[Drain] = "blocked"
          /\ Goto(Drain, "release")
          /\ UNCHANGED qvars
    /\ cur' = 0 /\ out' = [out EXCEPT ![Drain] = "none"]
    /\ UNCHANGED <<sending, todo, mine, lock, guard, keys, agent, counters, history>>

\* Fault: the rows of a batch are completed by its last release only.
MarkNothing ==
    /\ pc[Drain] = "mark"
    /\ Goto(Drain, IF out[Drain] \in {"sent", "already"} THEN "next" ELSE "release")
    /\ cur' = 0 /\ out' = [out EXCEPT ![Drain] = "none"]
    /\ UNCHANGED <<qvars, sending, todo, mine, lock, guard, keys, agent, counters, history>>

\* After safe_deliver: a delivered row is completed, a blocked one ends the batch.
MarkOutcome ==
    /\ pc[Drain] = "mark"
    /\ \/ /\ out[Drain] \in {"sent", "already"}
          /\ MarkDelivered(cur)
          /\ Goto(Drain, "next")
       \/ /\ out[Drain] \notin {"sent", "already"}
          /\ Goto(Drain, "release")
          /\ UNCHANGED qvars
    /\ cur' = 0 /\ out' = [out EXCEPT ![Drain] = "none"]
    /\ UNCHANGED <<sending, todo, mine, lock, guard, keys, agent, counters, history>>

\* finally: every row of the batch still leased goes back.
ReleaseBatch ==
    /\ pc[Drain] = "release"
    /\ Release(mine)
    /\ todo' = {} /\ mine' = {} /\ cur' = 0
    /\ out' = [out EXCEPT ![Drain] = "none"]
    /\ Goto(Drain, "idle")
    /\ UNCHANGED <<sending, lock, guard, keys, agent, counters, history>>

(***************************************************************************)
(* The retry job's sweeps, a closed issue                                  *)
(***************************************************************************)
\* Fault: leases are swept for running sessions only.
SweepLeasesOfRunning ==
    /\ agent # "offline"
    /\ ExpireStaleLeases
    /\ cutOff' = cutOff \cup {r \in InFlight : status[r] # status'[r]}
    /\ UNCHANGED <<memory, keys, agent, counters, got, shown, briefOf>>

SweepLeases ==
    /\ ExpireStaleLeases
    /\ cutOff' = cutOff \cup {r \in InFlight : status[r] # status'[r]}
    /\ UNCHANGED <<memory, keys, agent, counters, got, shown, briefOf>>

SweepExpired ==
    /\ Room
    /\ ExpirePending
    /\ UNCHANGED <<memory, keys, agent, counters, history>>

IssueClosed == PurgeForIssue /\ UNCHANGED <<memory, keys, agent, counters, history>>

(***************************************************************************)
(* The inbox (checkpoint_inbox), under the session lock                    *)
(***************************************************************************)
Inbox ==
    /\ lock = NoProc
    /\ ReadInbox
    /\ shown' = shown \cup InboxRows
    /\ UNCHANGED <<memory, keys, agent, counters, got, cutOff, briefOf>>

AckInbox ==
    /\ lock = NoProc
    /\ \E tokens \in SUBSET shown :
         /\ tokens # {}
         /\ Acknowledge(tokens)
         /\ recorded' = recorded \cup
                {m \in Confirmed : \E r \in tokens : Held(r) /\ msg[r] = m}
    /\ UNCHANGED <<memory, signing, attempted, agent, counters, history>>

(***************************************************************************)
(* Owner-confirmed messages                                                *)
(***************************************************************************)
\* signing.admit: the receipt and the queued message in one transaction.
Admit(m) ==
    /\ signing[m] = "none" /\ Room
    /\ EnqueueNew(m, "pending")
    /\ signing' = [signing EXCEPT ![m] = "admitted"]
    /\ UNCHANGED <<memory, attempted, recorded, agent, counters, history>>

\* The confirmations a reset ends, and all that have no authority after it.
Ending == {m \in Confirmed : signing[m] = "admitted" /\ m \notin recorded}
Gone == Ending \cup {m \in Confirmed : signing[m] = "revoked"}

\* Fault: the reset does not wait for the delivery under way.
KeyResetAtOnce ==
    /\ Ending # {}
    /\ signing' = [m \in Confirmed |-> IF m \in Ending THEN "revoked" ELSE signing[m]]
    /\ Revoke(Gone, attempted)
    /\ UNCHANGED <<memory, attempted, recorded, agent, counters, history>>

\* _revoke_epoch, under the revocation guard.
KeyReset ==
    /\ guard = NoProc
    /\ Ending # {}
    /\ signing' = [m \in Confirmed |-> IF m \in Ending THEN "revoked" ELSE signing[m]]
    /\ Revoke(Gone, attempted)
    /\ UNCHANGED <<memory, attempted, recorded, agent, counters, history>>

(***************************************************************************)
(* The agent: its launch, its session, its registration                    *)
(***************************************************************************)
LaunchBegin ==
    /\ pc[Launcher] = "idle" /\ lock = NoProc
    /\ agent = "offline" /\ ~inboxOnly /\ launches < MaxLaunches
    /\ launches' = launches + 1
    /\ lock' = Launcher
    /\ RetirePendingBriefs
    /\ Goto(Launcher, "brief")
    /\ UNCHANGED <<sending, todo, mine, cur, out, guard, keys, agent, sends,
                   crashes, history>>

\* The brief is queued before the session exists; a runtime that takes its
\* brief another way queues none.
LaunchBrief ==
    /\ pc[Launcher] = "brief"
    /\ \/ \E b \in Briefs :
            /\ Room
            /\ EnqueueNew(b, "pending")
            /\ briefOf' = [r \in Rows |-> IF status[r] # status'[r]
                                          THEN launches ELSE briefOf[r]]
       \/ UNCHANGED <<qvars, briefOf>>
    /\ Goto(Launcher, "session")
    /\ UNCHANGED <<sending, todo, mine, cur, out, lock, guard, keys, agent,
                   counters, got, shown, cutOff>>

LaunchSession ==
    /\ pc[Launcher] = "session"
    /\ agent' \in {"busy", "offline"}                \* offline: the launch failed
    /\ lock' = NoProc
    /\ Goto(Launcher, "idle")
    /\ UNCHANGED <<qvars, sending, todo, mine, cur, out, guard, keys, counters, history>>

\* A turn begins or ends, or the session goes away.
AgentMoves ==
    /\ agent # "offline"
    /\ agent' \in {"busy", "ready", "offline"} \ {agent}
    /\ UNCHANGED <<qvars, memory, keys, counters, history>>

\* Fault: the name is registered again beside a delivery.
ForgetUnlocked ==
    /\ agent = "offline"
    /\ Reregister /\ (inboxOnly' => InboxClient)
    /\ UNCHANGED <<memory, keys, agent, counters, history>>

Forget ==
    /\ lock = NoProc /\ agent = "offline"
    /\ Reregister /\ (inboxOnly' => InboxClient)
    /\ UNCHANGED <<memory, keys, agent, counters, history>>

ChangeClient ==
    /\ InboxClient
    /\ lock = NoProc /\ agent = "offline"
    /\ SetInboxOnly
    /\ UNCHANGED <<memory, keys, agent, counters, history>>

(***************************************************************************)
(* The service dies; its rows stay                                         *)
(***************************************************************************)
Crash ==
    /\ crashes < MaxCrashes
    /\ crashes' = crashes + 1
    /\ pc' = [p \in Procs |-> "idle"]
    /\ todo' = {} /\ mine' = {} /\ cur' = 0
    /\ out' = [p \in Deliverers |-> "none"]
    /\ lock' = NoProc /\ guard' = NoProc
    /\ cutOff' = cutOff \cup Landed
    /\ UNCHANGED <<qvars, sending, keys, agent, sends, launches, got, shown, briefOf>>

TimePasses == Tick /\ UNCHANGED <<memory, keys, agent, counters, history>>

(***************************************************************************)
(* The specification                                                       *)
(***************************************************************************)
DeliverStep(p) == CheckReady(p) \/ CheckGate(p) \/ Paste(p)

SenderStep(p) == Acquire(p) \/ CheckHeld(p) \/ DeliverStep(p) \/ FinishSend(p)

DrainStep ==
    \/ Acquire(Drain) \/ CheckRegistration \/ CheckLease \/ TakeGuard \/ CheckConfirmed
    \/ DeliverStep(Drain) \/ RecordAttempt \/ FinishDrain
    \/ \E r \in Rows : TakeNext(r)
    \/ BatchDone \/ MarkOutcome \/ ReleaseBatch

LauncherStep == LaunchBrief \/ LaunchSession

Next ==
    \/ \E p \in Senders, m \in Direct \cup Comments : Send(p, m)
    \/ \E p \in Senders : SenderStep(p)
    \/ StartDrain \/ DrainStep
    \/ SweepLeases \/ SweepExpired \/ IssueClosed
    \/ Inbox \/ AckInbox
    \/ \E m \in Confirmed : Admit(m)
    \/ KeyReset
    \/ LaunchBegin \/ LauncherStep
    \/ AgentMoves \/ Forget \/ ChangeClient
    \/ Crash
    \/ TimePasses

Spec == Init /\ [][Next]_vars

\* The event loop runs every task that can run, the retry job sweeps leases
\* again and again, and time passes. Nothing is assumed of the agent, the inbox
\* or the people who send.
Fairness ==
    /\ \A p \in Senders : WF_vars(SenderStep(p))
    /\ WF_vars(StartDrain) /\ WF_vars(DrainStep) /\ WF_vars(LauncherStep)
    /\ WF_vars(SweepLeases) /\ WF_vars(TimePasses)

FairSpec == Spec /\ Fairness

(***************************************************************************)
(* Properties                                                              *)
(***************************************************************************)
Pasting(p) == pc[p] = "paste"

\* No text goes into an input box that may still hold an unconfirmed paste:
\* from the check to the paste, by any process, no uncertain row appears. The
\* rows a key reset holds are the exception: a reset does not take the session
\* lock, and marks what an interrupted paste left behind.
NoPasteOverUncertain ==
    \A p \in Deliverers : Pasting(p) =>
        \A r \in Rows : status[r] = "uncertain" =>
            msg[r] \in Confirmed /\ signing[msg[r]] = "revoked"

\* A fresh session's instructions come before its work: nothing else is pasted
\* while its brief waits, is leased or is held.
BriefGoesFirst ==
    \A p \in Deliverers : Pasting(p) /\ Text(p) \notin Briefs =>
        \A r \in Rows : Active(r) => msg[r] \notin Briefs

\* A session is never handed the brief of an earlier launch, however long that
\* row was leased, held or swept (retire_pending_briefs, #290).
BriefOfThisLaunch ==
    Pasting(Drain) /\ msg[cur] \in Briefs => briefOf[cur] = launches

\* A message is pasted only to the registration it was queued for: a drain that
\* leased rows before the name was forgotten and registered again pastes none.
RightRegistration == Pasting(Drain) => owner[cur] = registration

\* What the inbox has shown is never pasted as well: a message reaches the
\* agent through one channel (the lease check under the session lock).
NotPastedOnceShown == Pasting(Drain) => cur \notin shown

\* An owner-confirmed message is never pasted twice, whatever crashes, sweeps
\* and retries happen (docs/owner-confirmed-messages.md).
ConfirmedPastedOnce == \A r \in Rows : msg[r] \in Confirmed => got[r] <= 1

\* A key reset lands before the last check or after the delivery is recorded,
\* never between: a revoked confirmation is not pasted (revocation_guard).
RevokedNeverPasted ==
    Pasting(Drain) /\ msg[cur] \in Confirmed => signing[msg[cur]] = "admitted"

\* A message is pasted again only when a crash or a lease sweep cut its
\* delivery off between the paste and the completion of its row.
RepeatsOnlyWhenCutOff == \A r \in Rows : got[r] > 1 => r \in cutOff

\* A direct message leaves the queue only because its text reached the terminal
\* or the inbox showed it, because the name was registered again, or because its
\* confirmation was revoked; a brief also when the next launch retires it.
DirectNeverLost ==
    \A r \in Rows :
        msg[r] \in DirectKind /\ status[r] \in {"delivered", "expired"} =>
            \/ status[r] = "delivered" /\ (got[r] > 0 \/ r \in shown)
            \/ owner[r] # registration
            \/ msg[r] \in Confirmed /\ signing[msg[r]] = "revoked"
            \/ msg[r] \in Briefs /\ briefOf[r] < launches

\* The session lock is never kept: whatever deliveries and launches take it let
\* it go again and again, so the inbox, the next message and a stop get their turn.
LockReleased == []<>(lock = NoProc)

\* A leased row does not stay leased, whether its drain finished, was blocked,
\* failed or died with the service.
LeaseEnds == \A r \in Rows : status[r] = "in_progress" ~> status[r] # "in_progress"

\* From some time on the agent sits at its prompt, nothing is unconfirmed, pastes
\* do not fail and no drain outlives its lease.
Calm ==
    /\ agent = "ready" /\ ~inboxOnly /\ ~HasUncertain
    /\ \A p \in Deliverers : pc[p] = "finish" => out[p] \notin {"failed", "error"}
    /\ \A r \in Rows : status[r] = "in_progress" => ~StaleLease(r)

\* In the end a waiting direct message is delivered (or read from the inbox): a
\* notice that cannot be checked, a refused paste or a crash ahead of it does not
\* block the queue for good.
QueueServed ==
    <>[]Calm => \A r \in Rows :
        [](Active(r) /\ msg[r] \in DirectKind => <>(status[r] \notin {"pending", "in_progress"}))
=============================================================================

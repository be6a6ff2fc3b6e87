----------------------------- MODULE IssueGate -----------------------------
(***************************************************************************)
(* One issue at a time for one agent (docs/github.md).  Several tasks find *)
(* an issue for it on their own: the dispatcher and the outbox, the        *)
(* monitor (pending.py), the delivery-retry job (retry.py).  Each lists    *)
(* the agent's open issues first and then calls safe_deliver, whose gate,  *)
(* claim and record of one send are serialized by the session lock.  The   *)
(* delivery records (_delivery_repo.py) and the acknowledgements           *)
(* (_acks_repo.py) say what the current conversation was given.            *)
(*                                                                         *)
(* A send is one paste here; SafeDelivery has its inside.  Messages of     *)
(* other kinds are left out.                                               *)
(***************************************************************************)
EXTENDS Integers, FiniteSets

CONSTANTS
    Issues,         \* the numbers of the issues that are for this agent: the
                    \* lower, the higher in its queue
    Offerers,       \* tasks that offer any open issue: dispatcher, outbox,
                    \* close-then-next. The monitor's may be one of them.
    Monitor, Job,   \* the monitor's pending pass, the delivery-retry job
    MaxMishaps,     \* bound: failures and deaths of the service
    MaxConvs        \* bound: conversations of the agent

Tasks == Offerers \cup {Monitor, Job}

ASSUME GateAssumption ==
    /\ Issues \subseteq Nat \ {0} /\ IsFiniteSet(Issues)
    /\ Monitor # Job /\ Job \notin Offerers
    /\ MaxMishaps \in Nat /\ MaxConvs \in Nat \ {0}

VARIABLES
    issue,      \* at GitHub: new (not there yet), open, closed
    \* the agent
    conv,       \* its conversation (agents.conversation_started_at)
    up,         \* its session exists
    busy,       \* it works, or cannot take a message for another reason
    \* the database
    acked,      \* issues it acknowledged
    slot,       \* per issue: the active row of deliveries
    failed,     \* per issue: the last finished row is one the job retries
    queue,      \* per issue: its row in message_queue
    \* the tasks
    pc,
    want,       \* the issue a task is sending
    scope,      \* the open issues it listed before
    res,        \* the outcome of its send
    draining,   \* the job sends a row it leased (requeue=False)
    mishaps,
    \* history of the current conversation
    shown,      \* how often each issue reached the terminal
    lost,       \* how often a send of it left no receipt
    awaiting,   \* issues it was given and has not acknowledged since
    crossed     \* issues given while one of these was missing from the listing

agent == <<conv, up, busy>>
locals == <<pc, want, scope, res, draining>>
history == <<shown, lost, awaiting, crossed>>
vars == <<issue, agent, acked, slot, failed, queue, locals, mishaps, history>>

NoIssue == 0
Free == [is |-> "free", conv |-> 0]

Outcomes == {"none", "delivered", "offline", "busy", "awaiting_ack", "failed", "uncertain"}

TypeOK ==
    /\ issue \in [Issues -> {"new", "open", "closed"}]
    /\ conv \in 1 .. MaxConvs /\ up \in BOOLEAN /\ busy \in BOOLEAN
    /\ acked \subseteq Issues
    /\ slot \in [Issues -> [is : {"free", "attempting", "delivered"}, conv : 0 .. MaxConvs]]
    /\ failed \in [Issues -> BOOLEAN]
    /\ queue \in [Issues -> {"none", "waiting", "leased", "held"}]
    /\ pc \in [Tasks -> {"idle", "lock", "ready", "store", "record", "settle"}]
    /\ want \in [Tasks -> Issues \cup {NoIssue}]
    /\ scope \in [Tasks -> SUBSET Issues]
    /\ res \in [Tasks -> Outcomes] /\ draining \in BOOLEAN
    /\ mishaps \in 0 .. MaxMishaps
    /\ shown \in [Issues -> Nat] /\ lost \in [Issues -> Nat]
    /\ awaiting \subseteq Issues /\ crossed \subseteq Issues

Nothing == [i \in Issues |-> 0]

Init ==
    /\ issue = [i \in Issues |-> "new"]
    /\ conv = 1 /\ up = TRUE /\ busy = FALSE
    /\ acked = {} /\ slot = [i \in Issues |-> Free] /\ failed = [i \in Issues |-> FALSE]
    /\ queue = [i \in Issues |-> "none"]
    /\ pc = [t \in Tasks |-> "idle"] /\ want = [t \in Tasks |-> NoIssue]
    /\ scope = [t \in Tasks |-> {}] /\ res = [t \in Tasks |-> "none"]
    /\ draining = FALSE
    /\ mishaps = 0
    /\ shown = Nothing /\ lost = Nothing /\ awaiting = {} /\ crossed = {}

(***************************************************************************)
(* Helpers                                                                 *)
(***************************************************************************)
Mishap == mishaps < MaxMishaps /\ mishaps' = mishaps + 1

OpenIssues == {i \in Issues : issue[i] = "open"}

\* Fault: nothing keeps two sends to one session apart.
Nobody == {}

\* The tasks inside safe_deliver: the session lock keeps them to one.
Inside == {t \in Tasks : pc[t] \in {"ready", "store", "record"}}

Drains(t) == t = Job /\ draining

\* A slot of an earlier conversation is superseded by the next claim.
Active(i) == slot[i].is # "free" /\ slot[i].conv = conv

\* Fault: an issue given to an earlier conversation counts as well.
GivenEver(i) == slot[i].is = "delivered"

\* _has_successful_issue_delivery: the current conversation was given the issue.
Given(i) == Active(i) /\ slot[i].is = "delivered"

\* _get_unacknowledged_gate_issue: the issues that hold this one back.
Blocking(i, listed) == {j \in listed \ {i} : Given(j) /\ j \notin acked}

\* The task is done with its issue.
Idle(t) ==
    /\ pc' = [pc EXCEPT ![t] = "idle"]
    /\ want' = [want EXCEPT ![t] = NoIssue]
    /\ scope' = [scope EXCEPT ![t] = {}]
    /\ res' = [res EXCEPT ![t] = "none"]
    /\ draining' = (draining /\ t # Job)

\* The task has its issue and its listing, and asks for the session lock.
Listed(t, i) ==
    /\ pc' = [pc EXCEPT ![t] = "lock"]
    /\ want' = [want EXCEPT ![t] = i]
    /\ scope' = [scope EXCEPT ![t] = OpenIssues]
    /\ UNCHANGED res

Asks(t, i) == Listed(t, i) /\ UNCHANGED draining

(***************************************************************************)
(* GitHub and the agent                                                    *)
(***************************************************************************)
Open(i) ==
    /\ issue[i] = "new"
    /\ issue' = [issue EXCEPT ![i] = "open"]
    /\ UNCHANGED <<agent, acked, slot, failed, queue, locals, mishaps, history>>

\* Closed, and its closing handled: purge_for_issue.
Close(i) ==
    /\ issue[i] = "open"
    /\ issue' = [issue EXCEPT ![i] = "closed"]
    /\ queue' = [queue EXCEPT ![i] = "none"]
    /\ UNCHANGED <<agent, acked, slot, failed, locals, mishaps, history>>

\* The agent comments on an issue it was shown: acks.record.
Acknowledge(i) ==
    /\ shown[i] > 0 /\ i \notin acked
    /\ acked' = acked \cup {i}
    /\ awaiting' = awaiting \ {i}
    /\ UNCHANGED <<issue, agent, slot, failed, queue, locals, mishaps, shown, lost, crossed>>

\* Somebody else comments on it: acks.clear.
NewComment(i) ==
    /\ i \in acked /\ Mishap
    /\ acked' = acked \ {i}
    /\ UNCHANGED <<issue, agent, slot, failed, queue, locals, history>>

TurnEnds ==
    /\ busy
    /\ busy' = FALSE
    /\ UNCHANGED <<issue, conv, up, acked, slot, failed, queue, locals, mishaps, history>>

Stop ==
    /\ up /\ Mishap
    /\ up' = FALSE
    /\ UNCHANGED <<issue, conv, busy, acked, slot, failed, queue, locals, history>>

\* A launch holds the lifecycle lock, as a send does.
Resume ==
    /\ ~up /\ Inside = {}
    /\ up' = TRUE /\ busy' = FALSE
    /\ UNCHANGED <<issue, conv, acked, slot, failed, queue, locals, mishaps, history>>

Launch ==
    /\ Inside = {} /\ conv < MaxConvs
    /\ conv' = conv + 1 /\ up' = TRUE /\ busy' = FALSE
    /\ shown' = Nothing /\ lost' = Nothing /\ awaiting' = {} /\ crossed' = {}
    /\ UNCHANGED <<issue, acked, slot, failed, queue, locals, mishaps>>

\* checkpoint_inbox, under the session lock: the agent acknowledges the row of a held
\* issue. The record this leaves is refused while a claim is in its place.
InboxAck(i) ==
    /\ up /\ queue[i] = "held" /\ slot[i].is = "free" /\ Inside = {}
    /\ queue' = [queue EXCEPT ![i] = "none"]
    /\ slot' = [slot EXCEPT ![i] = [is |-> "delivered", conv |-> conv]]
    /\ failed' = [failed EXCEPT ![i] = FALSE]
    /\ shown' = [shown EXCEPT ![i] = IF @ = 0 THEN 1 ELSE @]
    /\ awaiting' = awaiting \cup ({i} \ acked)
    /\ UNCHANGED <<issue, agent, acked, locals, mishaps, lost, crossed>>

(***************************************************************************)
(* Finding an issue to send                                                *)
(***************************************************************************)
\* Dispatcher, outbox and close-then-next: any open issue.
Offer(t, i) ==
    /\ t \in Offerers /\ pc[t] = "idle"
    /\ issue[i] = "open"
    /\ Asks(t, i)
    /\ UNCHANGED <<issue, agent, acked, slot, failed, queue, mishaps, history>>

\* deliver_pending_issues: the first unacknowledged issue of an idle agent.
Pending(i) ==
    /\ pc[Monitor] = "idle" /\ up /\ ~busy
    /\ i \in OpenIssues \ acked /\ \A j \in OpenIssues \ acked : i <= j
    /\ Asks(Monitor, i)
    /\ UNCHANGED <<issue, agent, acked, slot, failed, queue, mishaps, history>>

\* delivery_retry: a failed attempt is made again, or retired (_current_issue).
Retry(i) ==
    /\ pc[Job] = "idle" /\ failed[i] /\ slot[i].is # "attempting"
    /\ IF i \in acked \/ issue[i] = "closed"
       THEN failed' = [failed EXCEPT ![i] = FALSE] /\ UNCHANGED locals
       ELSE Asks(Job, i) /\ UNCHANGED failed
    /\ UNCHANGED <<issue, agent, acked, slot, queue, mishaps, history>>

\* _drain_session: a queued issue is leased and checked against GitHub.
Drain(i) ==
    /\ pc[Job] = "idle" /\ queue[i] = "waiting"
    /\ IF i \in acked
       THEN queue' = [queue EXCEPT ![i] = "none"] /\ UNCHANGED locals
       ELSE /\ queue' = [queue EXCEPT ![i] = "leased"]
            /\ Listed(Job, i) /\ draining' = TRUE
    /\ UNCHANGED <<issue, agent, acked, slot, failed, mishaps, history>>

(***************************************************************************)
(* safe_deliver, under the session lock                                    *)
(***************************************************************************)
\* What a drain does with its row when nothing was sent: it is completed if the
\* issue counts as delivered, else released.
RowBack(t, i, done) ==
    queue' = IF Drains(t) /\ queue[i] = "leased"
             THEN [queue EXCEPT ![i] = IF done THEN "none" ELSE "waiting"] ELSE queue

\* The row is no longer this send's, or another row holds the issue; it was given
\* already; another issue comes first; somebody else claims it; else it is claimed.
Enter(t) ==
    LET i == want[t]
        stale == IF Drains(t) THEN queue[i] # "leased" ELSE queue[i] # "none"
        blocked == Blocking(i, scope[t]) # {}
    IN /\ pc[t] = "lock" /\ Inside = {}
       /\ IF stale \/ Active(i) \/ blocked
          THEN /\ Idle(t) /\ RowBack(t, i, Active(i))
               /\ UNCHANGED slot
          ELSE /\ pc' = [pc EXCEPT ![t] = "ready"]
               /\ slot' = [slot EXCEPT ![i] = [is |-> "attempting", conv |-> conv]]
               /\ UNCHANGED <<queue, want, scope, res, draining>>
       /\ UNCHANGED <<issue, agent, acked, failed, mishaps, history>>

\* The outcome is known; those that leave a row in the queue store it first.
Outcome(t, o, stores) ==
    /\ res' = [res EXCEPT ![t] = o]
    /\ pc' = [pc EXCEPT ![t] = IF stores THEN "store" ELSE "record"]

\* Nothing is sent to an agent that is away, busy, or has a paste to resolve.
Blocked(t) ==
    /\ pc[t] = "ready"
    /\ \/ ~up /\ Outcome(t, "offline", TRUE)
       \/ up /\ busy /\ Outcome(t, "busy", FALSE)
       \/ /\ up /\ ~busy /\ \E i \in Issues : queue[i] = "held"
          /\ Outcome(t, "awaiting_ack", TRUE)
    /\ UNCHANGED <<issue, agent, acked, slot, failed, queue, want, scope, draining, mishaps,
                   history>>

Paste(t) ==
    LET shows == /\ shown' = [shown EXCEPT ![want[t]] = @ + 1]
                 /\ busy' = TRUE
    IN /\ pc[t] = "ready" /\ up /\ ~busy /\ \A i \in Issues : queue[i] # "held"
       /\ \/ shows /\ Outcome(t, "delivered", FALSE) /\ UNCHANGED mishaps
          \/ Mishap /\ Outcome(t, "failed", TRUE) /\ UNCHANGED <<shown, busy>>
          \/ Mishap /\ Outcome(t, "uncertain", TRUE) /\ (shows \/ UNCHANGED <<shown, busy>>)
       /\ crossed' = IF awaiting \ {want[t]} \subseteq scope[t] THEN crossed
                     ELSE crossed \cup {want[t]}
       /\ UNCHANGED <<issue, conv, up, acked, slot, failed, queue, want, scope, draining, lost,
                      awaiting>>

\* The paste of this send is in the terminal and nothing says so.
LostReceipt(i) == lost' = [lost EXCEPT ![i] = @ + 1]

\* Fault: an uncertain send is queued like one that failed.
RowWaiting(t, row) == IF row = "none" /\ ~Drains(t) THEN "waiting" ELSE row

\* The row after a send that stores one: enqueue, or hold_uncertain for a drain's own
\* row, if it still has it.
RowAfter(t, row) ==
    CASE Drains(t) -> IF row = "leased" /\ res[t] = "uncertain" THEN "held" ELSE row
      [] res[t] = "uncertain" -> "held"
      [] OTHER -> IF row = "none" THEN "waiting" ELSE row

\* A failed hold ends the drain's send, which releases its row.
Store(t) ==
    LET i == want[t]
    IN /\ pc[t] = "store"
       /\ \/ /\ queue' = [queue EXCEPT ![i] = RowAfter(t, @)]
             /\ pc' = [pc EXCEPT ![t] = "record"]
             /\ UNCHANGED <<want, scope, res, draining, mishaps, lost>>
          \/ /\ Mishap
             /\ IF res[t] = "uncertain" THEN LostReceipt(i) ELSE UNCHANGED lost
             /\ IF Drains(t)
                THEN Idle(t) /\ RowBack(t, i, FALSE)
                ELSE /\ pc' = [pc EXCEPT ![t] = "record"]
                     /\ UNCHANGED <<queue, want, scope, res, draining>>
       /\ UNCHANGED <<issue, agent, acked, slot, failed, shown, awaiting, crossed>>

\* finalize: the claim, if it is still there, gets its outcome. A failed write is
\* only logged. The session lock is released.
Record(t) ==
    LET i == want[t]
        given == res[t] = "delivered"
        claimed == slot[i].is = "attempting"
    IN /\ pc[t] = "record"
       /\ \/ /\ slot' = [slot EXCEPT ![i] = CASE ~claimed -> @
                                              [] given -> [@ EXCEPT !.is = "delivered"]
                                              [] OTHER -> Free]
             /\ failed' = [failed EXCEPT ![i] =
                             IF claimed THEN res[t] \notin {"delivered", "awaiting_ack"} ELSE @]
             /\ awaiting' = IF given /\ claimed THEN awaiting \cup ({i} \ acked) ELSE awaiting
             /\ IF given /\ ~claimed THEN LostReceipt(i) ELSE UNCHANGED lost
             /\ UNCHANGED mishaps
          \/ /\ Mishap
             /\ IF given THEN LostReceipt(i) ELSE UNCHANGED lost
             /\ UNCHANGED <<slot, failed, awaiting>>
       /\ IF Drains(t)
          THEN pc' = [pc EXCEPT ![t] = "settle"] /\ UNCHANGED <<want, scope, res, draining>>
          ELSE Idle(t)
       /\ UNCHANGED <<issue, agent, acked, queue, shown, crossed>>

\* The drain completes or releases its row.
Settle(t) ==
    /\ pc[t] = "settle"
    /\ RowBack(t, want[t], res[t] = "delivered")
    /\ Idle(t)
    /\ UNCHANGED <<issue, agent, acked, slot, failed, mishaps, history>>

Send(t) == Enter(t) \/ Blocked(t) \/ Paste(t) \/ Store(t) \/ Record(t) \/ Settle(t)

(***************************************************************************)
(* Claims that outlive their send                                          *)
(***************************************************************************)
\* reclaim_stale: a claim older than five minutes goes. No send takes that long:
\* it is one nobody works on, unless the machine slept in between.
Reclaim(i) ==
    /\ slot[i].is = "attempting"
    /\ IF \E t \in Inside : want[t] = i THEN Mishap ELSE UNCHANGED mishaps
    /\ slot' = [slot EXCEPT ![i] = Free]
    /\ UNCHANGED <<issue, agent, acked, failed, queue, locals, history>>

\* The service dies and starts again; a lease is swept back into the queue.
Crash ==
    /\ Mishap /\ \E t \in Tasks : pc[t] # "idle"
    /\ lost' = [i \in Issues |-> lost[i] +
                 Cardinality({t \in Inside : /\ want[t] = i
                                             /\ \/ res[t] = "delivered"
                                                \/ res[t] = "uncertain" /\ pc[t] = "store"})]
    /\ queue' = [i \in Issues |-> IF queue[i] = "leased" THEN "waiting" ELSE queue[i]]
    /\ pc' = [t \in Tasks |-> "idle"] /\ want' = [t \in Tasks |-> NoIssue]
    /\ scope' = [t \in Tasks |-> {}] /\ res' = [t \in Tasks |-> "none"]
    /\ draining' = FALSE
    /\ UNCHANGED <<issue, agent, acked, slot, failed, shown, awaiting, crossed>>

(***************************************************************************)
(* Specification                                                           *)
(***************************************************************************)
RetryPass == \E i \in Issues : Retry(i)
DrainPass == \E i \in Issues : Drain(i)
PendingPass == \E i \in Issues : Pending(i)

Next ==
    \/ \E i \in Issues :
          \/ Open(i) \/ Close(i) \/ Acknowledge(i) \/ NewComment(i) \/ InboxAck(i)
          \/ Reclaim(i) \/ \E t \in Offerers : Offer(t, i)
    \/ TurnEnds \/ Stop \/ Resume \/ Launch
    \/ PendingPass \/ RetryPass \/ DrainPass \/ Crash
    \/ \E t \in Tasks : Send(t)

\* Each pass of the jobs comes round again, whatever is sent in between; a turn ends, a
\* session that is down is started, and the agent answers what it is shown. (Strong
\* fairness for what waits for a lock: asyncio's are first come, first served.)
\* Nothing says that a dispatcher comes back.
Fairness ==
    /\ SF_vars(PendingPass) /\ SF_vars(RetryPass) /\ SF_vars(DrainPass)
    /\ \A t \in Tasks : WF_vars(Send(t))
    /\ WF_vars(TurnEnds) /\ SF_vars(Resume)
    /\ WF_vars(\E i \in Issues : Acknowledge(i)) /\ SF_vars(\E i \in Issues : InboxAck(i))
    /\ WF_vars(\E i \in Issues : Reclaim(i))

Spec == Init /\ [][Next]_vars /\ Fairness

(***************************************************************************)
(* Properties                                                              *)
(***************************************************************************)
\* Of the open issues the current conversation was given, one at most has not been
\* acknowledged, whatever the tasks, restarts and failures: except an issue given
\* from a listing that was made before the other one was opened
\* (docs/github.md, One issue at a time; _delivery.py safe_deliver).
OneAtATime ==
    \A i, j \in awaiting \cap OpenIssues : i # j => {i, j} \cap crossed # {}

\* A conversation is shown an open issue once; again only after a send lost its receipt:
\* a failed write, a crash or a reclaimed claim (_delivery_repo.py claim, finalize).
ShownOnce == \A i \in OpenIssues : shown[i] <= 1 + lost[i]

\* An open issue reaches the agent, though its claim was orphaned, its row completed
\* without a send, or its first sends failed (_delivery_repo.py reclaim_stale).
Offered ==
    \A i \in Issues :
        issue[i] = "open" ~> (shown[i] > 0 \/ i \in acked \/ issue[i] = "closed")
=============================================================================

---------------------------- MODULE EventOutbox ----------------------------
(***************************************************************************)
(* A GitHub event on its way to the agents it concerns: recorded once      *)
(* (_ingest.py, _events_repo.py), its whole audience planned in one        *)
(* transaction (_outbox_repo.py), then sent recipient by recipient, each   *)
(* with a receipt (_outbox.py).  What a crash or a failure leaves over is  *)
(* resumed by a replay of the event or by the delivery-retry job.          *)
(*                                                                         *)
(* The events are those of one issue (opened, closed, closed again) and of *)
(* one review of one commit (started, submitted).  The terminal and the    *)
(* queue are seen from outside: SafeDelivery models what happens inside    *)
(* one send.                                                               *)
(***************************************************************************)
EXTENDS Integers, FiniteSets

CONSTANTS
    Opened, Older, Newer,  \* the issue opened; its first and its second closing
    Start, Submit,         \* a review of one commit started, and submitted
    Stories,               \* the sets of events GitHub may send
    Audience,              \* the agents each event is for
    Intakes,               \* tasks that dispatch events: webhook requests, the poll
    Job,                   \* the delivery-retry job
    NoProc, NoOne,         \* no task, no agent
    MaxMishaps             \* bound: failures of the database, GitHub or a terminal,
                           \* and deaths of the service

Events == {Opened, Older, Newer, Start, Submit}
Closes == {Older, Newer}
OfIssue == {Opened} \cup Closes
Tasks == Intakes \cup {Job}
Sends == UNION {{e} \X Audience[e] : e \in Events}
Agents == UNION {Audience[e] : e \in Events}

ASSUME OutboxAssumption ==
    /\ Cardinality(Events) = 5 /\ \A S \in Stories : S \subseteq Events
    /\ DOMAIN Audience = Events /\ \A e \in Events : IsFiniteSet(Audience[e])
    /\ Cardinality({Job, NoProc} \ Intakes) = 2 /\ NoOne \notin Agents
    /\ MaxMishaps \in Nat

VARIABLES
    happens,    \* the events GitHub is going to produce
    sent,       \* those it has produced
    issue,      \* the issue at GitHub: Opened while open, else its current closing
    \* the database
    event,      \* the row of each event in events: none, stored, handled
    row,        \* the status of each row of event_outbox
    finished,   \* review_lifecycle.finished_at is set
    queue,      \* the queued message of each send
    acked,      \* agents that acknowledged the issue
    \* the service
    flying,     \* _in_flight
    locked,     \* the holder of each event's outbox lock
    reviewing,  \* the holder of the review lock
    pc,         \* where each task is
    on, to,     \* its event and its recipient
    left,       \* recipients it found unresolved and still has to send to
    again,      \* the plan was there before this pass (retry)
    got,        \* the receipt it is about to write
    picked,     \* events the job still has to visit
    mishaps,
    \* history
    told,       \* how often each recipient was shown the event
    cutOff,     \* how often a send lost its receipt
    tried,      \* closings whose parents were checked (on_dependency_resolved)
    overtaken   \* a newer closing was stored before the older one purged

github == <<happens, sent, issue>>
locals == <<pc, on, to, left, again, got>>
locks == <<locked, reviewing>>
history == <<told, cutOff, tried, overtaken>>
vars == <<github, event, row, finished, queue, acked, flying, locks, locals, picked,
          mishaps, history>>

Resolved == {"delivered", "queued", "skipped"}
Unresolved == {"pending", "failed"}
Waits == {"waiting", "leased", "held"}

TypeOK ==
    /\ happens \in Stories /\ sent \subseteq happens /\ issue \in {Opened} \cup Closes
    /\ event \in [Events -> {"none", "stored", "handled"}]
    /\ row \in [Sends -> {"none"} \cup Unresolved \cup Resolved]
    /\ finished \in BOOLEAN
    /\ queue \in [Sends -> {"none", "gone"} \cup Waits]
    /\ acked \subseteq Agents /\ flying \subseteq Events
    /\ locked \in [Events -> Tasks \cup {NoProc}] /\ reviewing \in Tasks \cup {NoProc}
    /\ pc \in [Tasks -> {"idle", "route", "close", "purge", "plan", "rows",
                         "valid", "send", "paste", "receipt", "parents", "finish", "next"}]
    /\ on \in [Tasks -> Events] /\ to \in [Tasks -> Agents \cup {NoOne}]
    /\ left \in [Tasks -> SUBSET Agents] /\ again \in [Tasks -> BOOLEAN]
    /\ got \in [Tasks -> {"failed", "delivered", "queued"}]
    /\ picked \subseteq Events
    /\ mishaps \in 0 .. MaxMishaps
    /\ told \in [Sends -> Nat] /\ cutOff \in [Sends -> Nat] /\ tried \subseteq Closes
    /\ overtaken \in BOOLEAN

Idle ==
    /\ pc = [t \in Tasks |-> "idle"] /\ on = [t \in Tasks |-> Opened]
    /\ to = [t \in Tasks |-> NoOne] /\ left = [t \in Tasks |-> {}]
    /\ again = [t \in Tasks |-> FALSE] /\ got = [t \in Tasks |-> "failed"]

Init ==
    /\ happens \in Stories /\ sent = {} /\ issue = Opened
    /\ event = [e \in Events |-> "none"] /\ row = [s \in Sends |-> "none"]
    /\ finished = FALSE /\ queue = [s \in Sends |-> "none"] /\ acked = {}
    /\ flying = {} /\ locked = [e \in Events |-> NoProc] /\ reviewing = NoProc
    /\ Idle /\ picked = {}
    /\ mishaps = 0
    /\ told = [s \in Sends |-> 0] /\ cutOff = [s \in Sends |-> 0] /\ tried = {} /\ overtaken = FALSE

(***************************************************************************)
(* Helpers                                                                 *)
(***************************************************************************)
Goto(t, place) == pc' = [pc EXCEPT ![t] = place]

Mishap == mishaps < MaxMishaps /\ mishaps' = mishaps + 1

\* What a task works on: the send of its event to its recipient.
Mine(t) == <<on[t], to[t]>>

HasRows(e) == \E a \in Audience[e] : row[<<e, a>>] # "none"
Open(e) == {a \in Audience[e] : row[<<e, a>>] \in Unresolved}

\* UPDATE event_outbox ... WHERE status IN ('pending', 'failed').
SetStatus(S, status) ==
    row' = [s \in Sends |-> IF s \in S /\ row[s] \in Unresolved THEN status ELSE row[s]]

\* The newest stored closing, by its closed_at.
Latest == IF event[Newer] # "none" THEN Newer ELSE Older

\* A notice of this event no longer says what GitHub says
\* (current_notification_issue, notification_still_targets).
Obsolete(e) == e \in OfIssue /\ issue # e

\* The task lets go of its event.
Leave(t) ==
    /\ flying' = IF t \in Intakes THEN flying \ {on[t]} ELSE flying
    /\ on' = [on EXCEPT ![t] = Opened] /\ again' = [again EXCEPT ![t] = FALSE]
    /\ Goto(t, IF t = Job THEN "next" ELSE "idle")

(***************************************************************************)
(* GitHub and the agents                                                   *)
(***************************************************************************)
Produce(e) ==
    /\ e \in happens \ sent
    /\ e \in Closes => issue = Opened
    /\ e = Newer => Older \in sent
    /\ sent' = sent \cup {e} /\ UNCHANGED happens
    /\ issue' = IF e \in Closes THEN e ELSE issue
    /\ UNCHANGED <<event, row, finished, queue, acked, flying, locks, locals, picked,
                   mishaps, history>>

Reopen ==
    /\ issue = Older /\ Newer \in happens
    /\ issue' = Opened
    /\ UNCHANGED <<happens, sent, event, row, finished, queue, acked, flying, locks, locals, picked,
                   mishaps, history>>

Acknowledge(a) ==
    /\ <<Opened, a>> \in Sends /\ a \notin acked /\ Opened \in sent
    /\ acked' = acked \cup {a}
    /\ UNCHANGED <<github, event, row, finished, queue, flying, locks, locals, picked,
                   mishaps, history>>

(***************************************************************************)
(* An intake task: dispatch_event                                          *)
(***************************************************************************)
\* record: a new row, or the row of an attempt that did not finish. A handled
\* event, and one in flight, are only refused.
Begin(t, e) ==
    /\ pc[t] = "idle" /\ e \in sent \ flying /\ event[e] # "handled"
    /\ flying' = flying \cup {e}
    /\ event' = [event EXCEPT ![e] = "stored"]
    /\ on' = [on EXCEPT ![t] = e]
    /\ Goto(t, IF e = Opened THEN "plan" ELSE "route")
    /\ UNCHANGED <<github, row, finished, queue, acked, locks, to, left, again, got, picked,
                   mishaps, history>>

RouteStart(t) ==
    /\ pc[t] = "route" /\ on[t] = Start
    /\ Goto(t, IF finished THEN "finish" ELSE "plan")
    /\ UNCHANGED <<github, event, row, finished, queue, acked, flying, locks, on, to, left,
                   again, got, picked, mishaps, history>>

\* Fault: a review is finished while its start is being pasted.
RouteSubmitUnlocked(t) ==
    /\ pc[t] = "route" /\ on[t] = Submit
    /\ finished' = TRUE
    /\ queue' = [s \in Sends |-> IF s[1] = Start /\ queue[s] \in {"waiting", "leased"}
                                 THEN "gone" ELSE queue[s]]
    /\ SetStatus({s \in Sends : s[1] = Start}, "skipped")
    /\ Goto(t, "plan")
    /\ UNCHANGED <<github, event, acked, flying, locks, on, to, left, again, got, picked,
                   mishaps, history>>

\* finish_review, under the review lock: the starts still queued or planned retire.
RouteSubmit(t) ==
    /\ pc[t] = "route" /\ on[t] = Submit /\ reviewing = NoProc
    /\ finished' = TRUE
    /\ queue' = [s \in Sends |-> IF s[1] = Start /\ queue[s] \in {"waiting", "leased"}
                                 THEN "gone" ELSE queue[s]]
    /\ SetStatus({s \in Sends : s[1] = Start}, "skipped")
    /\ Goto(t, "plan")
    /\ UNCHANGED <<github, event, acked, flying, locks, on, to, left, again, got, picked,
                   mishaps, history>>

\* discard_issue: the open notices of the issue's other events retire; an
\* older closing goes no further.
RouteClose(t) ==
    /\ pc[t] = "route" /\ on[t] \in Closes
    /\ SetStatus({s \in Sends : s[1] \in OfIssue \ {Latest}}, "skipped")
    /\ Goto(t, IF on[t] = Latest THEN "close" ELSE "finish")
    /\ UNCHANGED <<github, event, finished, queue, acked, flying, locks, on, to, left, again,
                   got, picked, mishaps, history>>

\* Fault: an issue's queue is purged again when its closing is replayed.
AlwaysPurge(t) ==
    /\ pc[t] = "close"
    /\ Goto(t, "purge")
    /\ UNCHANGED <<github, event, row, finished, queue, acked, flying, locks, on, to, left,
                   again, got, picked, mishaps, history>>

\* A closing whose notice is planned already was purged for: it only resumes.
CloseOnce(t) ==
    /\ pc[t] = "close"
    /\ Goto(t, IF HasRows(on[t]) THEN "plan" ELSE "purge")
    /\ UNCHANGED <<github, event, row, finished, queue, acked, flying, locks, on, to, left,
                   again, got, picked, mishaps, history>>

\* on_issue_closed: the issue's queued messages go. (Which issue the target gets
\* next is IssueGate's.) A failed purge is only logged.
Purge(t) ==
    /\ pc[t] = "purge"
    /\ \/ /\ queue' = [s \in Sends |-> IF s[1] \in OfIssue /\ queue[s] \in Waits
                                       THEN "gone" ELSE queue[s]]
          /\ UNCHANGED mishaps
       \/ Mishap /\ UNCHANGED queue
    /\ overtaken' = (overtaken \/ on[t] # Latest)
    /\ Goto(t, "plan")
    /\ UNCHANGED <<github, event, row, finished, acked, flying, locks, on, to, left, again,
                   got, picked, told, cutOff, tried>>

\* on_dependency_resolved: a parent may be unblocked.
Parents(t) ==
    /\ pc[t] = "parents"
    /\ tried' = tried \cup {on[t]}
    /\ Goto(t, "finish")
    /\ UNCHANGED <<github, event, row, finished, queue, acked, flying, locks, on, to, left,
                   again, got, picked, mishaps, told, cutOff, overtaken>>

(***************************************************************************)
(* flush_outbox, run by an intake task and by the job                      *)
(***************************************************************************)
\* Fault: a resumed pass sends to every recipient again.
EveryRow(e) == Audience[e]

\* A resumed pass sends to the recipients that are still unresolved.
StillOpen(e) == Open(e)

\* Under the event's lock: the stored plan is resumed, or a new one is stored.
Plan(t) ==
    /\ pc[t] = "plan" /\ locked[on[t]] = NoProc
    /\ locked' = [locked EXCEPT ![on[t]] = t]
    /\ again' = [again EXCEPT ![t] = HasRows(on[t])]
    /\ IF HasRows(on[t])
       THEN /\ left' = [left EXCEPT ![t] = StillOpen(on[t])]
            /\ UNCHANGED row
       ELSE LET over == on[t] = Start /\ finished
                new == {on[t]} \X Audience[on[t]]
            IN /\ row' = [s \in Sends |-> IF s \notin new THEN row[s]
                                          ELSE IF over THEN "skipped" ELSE "pending"]
               /\ left' = [left EXCEPT ![t] = IF over THEN {} ELSE Audience[on[t]]]
    /\ Goto(t, "rows")
    /\ UNCHANGED <<github, event, finished, queue, acked, flying, reviewing, on, to, got,
                   picked, mishaps, history>>

\* The recipient's turn is over with this status.
Done(t, status) ==
    /\ SetStatus({Mine(t)}, status)
    /\ left' = [left EXCEPT ![t] = @ \ {to[t]}]
    /\ to' = [to EXCEPT ![t] = NoOne] /\ got' = [got EXCEPT ![t] = "failed"]
    /\ Goto(t, "rows")

\* A start whose review is over, an issue its recipient acknowledged.
Skips(e, a) == (e = Start /\ finished) \/ (e = Opened /\ a \in acked)

\* A start first takes the review lock.
Entry(e) == IF e = Start THEN "send" ELSE "paste"

NextRow(t, a) ==
    /\ pc[t] = "rows" /\ a \in left[t]
    /\ IF Skips(on[t], a)
       THEN /\ SetStatus({<<on[t], a>>}, "skipped")
            /\ left' = [left EXCEPT ![t] = @ \ {a}]
            /\ UNCHANGED <<pc, to>>
       ELSE /\ to' = [to EXCEPT ![t] = a]
            /\ Goto(t, IF again[t] THEN "valid" ELSE Entry(on[t]))
            /\ UNCHANGED <<row, left>>
    /\ UNCHANGED <<github, event, finished, queue, acked, flying, locks, on, again, got, picked,
                   mishaps, history>>

\* A resumed send is checked against GitHub first; an error there is a failed try.
Valid(t) ==
    /\ pc[t] = "valid"
    /\ \/ /\ Obsolete(on[t])
          /\ Done(t, "skipped") /\ UNCHANGED mishaps
       \/ /\ ~Obsolete(on[t])
          /\ Goto(t, Entry(on[t])) /\ UNCHANGED <<row, left, to, got, mishaps>>
       \/ Mishap /\ Done(t, "failed")
    /\ UNCHANGED <<github, event, finished, queue, acked, flying, locks, on, again, picked,
                   history>>

\* review_delivery: a start is sent under the review lock, and only while its
\* review is open.
Enter(t) ==
    /\ pc[t] = "send" /\ reviewing = NoProc
    /\ IF finished
       THEN /\ got' = [got EXCEPT ![t] = "delivered"]
            /\ Goto(t, "receipt") /\ UNCHANGED reviewing
       ELSE /\ reviewing' = t
            /\ Goto(t, "paste") /\ UNCHANGED got
    /\ UNCHANGED <<github, event, row, finished, queue, acked, flying, locked, on, to, left,
                   again, picked, mishaps, history>>

\* safe_deliver: it waits or is held already (held_receipt); pasted; pasted without
\* confirmation and held, or not even that; not pasted and queued; or not pasted and
\* not queued: an issue's gate turned it away (IssueGate), or storing it failed.
Sending(t) ==
    LET s == Mine(t)
        shown == told' = [told EXCEPT ![s] = @ + 1]
        says(g) == got' = [got EXCEPT ![t] = g]
        known == queue[s] \in Waits
    IN \/ known /\ says("queued") /\ UNCHANGED <<queue, mishaps, told, cutOff>>
       \/ ~known /\ shown /\ says("delivered") /\ UNCHANGED <<queue, mishaps, cutOff>>
       \/ /\ ~known /\ (shown \/ UNCHANGED told)
          /\ queue' = [queue EXCEPT ![s] = "held"]
          /\ says("queued") /\ UNCHANGED <<mishaps, cutOff>>
       \/ /\ ~known /\ shown /\ Mishap
          /\ cutOff' = [cutOff EXCEPT ![s] = @ + 1]
          /\ says("failed") /\ UNCHANGED queue
       \/ /\ ~known
          /\ queue' = [queue EXCEPT ![s] = "waiting"]
          /\ says("queued") /\ UNCHANGED <<mishaps, told, cutOff>>
       \/ /\ ~known /\ IF on[t] = Opened THEN UNCHANGED mishaps ELSE Mishap
          /\ says("failed") /\ UNCHANGED <<queue, told, cutOff>>

Paste(t) ==
    /\ pc[t] = "paste"
    /\ Sending(t)
    /\ reviewing' = IF reviewing = t THEN NoProc ELSE reviewing
    /\ Goto(t, "receipt")
    /\ UNCHANGED <<github, event, row, finished, acked, flying, locked, on, to, left, again,
                   picked, tried, overtaken>>

\* The receipt; when writing it fails, the handler's own write calls it a failure.
Receipt(t) ==
    /\ pc[t] = "receipt"
    /\ \/ Done(t, got[t]) /\ UNCHANGED <<mishaps, cutOff>>
       \/ /\ Mishap
          /\ Done(t, "failed")
          /\ cutOff' = [cutOff EXCEPT ![Mine(t)] = IF got[t] = "failed" THEN @ ELSE @ + 1]
    /\ UNCHANGED <<github, event, finished, queue, acked, flying, locks, on, again, picked,
                   told, tried, overtaken>>

\* The pass is over. Only a first pass of a closing goes on to the parents.
Flushed(t) ==
    /\ pc[t] = "rows" /\ left[t] = {}
    /\ locked' = [locked EXCEPT ![on[t]] = NoProc]
    /\ Goto(t, IF on[t] \in Closes /\ ~again[t] THEN "parents" ELSE "finish")
    /\ UNCHANGED <<github, event, row, finished, queue, acked, flying, reviewing, on, to,
                   left, again, got, picked, mishaps, history>>

\* finish_event: handled once no recipient is unresolved. A failed write is logged.
Finish(t) ==
    /\ pc[t] = "finish"
    /\ \/ /\ event' = [event EXCEPT ![on[t]] = IF Open(on[t]) = {} THEN "handled" ELSE @]
          /\ UNCHANGED mishaps
       \/ Mishap /\ UNCHANGED event
    /\ Leave(t)
    /\ UNCHANGED <<github, row, finished, queue, acked, locks, to, left, got, picked,
                   history>>

\* An exception on the way, the failure to write any receipt among them: the event
\* stays unhandled.
Abandon(t) ==
    /\ pc[t] \in {"route", "close", "purge", "plan", "rows", "receipt"}
    /\ pc[t] = "rows" => left[t] # {}
    /\ Mishap
    /\ Leave(t)
    /\ locked' = [locked EXCEPT ![on[t]] = IF @ = t THEN NoProc ELSE @]
    /\ left' = [left EXCEPT ![t] = {}] /\ to' = [to EXCEPT ![t] = NoOne]
    /\ got' = [got EXCEPT ![t] = "failed"]
    /\ cutOff' = [s \in Sends |-> cutOff[s] +
                    IF pc[t] = "receipt" /\ got[t] # "failed" /\ s = Mine(t) THEN 1 ELSE 0]
    /\ UNCHANGED <<github, event, row, finished, queue, acked, reviewing, picked, told, tried,
                   overtaken>>

Flush(t) ==
    \/ Plan(t) \/ Valid(t) \/ Enter(t) \/ Paste(t) \/ Receipt(t) \/ Flushed(t) \/ Finish(t)
    \/ Abandon(t)
    \/ \E a \in Agents : NextRow(t, a)

Dispatch(t) ==
    \/ RouteStart(t) \/ RouteSubmit(t) \/ RouteClose(t)
    \/ CloseOnce(t) \/ Purge(t) \/ Parents(t) \/ Flush(t)

(***************************************************************************)
(* The delivery-retry job: retry_outbox                                    *)
(***************************************************************************)
\* Fault: an event whose rows are all resolved is not looked at again.
JobPickOpen ==
    /\ pc[Job] = "idle"
    /\ picked' = {e \in Events : event[e] = "stored" /\ Open(e) # {}}
    /\ picked' # {}
    /\ Goto(Job, "next")
    /\ UNCHANGED <<github, event, row, finished, queue, acked, flying, locks, on, to, left,
                   again, got, mishaps, history>>

\* pending_events: unhandled events that have rows. (The code takes twenty, the
\* oldest unresolved attempt first: here they are all within those.)
JobPick ==
    /\ pc[Job] = "idle"
    /\ picked' = {e \in Events : event[e] = "stored" /\ HasRows(e)}
    /\ picked' # {}
    /\ Goto(Job, "next")
    /\ UNCHANGED <<github, event, row, finished, queue, acked, flying, locks, on, to, left,
                   again, got, mishaps, history>>

JobNext ==
    /\ pc[Job] = "next"
    /\ \/ \E e \in picked : /\ on' = [on EXCEPT ![Job] = e]
                            /\ picked' = picked \ {e}
                            /\ Goto(Job, "plan")
       \/ picked = {} /\ Goto(Job, "idle") /\ UNCHANGED <<on, picked>>
    /\ UNCHANGED <<github, event, row, finished, queue, acked, flying, locks, to, left, again,
                   got, mishaps, history>>

JobStep == JobPick \/ JobNext \/ Flush(Job)

(***************************************************************************)
(* The queue drain, for the messages these sends left in the queue.        *)
(* SafeDelivery has its steps; here a leased message is pasted, held or    *)
(* retired at once, a start under the review lock.                         *)
(***************************************************************************)
DrainLease(s) ==
    /\ queue[s] = "waiting"
    /\ queue' = [queue EXCEPT ![s] = "leased"]
    /\ UNCHANGED <<github, event, row, finished, acked, flying, locks, locals, picked, mishaps,
                   history>>

DrainSend(s) ==
    LET over == Obsolete(s[1]) \/ (s[1] = Opened /\ s[2] \in acked)
                               \/ (s[1] = Start /\ finished)
    IN /\ queue[s] = "leased"
       /\ s[1] = Start => reviewing = NoProc
       /\ \/ /\ ~over
             /\ told' = [told EXCEPT ![s] = @ + 1]
             /\ \E status \in {"gone", "held"} : queue' = [queue EXCEPT ![s] = status]
          \/ /\ \E status \in IF over THEN {"gone"} ELSE {"waiting", "held"} :
                    queue' = [queue EXCEPT ![s] = status]
             /\ UNCHANGED told
       /\ UNCHANGED <<github, event, row, finished, acked, flying, locks, locals, picked,
                      mishaps, cutOff, tried, overtaken>>

(***************************************************************************)
(* The service dies and starts again                                       *)
(***************************************************************************)
\* Its tasks, locks and keys in flight are gone. A lease is swept back into the
\* queue.
Crash ==
    /\ Mishap
    /\ \E t \in Tasks : pc[t] # "idle"
    /\ cutOff' = [s \in Sends |-> cutOff[s] +
                    Cardinality({t \in Tasks : pc[t] = "receipt" /\ got[t] # "failed"
                                                 /\ Mine(t) = s})]
    /\ queue' = [s \in Sends |-> IF queue[s] = "leased" THEN "waiting" ELSE queue[s]]
    /\ pc' = [t \in Tasks |-> "idle"] /\ on' = [t \in Tasks |-> Opened]
    /\ to' = [t \in Tasks |-> NoOne] /\ left' = [t \in Tasks |-> {}]
    /\ again' = [t \in Tasks |-> FALSE] /\ got' = [t \in Tasks |-> "failed"]
    /\ picked' = {} /\ flying' = {}
    /\ locked' = [e \in Events |-> NoProc] /\ reviewing' = NoProc
    /\ UNCHANGED <<github, event, row, finished, acked, told, tried, overtaken>>

Next ==
    \/ \E e \in Events : Produce(e)
    \/ Reopen
    \/ \E a \in Agents : Acknowledge(a)
    \/ \E t \in Intakes : Dispatch(t) \/ \E e \in Events : Begin(t, e)
    \/ JobStep \/ Crash
    \/ \E s \in Sends : DrainLease(s) \/ DrainSend(s)

\* A task of the event loop that can go on does, and the job runs again and
\* again. Nothing says that an intake ever sees an event again.
Fairness ==
    /\ \A t \in Intakes : WF_vars(Dispatch(t))
    /\ WF_vars(JobStep)

Spec == Init /\ [][Next]_vars /\ Fairness

(***************************************************************************)
(* Properties                                                              *)
(***************************************************************************)
\* What may make a notice unnecessary: the review is over, the recipient knows the
\* issue, or the issue has moved on.
Excused(e, a) ==
    \/ e = Start /\ finished
    \/ e = Opened /\ (a \in acked \/ Older \in sent)
    \/ e = Older /\ issue # Older
    \/ e = Newer /\ overtaken

\* An event marked as handled has reached each of its recipients, waits for it in
\* the queue, or is no longer of interest to it: no failure, crash, purge or
\* later event takes a notice away (_outbox_repo.py finish_event, discard_issue).
NothingDropped ==
    \A s \in Sends : event[s[1]] = "handled" =>
        told[s] > 0 \/ queue[s] \in Waits \/ Excused(s[1], s[2])

\* A recipient is shown an event again only after a send of it lost its receipt to
\* a crash or a failed write (docs/github.md, Delivery receipts and retries).
RepeatedOnlyWhenCutOff == \A s \in Sends : told[s] <= 1 + cutOff[s]

\* Nobody is told that a review has started once it is known to have finished,
\* by the outbox or by the queue (_events_repo.py review_delivery).
NoLateStart ==
    [][\A s \in Sends : s[1] = Start /\ told'[s] > told[s] => ~finished]_vars

\* A handled closing has had the issue's parents checked for being unblocked
\* (docs/how-it-works.md, close-then-next, step 4).
ParentsChecked ==
    \A e \in Closes : event[e] = "handled" /\ e \notin flying /\ issue = e => e \in tried

\* A plan once stored is carried through, whatever cut off its first pass: its
\* event is handled in the end (an offer of an issue unless its gate stays shut).
PlanResumed ==
    \A e \in Events \ {Opened} :
        (event[e] = "stored" /\ HasRows(e)) ~> event[e] = "handled"
=============================================================================

# Delivery in agent-backbone: a TLA+ development

agent-backbone runs coding agents in tmux sessions and delivers messages to
them: direct messages between agents, notices about GitHub issues, startup
briefs, messages an owner has signed. A message is pasted into the agent's input
box when the agent sits at its prompt, and waits in a database queue otherwise.
The difficult part is everything that happens between "may I paste" and "it is
recorded that I pasted", with an inbox, an expiry job, a lease sweep, a key
reset and a restart all acting on the same rows. Around it are the protocols that
decide what is delivered and when: GitHub events and their outbox, one issue at a
time, steers into a running turn, and the restart of an agent. That is what these
modules are about.

All paths below are relative to the repository root, with `services/` short for
`src/agent_backbone/services/`, and `hooks/`, `api/`, `integrations/` for the
directories of `src/agent_backbone/` and its services.

## 1. Inventory

| Component | State it keeps | Operations | What is hard | What makes it correct |
|---|---|---|---|---|
| **Message queue** `services/database/_queue_repo.py` | rows of `message_queue`: status, lease, age, registration, duplicate key | enqueue, dequeue (lease), release, mark delivered, hold, expire, purge, inbox read and acknowledgment, brief retirement | every caller is a separate transaction; a release, a completion or a hold may come long after the row changed | one waiting row per message; a shown, unconfirmed or finished row is never delivered again; expiry respects holds |
| **Safe delivery** `services/routing/_delivery.py`, `services/agents/_locks.py` | a lifecycle lock and a session lock per agent, a revocation guard per process | `safe_deliver`, `checkpoint_inbox` | checks and the paste are separated by awaits; the paste has five outcomes, one of them "perhaps" | the checks still hold when the paste is made |
| **Queue drain and retry** `services/jobs/retry.py` | the `_draining` set, a batch of leased rows | drain a session, sweep leases, expire, retry issue dispatches | leases are taken outside the session lock; the sweep goes by age | no row stays leased, none is lost, the queue moves |
| **Owner-confirmed messages** `services/database/_signing_repo.py`, `api/routes/messages.py`, Telegram `/approve_key` | receipts, attempts, delivery records | admit, attempt, record, key reset | a reset races a delivery; a paste interrupted before its record | pasted at most once, never after a revocation |
| **Launch and operations** `services/agents/launch.py`, `operations.py` | the session, its brief | start, stop, forget | a brief of an earlier launch may be leased or held | the brief goes first and is this launch's |
| **Agent registry** `services/database/_agents_repo.py`, `agents/store.py` | agents, registration identities, inbox-only flag | register, update, forget, rename | a name is reused while rows of the old registration are leased | rows only reach the registration they were queued for |
| **Terminal and runtimes** `services/terminal/`, `services/runtimes/` | tmux sessions | paste, submit, capture | tmux may answer late; submission is inferred from the screen | reports "not pasted" only when that is certain |
| **Hook context offers** `hooks/backbone_state.py` | offer and claim files per queue row | offer, claim by rename, take, prune | two processes rename the same file | a batch reaches the agent as context or as a paste, not both, not neither |
| **Steering** `services/routing/_steer.py` | steer files and receipts | offer a steer, claim a confirmed one, take or retire it, settle it | the turn ends while the steer is offered; two requests with one confirmation | a steer is taken in its own turn, once, and reported as what it became |
| **Issue gate and delivery records** `services/database/_delivery_repo.py`, `_acks_repo.py` | deliveries with claims, acknowledgments | claim, finalize, reclaim, retire; gate on an unacknowledged issue | a claim outlives its process; the gate goes by an earlier listing | one unacknowledged issue at a time, each shown once, none forgotten |
| **Event ingest and outbox** `services/routing/_ingest.py`, `_outbox.py` | events, outbox rows, review lifecycle | record once, plan, send, resume | a failure or a restart anywhere between the record and the last receipt | every recipient is reached, once; no review starts after it ended |
| **Issue lifecycle** `services/routing/_lifecycle.py` | – | on close: purge, unblock, dispatch the next | order of purge and dispatch | the next issue is dispatched after the close |
| **Subscriptions, sources** `services/routing/_subscriptions.py`, `services/sources/` | batches that grow while they wait | append, split, offer | a batch grows while it is leased or offered | each line is delivered once |
| **Restart transitions** `services/agents/transitions.py`, `services/jobs/transitions.py` | a transition per agent, its launch identity and outcome | stop, start, continue, recover | a crash between any two steps; people acting on the same agent | a restart ends, reaches its registration only, and hands over its continuation once |
| State inference, router and targets, fleet and swarms, documents/plans/reports/sheets/conversations, provider profiles, monitors and scheduler, Telegram, sockets, HTTP API, CLI, configuration, usage, skills, templates, migrations | see `PROJECT.json` | | mostly data, parsing or presentation | not part of this development so far |

**How they interact.** Requests (API, Telegram, CLI, router) call
`safe_deliver`. It takes the agent's lifecycle lock and session lock, reads the
queue, asks for the agent's state, pastes, and stores what it could not deliver.
The retry job sweeps stale leases, expires old rows and drains each session:
it leases up to five rows, and calls the same `safe_deliver` for each with
`requeue=False`. A signed message is admitted (receipt and row in one
transaction) and drained at once. `backbone inbox` reads and acknowledges rows
under the same locks. A launch holds the lifecycle lock while it retires the
earlier briefs, queues its own and creates the session. Forgetting an agent
takes the lifecycle lock; a key reset takes only the revocation guard; a closed
issue, the lease sweep and the expiry take no lock at all.

A GitHub event is stored, its recipients are planned in one transaction, and each
is sent to through `safe_deliver`; a replay or the retry job resumes a plan that was
cut off. Dispatcher, monitor, close-then-next and retry job all offer an agent its
open issues; the gate inside `safe_deliver` lets one through at a time. A steer is
written as a file for the hook of the agent's runtime, which takes or retires it,
and a settler records what became of it. A restart is a row that a job advances
step by step and that any later process can take up.

The poll of a source hands an agent's subscribed events to `safe_deliver` as one
batch. A batch for a working agent is queued, and one of high priority is also
offered as a file that the hook in the agent's runtime may take.

The hazards of this code, each at its line, and the properties that would catch
it going wrong are in `PROJECT.json`.

## 2. Modules

| Module | What it is |
|---|---|
| `MessageQueue` | one agent's rows of `message_queue`; one action per transaction |
| `MCMessageQueue` | the properties of the table, with one history variable |
| `SafeDelivery` | the whole of delivery over that table: requests, the drain, inbox, confirmations, launch, registry, crash; EXTENDS `MessageQueue` |
| `MessageQueueProofs`, `MCMessageQueueProofs` | lemmas about the transactions, theorems about the table |
| `MessageContract` | abstract: what is promised for an accepted direct message |
| `DeliveryContract` | the refinement mapping from `SafeDelivery` to `MessageContract` |
| `SafeDeliveryProofs` | the inductive invariant of delivery and the theorems that follow from it; at most one paste of an owner-confirmed message; that the mapping is a refinement; no direct message is lost, and none repeated but after a cut-off |
| `ContextOffer`, `MCContextOffer` | batches of subscribed events between the poll, the drain and the hook's process; its symmetry for TLC |
| `ContextOfferProofs` | the inductive invariant of the offers and the theorems that follow from it |
| `EventOutbox`, `MCEventOutbox` | a GitHub event from its record to its last receipt; the stories TLC runs |
| `EventOutboxProofs` | the inductive invariant of the outbox and the theorems that follow from it |
| `IssueGate` | the issues of one agent, offered by several tasks, one at a time |
| `IssueGateProofs` | the inductive invariant of the gate and the theorems that follow from it |
| `Steer`, `MCSteer` | a steer between its request, the agent's hook and the settler; the scenes TLC runs |
| `SteerProofs` | the inductive invariants of a steer and the theorems that follow from them |
| `Transition`, `MCTransition` | an accepted restart and everyone who acts on the same agent; the requests TLC runs |
| `TransitionProofs` | the inductive invariant of a restart and the theorems that follow from it |

`SafeDelivery` extends `MessageQueue`, and shows that it implements `QSpec`. The
other modules are self-contained: each sees a send from outside, as one or two steps
with the outcomes that matter to it, and models inside what `SafeDelivery` leaves out.
They meet in `safe_deliver`, whose sessions and locks they share by name.

### MessageQueue

A row has a status, the message it holds, its age, the age of its lease and the
registration it was queued for. A *message* stands for its duplicate key
(`dedup_key_for`): equal messages are the same element of `Messages`. The sets
`Briefs`, `Confirmed`, `Comments` and the rest (`Direct`) are the kinds the code
tells apart; `Notice` is the expiry notice, whose rows have a fresh duplicate key
each. Row numbers follow the order of insertion, which is the order of
`enqueued_at`. `absent` is a row not yet inserted.

Time is kept as ages that stop growing once past every limit they are compared
with, so the model has no clock and no bound on its length. `grace` is the age of
the newest `uncertain-acknowledged` or `uncertain-retired` delivery record, which
`expire_pending` looks for. A lease age is 0 in a row that is not leased (the
code clears `leased_at` in most transactions; nothing reads it there).

`QSpec` lets the transactions run in any order a client of the table could
issue them: a superset of what the system does, which also covers a drain in
another process (`drain_agent` from the CLI), which has none of the locks.

### SafeDelivery

One process per request (`Senders`), one drain (the `_draining` set keeps a
second one out), one launcher. `pc[p]` is the place in `safe_deliver` (or in
`_drain_session`, `_start_agent`), and a step is what runs between two awaits at
which something else can change what the code depends on:

| Place | Code |
|---|---|
| `lock` | waiting for the lifecycle and session locks, which a delivery takes together (`_serialized`) |
| `registration`, `guard`, `confirm`, `leased` | the checks of `_serialized` for a queued row |
| `held` | `held_receipt`, for a request |
| `ready`, `gate` | the readiness check; `has_uncertain` and `has_brief_ahead` |
| `attempt`, `paste`, `finish` | `signing.attempt`, `send_message`, `finish` |
| `mark`, `release`, `next` | the drain after `safe_deliver`, its `finally`, its loop |
| `brief`, `session` | the launch after the retirement: queueing the brief, creating the session |

A paste ends in one of: `sent` (submission confirmed), `unsure`
(`SubmissionUnconfirmed`: held as uncertain), `failed` (not pasted), `refused`
(the runtime refuses notifications: held for the inbox), `error` (any other
exception; nothing is stored). A history variable counts for each row how often
its text may have reached the terminal (`got`), what the inbox has returned
(`shown`), whose delivery was cut off (`cutOff`) and the launch a brief was
queued for (`briefOf`). Nothing but the properties reads them.

The retry job's sweeps, the purge of a closed issue, inbox reads and
acknowledgments, admissions, key resets, changes of the agent's state,
registration changes and the death of the service may happen between any two
steps, under the locks the code takes for them.

### ContextOffer

Self-contained: its rows are subscription batches, which `SafeDelivery` leaves
out. The service and the hook share nothing but two files per row: `offer[i]` is
the text of `<id>.md` (`{}`: no file), `taken` the rows with `<id>.taken`. A
`.claimed` file is read by nobody and is left out. A message is the set of its
lines, a line an event; the order of lines in a batch is abstracted.

- **The poll** (`PollStep`): `dispatch_source_events` for one batch, then
  `safe_deliver` with `requeue=True` step by step. `PollQueue` is the whole
  transaction of `enqueue_subscription`: known lines dropped, offers withdrawn
  when the batch is kept for the inbox, the open batch filled up to
  `SUBSCRIPTION_BATCH_LIMIT`, further rows opened. What it returns
  (`context_taken`, `context_offers`) is settled and offered afterwards, still
  under the session lock. `PollNote` stands for `mark_partial` and
  `mark_processed`: until then the source may hand the event back.
- **The drain** (`DrainStep`): lease, check, `claim_context` right before the
  paste, `record_hook_delivery` in its two steps (row, then receipt).
- **The hook** (`HookStep`): lists the offers, reads one, renames it. It may be
  killed between any two of these, and may run while the service is down.
- **Around them**: the session ends and starts (`clear_agent_context`), the
  inbox acknowledges, leases are swept whoever holds them, the prune job lists
  receipts, reads the active ids, removes the rest and deletes old rows, whose
  ids SQLite gives out again; the service dies.

`byHook`, `byPaste`, `cutOff`, `told` and `read` are history here. A batch is `cutOff`
when a crash came between its paste and its completion, or when a sweep took the
lease of the batch being delivered.

### MessageContract

A slot is a place a direct message can be stored in; its message is absent, waits,
is held or is over. It ends only once it may have reached its agent, or has lost its
authority; a held message is handed over by the inbox only. `DeliveryContract` maps
rows to slots (`PlaceOf`), what was pasted or shown to `reached`, and to `void` what
lost its authority: the name was registered again, the key was reset, or a later
launch replaced the brief. `KeepsContract` says every step of `SafeDelivery` is a step
of the contract or leaves it alone.

### EventOutbox

The events of one issue (opened, closed, closed again after a reopening) and of one
review (started, submitted). An intake (`Begin`: the record of `dispatch_event`;
`Route...`: what each kind of event does first, a closing its purge and its opener
notice, a review its lifecycle row; `Plan`: the plan of all recipients in one
transaction) and the retry job work the same outbox rows, each event under its lock.
A send is three steps: entering (`review_delivery` keeps a start out once its review is
finished), the paste or the queue, and the receipt; any of them may fail or be cut off
by the end of the service. `told`, `cutOff`, `tried` and `overtaken` are history.

### IssueGate

Tasks list the open issues (`scope`) and then wait for the session lock; the gate
is judged inside it against that earlier listing, as in the code. A send is: gate and
claim, the paste, the record, with the queue row for what did not get through.
`slot[i]` is the active row of `deliveries` with the conversation it was claimed in, so a
later conversation supersedes it; `Reclaim` takes orphaned claims by age. The agent
ends turns, acknowledges by comment or through its inbox, stops and starts anew.

### Steer

`aim` is the state record a request read, that is, the turn its steer is for.
The request's steps are those of `steer_agent` between awaits: for an
owner-confirmed one the admission and the claim of the receipt, then the profile lock
and the revocation guard, the row, the file, and the check that the turn still runs.
The hook writes its record first and takes or retires files after it, and may
die in between; `settle_steers` lists the files, then settles each row. `scene`
says what may happen at most in a behaviour.

### Transition

One row of `agent_transitions`. The job's steps are those between writes another process
can observe: stop, `mark_stopped`, `mark_launching` (the launch identity goes on record),
recovery of an earlier launch, the checks and the launch, its recorded start, the
wait for readiness, the hand-over of the continuation and its record. People start,
stop, forget and register agents in between, as far as `profile_lock` and the
registration let them; the service may die after any step. A resumed hand-over that
finds its message recorded in this conversation (`Received`) or waiting in the queue
(`CopyWaits`, the `held_receipt` of `safe_deliver`) pastes nothing. `marks` records the events
that explain an exception a property names.

Definitions whose comment starts with **Fault** are not part of the system: each
is a variant of the definition after it with a plausible bug, kept to show that
a property fails without the line it leaves out.

## 3. Runs

| Run | Question | Instance |
|---|---|---|
| `queue_rows` | Is the table right whatever its clients do? Uniqueness of the waiting row, one-way status changes, which rows a sweep may expire and when | one message of each of four kinds, 3 rows, 2 registrations |
| `delivery` | Do the checks still hold at the paste? Is a confirmation pasted once, a shown message never, an ordinary one twice only after a cut-off? Is `MessageContract` kept? | a confirmation, a direct message, a notice about an issue; a request, the drain, the inbox, a reset, a crash; 2 rows (1.7 million states) |
| `launch` | Do briefs go first, and to their own launch? Do rows reach only their registration? Is a direct message ever lost? | 2 launches, 2 registrations, a brief and a direct message, pastes that land late, a crash; 2 rows (4.2 million states) |
| `locks_and_leases` | Does everyone let go of locks and leases? | fairness; a crash; one row |
| `queue_served` | Does a waiting direct message get its turn? | fairness; notices that cannot be checked ahead of it; 2 rows, batches of 2 |
| `context_offers` | Does a batch arrive once, as context or as a paste? Is no event lost or listed by two batches? Do offers and receipts belong to the batch they name? | one high and two normal events, batches of 2, 2 ids, 2 polls, a hook, a crash |
| `events` | Does every recipient of a handled event have it, once? Is a plan always carried through? Does a review start after its end? | three stories: a review, an issue closed twice, an issue opened for two agents; an intake, the job, one mishap (260 000 states) |
| `issue_gate` | Is one issue at a time given to a conversation, once, and does each get its turn? | fairness; 2 issues, the monitor, the retry job, 2 conversations, one mishap (250 000 states) |
| `steer` | Is a steer taken in its turn, once, and reported as what it became? Is none offered after the reset of its key, and is each settled? | two requests with one confirmation in a turn; one confirmed with a mishap; one plain over 2 turns and 2 sessions with a mishap (490 000 states) |
| `restart` | Does a restart end, with its continuation handed over once, its own session claimed, and no later holder of the name touched? | a stop, a restart with a message, bound and not; 5 conversations, 2 mishaps (260 000 states) |
| `parents_unchecked` | (violation) finding 1 | one closing, one mishap |

**Bounds.** `MaxRows` bounds the rows ever inserted, `MaxSends`, `MaxLaunches`,
`MaxCrashes` and `MaxReg` what their names say. They stop an action from being
taken, never a process halfway: `Room` keeps a row free for each request under
way. Two rows are enough for every conflict between a row being delivered and
one that is waiting, held or about to become uncertain; the second launch and the
second registration are what the launch properties compare with; one crash cuts
a delivery off anywhere. `LeaseLimit = Window = 0` makes one tick enough for a
lease to be stale and a row to be old: both are compared with `>` only, and a
tick may happen at any moment, so a larger limit allows fewer orders of events,
not more. Theorems carry the safety properties named below to all values. In
`context_offers` two polls are the batch and its replay, its successor, or the
batch that gets its id; `PollBegin` takes only what fits the free ids, so the
bound on ids stops no poll halfway. Events of one priority are interchangeable
(`SYMMETRY`; the run checks invariants only). A row is deleted only when its
events are noted: the retention is 30 days, a source hands events back for minutes.

In the four runs after it a *mishap* is a failed write, call or paste or the death of
a process, at any step. One is enough to cut off anything once; the second of `restart` also
cuts off a recovery, and `MaxTalks` leaves a conversation for each launch these allow
(proved: `RoomOK`). Two issues are a blocking and a blocked one. Two agents are needed
only where one recipient's receipt must not stand for another's. Two requests are the
holder of a claim and its rival. `LateTakeover = FALSE` in `steer`, `LatePaste = FALSE` in
`delivery`: see *Observations*.

**Fairness.** Nothing is assumed of people, of GitHub or of how often a hook runs;
what is assumed is that a task of the event loop that can go on does, and that
periodic jobs come round.

- `SafeDelivery` (`FairSpec`): weak fairness of each request, of the drain's start
  and steps and of the launch, whose awaits on the database, tmux (10 s) and locks
  end; of the lease sweep, which runs every minute; of time.
  `LockReleased` and `LeaseEnds` need no more. `QueueServed` is stated under
  `Calm`: from some time on the agent sits at its prompt, nothing is unconfirmed,
  pastes do not fail and no drain outlives its lease; without it an agent that never
  stops working rightly blocks the queue. The run has a batch no smaller than the
  number of rows: a batch filled by notices that cannot be checked would hold what is
  behind it until they expire.
- `EventOutbox`: each intake's steps and the job's. No intake need ever
  see an event again. `PlanResumed` leaves the opened issue out, whose gate may stay
  shut for good.
- `IssueGate`: strong fairness of the passes, since what waits for an asyncio lock is
  served in turn; weak fairness of a task's next step and of reclaiming. Of the agent:
  its turns end, a session that is down is started, and what it is shown is
  acknowledged; an agent that never answers rightly gets no further issue.
- `Steer`: the settler's tick (every 15 s), the requests' steps, and strong fairness of
  the expiry of an offer that the settler lists again and again.
- `Transition`: the job's next step (a tick every 5 s) and the drain.

Deadlock is checked in the runs of `MessageQueue`, `SafeDelivery`, `ContextOffer` and
`Steer`. `EventOutbox`, `IssueGate` and `Transition` may stop: when the events, issues
or conversations of the bound are used up there is nothing left to do.

## 4. Findings

1. **A closing that is resumed checks no parents** (`parents_unchecked`,
   `services/routing/_lifecycle.py:169`). `on_dependency_resolved` belongs to the first
   pass only. Cut off once its plan is stored, the event is finished by `flush_outbox`
   alone, and the parents of a closed sub-issue are never told.
   `docs/how-it-works.md:509` says that they are.

**Observations.** Where the code does less than a comment or a page says and no run is
spent on it, the properties state what does hold:

- `_run_tmux` stops waiting after 10 s and the paste counts as not made, while tmux may
  still run it: a confirmation can be pasted twice, though
  `docs/owner-confirmed-messages.md:352` says never. `ConfirmedPastedOnce` holds with
  `LatePaste = FALSE`; the properties of `launch` hold with late pastes as well.
- `enqueue_subscription` drops lines a row already holds; a replayed poll that finds the
  agent at its prompt never gets there and pastes them. Hence *batch* in
  `BatchArrivesOnce`, and `EventInOneBatch` about rows.
- `purge_for_issue` completes held rows that nobody acknowledged (`docs/cli.md:876`);
  `MessageContract` therefore promises nothing for notices about issues.
- `expire_stale_leases` takes leases by age, of drains that still run
  (its docstring: "the deliverer died mid-batch"); hence the cut-offs in
  `RepeatsOnlyWhenCutOff`.
- Briefs of an inbox-only agent never expire, as direct messages do not
  (`expire_pending`, docstring); a theorem says so (`QueueDirectNeverExpires`).
- A gate judged by an older listing lets a second unacknowledged issue through: the
  exception `crossed` of `OneAtATime`.
- A claim of a confirmed steer that is taken over between its check and the row
  (after its minute) lets two be offered: `LateTakeover = TRUE` violates `ConfirmedTakenOnce`.
- A restart whose session was replaced by hand while its readiness was awaited claims
  that one (`replaced`), and a second launch after one on record as failed is disowned
  when cut off, since `record_launch` keeps the failure (`relaunched`).

## 5. Theorems

Proved for every value of the constants that satisfies the named assumptions
(`QueueAssumption`, `DeliveryAssumption`, `TransitionAssumption`, `GateAssumption`,
`OutboxAssumption`, `SteerAssumption`, `OfferAssumption`: sets of message kinds are
disjoint, processes and events distinct, bounds natural numbers, audiences and events
finite), with any number of requests, rows, messages, conversations, issues, steers,
turns, batches, hooks, tasks and crashes.

*The table* (`MCMessageQueueProofs`). The type invariant, all properties of
`queue_rows`, and that no direct message expires by age (`QueueDirectNeverExpires`).
`MessageQueueProofs` shows for each transaction that it keeps the types, never
changes a row's message or owner, never lets a settled row (held or finished)
leave the settled statuses and never reopens a finished one; the theorems combine
these. Two need more than the types. `OneActiveRow` is its own
strengthening: a row becomes active only by an insert, which looks for an active
copy. `FullWindowAfterHold` needs `GraceCovers`: the newest receipt is at least
as recent as the last resolution of an unconfirmed direct message.

*Delivery* (`SafeDeliveryProofs`). None of the paste properties is inductive: a
check made at one place is used at another, several steps later. `IInv` adds

- `PlacesOK`, `BatchOK`: a process is only where its code takes it, and the drain
  works on rows it leased;
- `LockHeld`: whoever is inside `safe_deliver` or a launch holds the session
  lock, so two are never inside together;
- `ShownOK`, `OwnerOK`, `UncertainOK`, `BriefOK`, `AuthorityOK`: what each check
  established is still true at every later place, because whoever could change
  it needs the same lock (or, for a reset, the revocation guard).

`DrainEnters`, `GateEntered`, `Inserted` and `NewUncertain` say once for all
actions how a process comes to a place and how a row comes to a status; each
conjunct's preservation cites them. From `IInv` follow `NeverOverUncertain`,
`OneChannel`, `ToItsRegistration`, `BriefBeforeWork`, `CurrentBrief` and
`NoRevokedPaste`. `DeliveryKeepsTable` shows that the system implements the
table: `Spec => QSpec`.

*At most one paste* (`SafeDeliveryProofs`). `PastedOnce` assumes
`LatePaste = FALSE`, that is, no paste that was given up on runs; the first
observation is what happens otherwise. Its invariant `OnceOK` says that a confirmation has one
row (the receipt is admitted once), that a pasted one has a recorded attempt, and
that the attempt is taken back only when nothing was pasted.

*The contract* (`SafeDeliveryProofs`). `NeverLost` (`DirectNeverLost`) and
`DeliveryKeepsContract` (`Spec => KeepsContract`) rest on `ReachOK`: a registration is not
given a second time, what the delivery record counts as delivered was pasted or shown, and
what a drain is about to paste still waits. With that, and with `ReachedStays` and
`VoidStays` (what a row reached, and what took its authority away, stays so), every step of `SafeDelivery` is one
step of a slot of `MessageContract` or a stutter. `RepeatsWhenCutOff`
(`RepeatsOnlyWhenCutOff`) again assumes `LatePaste = FALSE`; its invariant `CutOK` says that
a pasted row which still waits was cut off, unless it is the one the drain is about to
complete, and that a row back in the queue while it is delivered was swept.

*A restart* (`TransitionProofs`). `BoundToRegistration` (`OnlyTheAccepted`) and
`OwnSessionClaimed` (`ClaimsItsOwn`), from an invariant with four parts besides the types:
`HolderOK` (a running session has a registered agent), `RoomOK` (a conversation is left
for each launch still to come, which makes the types inductive), `BoundOK` (a launch
for a bound request is for registration 1, and nothing queued outlives that
registration) and `KnownOK` (the identity and the request of a launch are on record
before its session runs). `ContinuationOnce` (`OncePerConversation`) and
`CompletedHandedOver` (`ContinuationKept`) need more: `LocksOK` and `CountedOK` (who may
paste, and that what was pasted is recorded, about to be, or marked as cut off),
`RecordedOK` (a conversation that has the message has its receipt, and a waiting copy is for one
that does not) and `DatedOK` (the start that receipts are compared with is no older than the
row's own launch) and `HandedOK` (a receipt of that conversation stands for a paste, and a row
past its hand-over left a paste or a message in the queue).

*The gate* (`IssueGateProofs`). `GateOneAtATime` (`OneAtATime`) and `GateShownOnce`
(`ShownOnce`). `SendsOK` is the mutual exclusion of the sends; `ClaimsOK` says what a task
inside one knows of the claim it holds, `AwaitingOK` and `HeldOK` what an issue that awaits
its acknowledgement left in the database. From them `TurnOK` follows: at the gate a task
sees every issue given before, except those opened after the listing it was judged by.
`RowsOK` and `CountOK` count what the agent was shown against active claims, held rows and
lost receipts; a drain holds the lease of its row all the while.

*The outbox* (`EventOutboxProofs`). A task works under the lock of its event's plan, and an
intake alone has its event in flight (`LocksOK`, `FlightOK`). `NoticesNotDropped`
(`NothingDropped`) goes through `SettledOK`: a resolved row, and a receipt about to be
written, is that of a send that was shown, waits, or is excused, and no later step takes
that back. The purge is the case that needs `PlannedOK`: a closing is purged for before its
own notice is planned, so it removes the notices of the other events only, which it
excuses. `NoticesNotRepeated` (`RepeatedOnlyWhenCutOff`) is `CountOK`: what was shown, plus
what the queue is still going to show, is at most the lost receipts plus one, and that one
only where a receipt exists and no task has the recipient left to send to. `StartsNotLate`
(`NoLateStart`, an action property) needs that a paste of a start holds the review lock,
under which the review cannot finish.

The type invariants of these modules are theorems, so no run spends a property on them.

*A steer* (`SteerProofs`). Two invariants. `SteerInv` holds of every steer: `RecordOK` (the
hook's record names the last turn of its session, and a hook that takes offers runs in the
turn it recorded), `AimOK` (a request read a record no newer than the present one),
`FilesOK` (a file comes once, from its own request, and what was answered as refused has
none), `ListedOK` (what a settler listed is still so, or settled) and `RowsOK` (a row says
what became of its file). `SteerInItsTurn` (`InItsTurn`) is inductive next to the first two;
`SteerReportIsTrue` (`ReportIsTrue`) is read off the others. `ConfirmedInv` adds what holds
of a confirmed steer under `LateTakeover = FALSE`: `ClaimOK` (a steer that was taken, or
still may be, is the last attempt of the receipt and its request holds the claim) and
`GuardOK` (the guard is held from the check of the revocation to the file, and an authority
that outlives a reset is that of a steer known to be handed over). From them
`SteerTakenOnce`, `SteerReceiptKept` and the action property `SteerNotAfterReset`
(`ConfirmedTakenOnce`, `ReceiptKept`, `NoOfferAfterReset`).

*Hook offers* (`ContextOfferProofs`). The service and the hook share no lock, only the
renames of two files, so the invariant `OfferInv` says what each side may rely on between
them:

- `PlacesOK`, `RoomOK`, `CopyOK`: the poll and the drain are inside one at a time; what the
  poll still has to settle or offer, it has only there; an id is left for its batch; the
  text the drain leased is the row's while the lease lasts (an open batch grows only while
  it waits);
- `RowOK`: from the claim of its offer to its completion the drain's row has no offer, and
  it is leased unless a sweep took the lease, which marks it as cut off;
- `OfferOK`: an offer is of a high batch that waits or is leased, is its whole text, and
  has no receipt beside it; a receipt of an active batch was left by the hook that took
  this batch, and an id without a row has neither;
- `OldOK`: a row the prune job found finished still is, and its receipt is among those it
  listed, so it goes before the id can be used again;
- `CountOK`: a batch that is offered was not shown; one that waits and was taken has its
  receipt; one that was pasted is completed, held, or in the drain's hands;
- `KeptOK`: a completed batch was told or read, and so, or waiting, is every event that is
  noted or that the poll has stored and is about to note.

`OfferFilesMatch` (`FilesOfTheirBatch`) is read off `OfferOK`, `OfferArrivesOnce`
(`BatchArrivesOnce`) off `CountOK`, `OfferKeepsNoted` (`NotedEventIsKept`) off `KeptOK`;
`OfferInOneBatch` (`EventInOneBatch`) is inductive next to the types. Two lemmas carry the
transaction of the poll. `TopFree` shows, from the well-foundedness of the naturals, that
there is a highest id in use, so the ids above it are free. `QueueFacts` says once what
`enqueue_subscription` does to the table and the files, without how it spreads lines over
rows: new rows have free ids and lines no row holds, an open batch grows, a kept row is held
or completed, and only high batches that wait are offered. The proof uses
nothing of how lines are spread, how many rows a drain leases or in which order.

*Only model-checked*. Every safety and action property of the passing runs is a theorem, some
under `LatePaste = FALSE` or `LateTakeover = FALSE` as their runs are.
What stays with TLC is the seven liveness properties (`LockReleased`, `LeaseEnds`,
`QueueServed`, `PlanResumed`, `Offered`, `SteerSettled`, `RestartEnds`): they rest on
fairness, and so on ENABLED, which the prover cannot reason about. `ParentsChecked` is
violated by the code.

## 6. Not modelled, and why

- **Several sessions.** Locks, rows and drains are per session and share nothing
  but the revocation guard and the time; one agent is modelled.
- **Storage failures.** A step is a transaction that commits. A failure to store
  a message after its paste leaves no row at all; see the hazards.
- **Raised priority, escalations, swarm protection, review eligibility** in
  `safe_deliver`. The bypass of a blocked state by priority does not skip the checks
  modelled here.
- **The size of an inbox reading**: `checkpoint` returns ten messages at a time, `ReadInbox`
  takes all that wait.
- **`release` row by row**: the drain's final loop is one step; each release
  touches one row and only while it is leased.
- **In `ContextOffer`**: other kinds of rows (they touch no offer), startup
  briefs, the expiry for inbox-only agents and changes of the registration, a
  hook killed after its rename (the rename counts as the hand-over), a hook that
  outlives its session, the matching of filters, several agents.
- **In `EventOutbox`**: the order and the batch size of the job's passes (oldest attempt
  first, 20 at a time), the in-memory notification window, pruning, the poll's cursor,
  and whom an event concerns, which is data.
- **In `IssueGate`**: the delay after a recent delivery, several queue rows for an
  issue, messages of other kinds, an empty `queue_scope` (with which every
  unacknowledged issue blocks), and that the retry job leaves out the rows the outbox wrote
  and retries itself (`failed` has them all).
- **In `Steer`**: a listing of files that is torn by a rename (a listing is one step),
  dialogs within a turn, a session id shared by a resumed conversation, a prompt whose
  hook never ran, the fleet's validation as a caller of `settle_steers`.
- **In `Transition`**: the diagnostics fallback of a recovery and the eligibility of a
  resume (both in `GivesUp`), unconfirmed pastes of the continuation, renaming. The
  drain's record and the completion of its row are one step. A launch that resumes the
  last conversation, of which `_start_agent` records no start, counts as a new one.
- **What is pasted**: texts, age stamps, envelopes, and what the screen shows.
- Components of the last row of the inventory, each with its reason in
  `PROJECT.json`.

## 7. Plan

*Done*: all modules of section 2. Every safety property, action property and refinement the
passing runs check is proved, under the assumptions section 5 names. Left, in this order:

1. The bypass of a blocked state by raised priority, and escalations, in `SafeDelivery`.
2. A failed store after a paste (section 6, *Storage failures*) as a step of its own.
3. Event sources: the poll's cursor and the replay window, which `ContextOffer` takes as
   "an event that is not noted may come back".
4. State inference (`services/agents/_inference.py`), which all modules take as an outcome
   they are told.

---------------------------- MODULE ContextOffer ----------------------------
(***************************************************************************)
(* Batches of subscribed events on their way to one agent: queued by the   *)
(* poll (_subscriptions.py, _delivery.py, _queue_repo.py), pasted by the   *)
(* drain at the prompt, or, while the agent works, handed over as context  *)
(* by the hook its runtime runs (hooks/backbone_state.py).                 *)
(*                                                                         *)
(* The service and the hook are two processes that share only the files    *)
(* <id>.md (an offer) and <id>.taken (the hook's receipt): whoever renames *)
(* the .md owns the batch.  An event is one line of a batch.               *)
(***************************************************************************)
EXTENDS Integers, FiniteSets

CONSTANTS
    Lines,        \* events this agent subscribes to
    High,         \* those of high priority
    Hooks,        \* hook processes that may run at once
    Poll, Drain,  \* the poll and the queue drain, tasks of the service
    NoProc,       \* nobody
    MaxId,        \* bound: rows at a time
    BatchLimit,   \* SUBSCRIPTION_BATCH_LIMIT (25)
    Limit,        \* rows one drain leases (5)
    MaxPolls,     \* bound: polls that match something
    MaxCrashes    \* bound: deaths of the service

ASSUME OfferAssumption ==
    /\ High \subseteq Lines /\ IsFiniteSet(Lines)
    /\ Poll # Drain /\ NoProc \notin {Poll, Drain}
    /\ MaxId \in Nat /\ MaxPolls \in Nat /\ MaxCrashes \in Nat
    /\ BatchLimit \in Nat \ {0} /\ Limit \in Nat \ {0}

Ids == 1 .. MaxId

VARIABLES
    status,       \* message_queue.status of each id, "free" for no row
    lines,        \* the lines of each row's message
    offer,        \* text of <id>.md, {} when there is no such file
    taken,        \* ids with a <id>.taken file
    noted,        \* events noted as held by this agent (mark_partial, mark_processed)
    agent,        \* the session: its agent works, sits at its prompt, or is gone
    lock,         \* who holds the session lock
    pc,           \* where the poll and the drain are
    asked,        \* lines of the poll's batch
    hold,         \* the poll keeps its batch for the inbox (held_for_inbox)
    saw,          \* the poll's readiness check found the agent working
    settle,       \* rows the poll found taken (context_taken)
    offers,       \* rows the poll still offers (context_offers)
    todo, mine,   \* the drain's batch: rows to come, rows leased
    cur, copy,    \* the row the drain delivers, and each row's text when leased
    tries, reads, \* per hook: offers listed and not tried; the offer it has read
    listed,       \* receipts the prune job has listed
    old,          \* rows that were finished when pruning began
    polls, crashes,
    \* history
    byHook,       \* how often the hook took each row
    byPaste,      \* how often each row was pasted and submitted
    cutOff,       \* rows whose delivery a crash or a lease sweep cut off
    told,         \* events that reached the terminal or the model
    read          \* events acknowledged from the inbox

table == <<status, lines>>
files == <<offer, taken>>
pollvars == <<asked, hold, saw, settle, offers>>
drainvars == <<todo, mine, cur, copy>>
hookvars == <<tries, reads>>
prunevars == <<listed, old>>
counters == <<polls, crashes>>
history == <<byHook, byPaste, cutOff, told, read>>
vars == <<table, files, noted, agent, lock, pc, pollvars, drainvars, hookvars,
          prunevars, counters, history>>

Status == {"free", "pending", "in_progress", "checkpoint", "uncertain", "delivered"}
Active(i) == status[i] \in {"pending", "in_progress", "checkpoint", "uncertain"}
Held(i) == status[i] \in {"checkpoint", "uncertain"}
HasUncertain == \E i \in Ids : status[i] = "uncertain"

TypeOK ==
    /\ status \in [Ids -> Status] /\ lines \in [Ids -> SUBSET Lines]
    /\ offer \in [Ids -> SUBSET Lines] /\ taken \subseteq Ids
    /\ noted \subseteq Lines
    /\ agent \in {"working", "ready", "gone"} /\ lock \in {Poll, Drain, NoProc}
    /\ pc \in [{Poll, Drain} ->
                 {"idle", "lock", "held", "ready", "gate", "paste", "unsure", "queue",
                  "settle", "offer", "note", "fail", "next", "claim", "receipt",
                  "clear", "mark", "release"}]
    /\ asked \subseteq Lines /\ hold \in BOOLEAN /\ saw \in BOOLEAN
    /\ settle \subseteq Ids /\ offers \subseteq Ids
    /\ todo \subseteq Ids /\ mine \subseteq Ids
    /\ cur \in Ids \cup {0} /\ copy \in [Ids -> SUBSET Lines]
    /\ tries \in [Hooks -> SUBSET Ids] /\ reads \in [Hooks -> Ids \cup {0}]
    /\ listed \subseteq Ids /\ old \subseteq Ids
    /\ polls \in Nat /\ crashes \in Nat
    /\ byHook \in [Ids -> 0 .. 2] /\ byPaste \in [Ids -> 0 .. 2]
    /\ cutOff \subseteq Ids /\ told \subseteq Lines /\ read \subseteq Lines

Init ==
    /\ status = [i \in Ids |-> "free"] /\ lines = [i \in Ids |-> {}]
    /\ offer = [i \in Ids |-> {}] /\ taken = {}
    /\ noted = {} /\ agent = "gone" /\ lock = NoProc
    /\ pc = [p \in {Poll, Drain} |-> "idle"]
    /\ asked = {} /\ hold = FALSE /\ saw = FALSE /\ settle = {} /\ offers = {}
    /\ todo = {} /\ mine = {} /\ cur = 0 /\ copy = lines
    /\ tries = [h \in Hooks |-> {}] /\ reads = [h \in Hooks |-> 0]
    /\ listed = {} /\ old = {}
    /\ polls = 0 /\ crashes = 0
    /\ byHook = [i \in Ids |-> 0] /\ byPaste = [i \in Ids |-> 0]
    /\ cutOff = {} /\ told = {} /\ read = {}

(***************************************************************************)
(* Helpers                                                                 *)
(***************************************************************************)
Goto(p, place) == pc' = [pc EXCEPT ![p] = place]

\* A batch holds events of one priority.
IsHigh(i) == lines[i] \subseteq High

\* dequeue: high batches first, then the oldest.
Before(i, j) == IF IsHigh(i) = IsHigh(j) THEN i < j ELSE IsHigh(i)

\* SQLite gives a new row the highest id in use and one: the id of a pruned row
\* can be used again.
Top == IF \A i \in Ids : status[i] = "free" THEN 0
       ELSE CHOOSE i \in Ids : status[i] # "free"
                               /\ \A j \in Ids : status[j] # "free" => j <= i

\* Fault: a line is only looked for in rows that still wait.
HoldsWaiting(i, l) == status[i] = "pending" /\ l \in lines[i]

\* The rows a line is looked for in: every row but one delivered long ago.
Holds(i, l) == status[i] # "free" /\ l \in lines[i]

\* The newest row that holds the line.
Holders(ls) == {i \in Ids : \E l \in ls : /\ Holds(i, l)
                                          /\ \A j \in Ids : Holds(j, l) => j <= i}

\* claim_context: "claimed" withdraws the offer, "taken" finds the hook's
\* receipt, "missing" finds neither.
Claim(i) == IF offer[i] # {} THEN "claimed" ELSE IF i \in taken THEN "taken" ELSE "missing"

Without(S) == [i \in Ids |-> IF i \in S THEN {} ELSE offer[i]]

\* Rows a later event may still join: the open batch is normal and not leased.
Open(i) == status[i] = "pending" /\ ~IsHigh(i)

(***************************************************************************)
(* The poll: dispatch_source_events and safe_deliver of one batch          *)
(***************************************************************************)
\* The poll comes to the next batch.
PollDone ==
    /\ Goto(Poll, "idle")
    /\ asked' = {} /\ hold' = FALSE /\ saw' = FALSE /\ settle' = {} /\ offers' = {}

\* Bound: enough ids are free for the rows this batch may open.
PollBegin(ls) ==
    /\ pc[Poll] = "idle" /\ polls < MaxPolls
    /\ ls # {} /\ ls \cap noted = {} /\ (ls \subseteq High \/ ls \cap High = {})
    /\ Cardinality(ls) <= MaxId - Top
    /\ asked' = ls /\ hold' = FALSE /\ saw' = FALSE
    /\ polls' = polls + 1
    /\ Goto(Poll, "lock")
    /\ UNCHANGED <<table, files, noted, agent, lock, settle, offers, drainvars, hookvars,
                   prunevars, crashes, history>>

Acquire(p, place) ==
    /\ pc[p] = "lock" /\ lock = NoProc
    /\ lock' = p
    /\ Goto(p, place)

PollAcquire ==
    /\ Acquire(Poll, "held")
    /\ UNCHANGED <<table, files, noted, agent, pollvars, drainvars, hookvars, prunevars,
                   counters, history>>

\* held_receipt: an event already held for the inbox keeps the whole batch there.
PollHeld ==
    /\ pc[Poll] = "held"
    /\ hold' = \E i \in Ids : Held(i) /\ lines[i] \cap asked # {}
    /\ Goto(Poll, IF hold' THEN "queue" ELSE "ready")
    /\ UNCHANGED <<table, files, noted, agent, lock, asked, saw, settle, offers, drainvars,
                   hookvars, prunevars, counters, history>>

\* The readiness check. Nothing is pasted into a terminal whose agent works.
PollReady ==
    /\ pc[Poll] = "ready"
    /\ saw' = (agent = "working")
    /\ Goto(Poll, IF agent = "ready" THEN "gate" ELSE "queue")
    /\ UNCHANGED <<table, files, noted, agent, lock, asked, hold, settle, offers, drainvars,
                   hookvars, prunevars, counters, history>>

\* has_uncertain.
PollGate ==
    /\ pc[Poll] = "gate"
    /\ Goto(Poll, IF HasUncertain THEN "queue" ELSE "paste")
    /\ UNCHANGED <<table, files, noted, agent, lock, pollvars, drainvars, hookvars, prunevars,
                   counters, history>>

\* submit: delivered, unconfirmed, refused by the runtime, or not pasted.
PollPaste ==
    /\ pc[Poll] = "paste"
    /\ \/ /\ agent # "gone" /\ agent' = "working"
          /\ told' = told \cup asked
          /\ lock' = NoProc /\ hold' = hold
          /\ Goto(Poll, "note")
       \/ /\ Goto(Poll, "unsure")
          /\ UNCHANGED <<agent, told, lock, hold>>
       \/ /\ hold' \in BOOLEAN
          /\ Goto(Poll, "queue")
          /\ UNCHANGED <<agent, told, lock>>
    /\ UNCHANGED <<table, files, noted, asked, saw, settle, offers, drainvars, hookvars,
                   prunevars, counters, byHook, byPaste, cutOff, read>>

\* An exception of the readiness check or the paste: the events stay replayable.
PollFails ==
    /\ pc[Poll] \in {"ready", "paste"}
    /\ lock' = NoProc
    /\ PollDone
    /\ UNCHANGED <<table, files, noted, agent, drainvars, hookvars, prunevars, counters,
                   history>>

\* finish with an unconfirmed paste: the plain enqueue, one row for the batch.
PollUnsure ==
    /\ pc[Poll] = "unsure"
    /\ LET i == Top + 1 IN
         /\ status' = [status EXCEPT ![i] = "uncertain"]
         /\ lines' = [lines EXCEPT ![i] = asked]
         /\ byPaste' = [byPaste EXCEPT ![i] = 1]
    /\ lock' = NoProc
    /\ Goto(Poll, "note")
    /\ UNCHANGED <<files, noted, agent, pollvars, drainvars, hookvars, prunevars, counters,
                   byHook, cutOff, told, read>>

\* withdraw_context over the rows a held batch is in: the offers withdrawn and
\* the rows the hook had already taken.
Withdraw(S) == <<{i \in S : Claim(i) = "claimed"}, {i \in S : Claim(i) = "taken"}>>

\* enqueue_subscription, one transaction. Lines a row already holds are dropped;
\* of the rest, those that fit join the open batch and the others open new ones.
PollQueue ==
    /\ pc[Poll] = "queue"
    /\ LET fresh == {l \in asked : \A i \in Ids : ~Holds(i, l)}
           holders == Holders(asked)
           keepable == IF hold THEN {i \in holders : status[i] \in
                                        {"pending", "in_progress", "checkpoint"}} ELSE {}
           claims == Withdraw(keepable)
           settled == [i \in Ids |-> IF i \in claims[2] THEN "delivered"
                                     ELSE IF i \in keepable THEN "checkpoint" ELSE status[i]]
           again == {i \in holders : IsHigh(i) /\ status[i] = "pending"}
           open == {i \in Ids : Open(i) /\ i \notin keepable /\ ~(asked \subseteq High)
                                /\ \A j \in Ids : Open(j) /\ j \notin keepable => j <= i}
           room == IF open = {} THEN 0
                   ELSE BatchLimit - Cardinality(lines[CHOOSE i \in open : TRUE])
           new == IF hold THEN "checkpoint" ELSE "pending"
       IN \E into \in [fresh -> open \cup (Top + 1 .. MaxId)] :
            LET filled(i) == {l \in fresh : into[l] = i}
                opened == {i \in Top + 1 .. MaxId : filled(i) # {}}
                grown == {i \in open : filled(i) # {}}
            IN /\ \A i \in open : Cardinality(filled(i)) <= room
               /\ opened # {} => \A i \in open : Cardinality(filled(i)) >= room
               /\ \A i \in opened : /\ Cardinality(filled(i)) <= BatchLimit
                                    /\ \A j \in Top + 1 .. i - 1 :
                                         Cardinality(filled(j)) = BatchLimit
               /\ status' = [i \in Ids |-> IF i \in opened \cup grown THEN new ELSE settled[i]]
               /\ lines' = [i \in Ids |-> IF i \in opened THEN filled(i)
                                          ELSE lines[i] \cup filled(i)]
               /\ offers' = IF hold \/ ~saw THEN {}
                            ELSE again \cup (IF asked \subseteq High THEN opened ELSE {})
               /\ settle' = claims[2]
               /\ offer' = Without(claims[1])
               \* already_delivered counts as a failure: nothing is noted.
               /\ asked' = IF fresh = {} /\ hold
                              /\ \A i \in holders : settled[i] = "delivered"
                           THEN {} ELSE asked
    /\ Goto(Poll, "settle")
    /\ UNCHANGED <<taken, noted, agent, lock, hold, saw, drainvars, hookvars, prunevars,
                   counters, history>>

\* record_hook_delivery of a row the transaction has completed.
PollSettle ==
    /\ pc[Poll] = "settle"
    /\ \/ \E i \in settle :
            /\ settle' = settle \ {i}
            /\ offer' = Without({i}) /\ taken' = taken \ {i}
            /\ UNCHANGED pc
       \/ /\ settle = {}
          /\ Goto(Poll, "offer")
          /\ UNCHANGED <<settle, files>>
    /\ UNCHANGED <<table, noted, agent, lock, asked, hold, saw, offers, drainvars, hookvars,
                   prunevars, counters, history>>

\* offer_context of each batch, then the lock is released.
PollOffer ==
    /\ pc[Poll] = "offer"
    /\ \/ \E i \in offers :
            /\ offers' = offers \ {i}
            /\ offer' = [offer EXCEPT ![i] =
                           IF @ = {} /\ i \notin taken THEN lines[i] ELSE @]
            /\ UNCHANGED <<pc, lock>>
       \/ /\ offers = {}
          /\ lock' = NoProc
          /\ Goto(Poll, "note")
          /\ UNCHANGED <<offers, offer>>
    /\ UNCHANGED <<table, taken, noted, agent, asked, hold, saw, settle, drainvars, hookvars,
                   prunevars, counters, history>>

\* mark_partial and mark_processed: these events are not delivered again.
PollNote ==
    /\ pc[Poll] = "note"
    /\ noted' = noted \cup asked
    /\ PollDone
    /\ UNCHANGED <<table, files, agent, lock, drainvars, hookvars, prunevars, counters,
                   history>>

PollStep ==
    \/ \E ls \in SUBSET Lines : PollBegin(ls)
    \/ PollAcquire \/ PollHeld \/ PollReady \/ PollGate \/ PollPaste \/ PollFails
    \/ PollUnsure \/ PollQueue \/ PollSettle \/ PollOffer \/ PollNote

(***************************************************************************)
(* The drain: _drain_session and safe_deliver with requeue=False           *)
(***************************************************************************)
\* dequeue.
DrainStart ==
    /\ pc[Drain] = "idle"
    /\ \E leased \in SUBSET {i \in Ids : status[i] = "pending"} :
         /\ leased # {}
         /\ \A j \in Ids \ leased : status[j] = "pending" =>
              Cardinality(leased) = Limit /\ \A i \in leased : Before(i, j)
         /\ Cardinality(leased) <= Limit
         /\ status' = [i \in Ids |-> IF i \in leased THEN "in_progress" ELSE status[i]]
         /\ mine' = leased /\ todo' = leased
         /\ copy' = [i \in Ids |-> IF i \in leased THEN lines[i] ELSE {}]
    /\ Goto(Drain, "next")
    /\ UNCHANGED <<lines, files, noted, agent, lock, pollvars, cur, hookvars, prunevars,
                   counters, history>>

\* The next record; one that is not leased any more is skipped.
DrainNext ==
    /\ pc[Drain] = "next"
    /\ \/ \E i \in todo :
            /\ \A j \in todo \ {i} : Before(i, j)
            /\ todo' = todo \ {i}
            /\ cur' = i
            /\ Goto(Drain, IF status[i] = "in_progress" THEN "lock" ELSE "next")
       \/ /\ todo = {}
          /\ Goto(Drain, "release")
          /\ UNCHANGED <<todo, cur>>
    /\ UNCHANGED <<table, files, noted, agent, lock, pollvars, mine, copy, hookvars, prunevars,
                   counters, history>>

DrainAcquire ==
    /\ Acquire(Drain, "held")
    /\ UNCHANGED <<table, files, noted, agent, pollvars, drainvars, hookvars, prunevars,
                   counters, history>>

\* The answer tells the drain to stop here: the lock is released, the batch too.
Stop == lock' = NoProc /\ Goto(Drain, "release")

\* still_leased, under the lock.
DrainHeld ==
    /\ pc[Drain] = "held"
    /\ IF status[cur] = "in_progress" THEN Goto(Drain, "ready") /\ UNCHANGED lock ELSE Stop
    /\ UNCHANGED <<table, files, noted, agent, pollvars, drainvars, hookvars, prunevars,
                   counters, history>>

\* The readiness check and has_uncertain. An offer outlives a drain that stops.
DrainReady ==
    /\ pc[Drain] = "ready"
    /\ \/ /\ agent = "ready" /\ ~HasUncertain
          /\ Goto(Drain, "claim") /\ UNCHANGED lock
       \/ /\ agent # "ready" \/ HasUncertain
          /\ Stop
    /\ UNCHANGED <<table, files, noted, agent, pollvars, drainvars, hookvars, prunevars,
                   counters, history>>

\* claim_context, right before the paste.
DrainClaim ==
    /\ pc[Drain] = "claim"
    /\ offer' = Without({cur})
    /\ Goto(Drain, IF Claim(cur) = "taken" THEN "receipt" ELSE "paste")
    /\ UNCHANGED <<table, taken, noted, agent, lock, pollvars, drainvars, hookvars, prunevars,
                   counters, history>>

Seen(count, i) == [count EXCEPT ![i] = IF @ = 2 THEN 2 ELSE @ + 1]

\* submit: delivered, unconfirmed, refused by the runtime, or not pasted.
DrainPaste ==
    /\ pc[Drain] = "paste"
    /\ \/ /\ agent # "gone" /\ agent' = "working"
          /\ told' = told \cup copy[cur] /\ byPaste' = Seen(byPaste, cur)
          /\ lock' = NoProc
          /\ Goto(Drain, "mark")
          /\ UNCHANGED status
       \/ /\ byPaste' = Seen(byPaste, cur)
          /\ Goto(Drain, "unsure")
          /\ UNCHANGED <<status, agent, told, lock>>
       \/ /\ status' = [status EXCEPT ![cur] =
                          IF @ \in {"pending", "in_progress"} THEN "checkpoint" ELSE @]
          /\ Stop
          /\ UNCHANGED <<agent, told, byPaste>>
       \/ /\ Stop
          /\ UNCHANGED <<status, agent, told, byPaste>>
    /\ UNCHANGED <<lines, files, noted, pollvars, drainvars, hookvars, prunevars, counters,
                   byHook, cutOff, read>>

\* hold_uncertain.
DrainUnsure ==
    /\ pc[Drain] = "unsure"
    /\ status' = [status EXCEPT ![cur] =
                    IF @ \in {"pending", "in_progress"} THEN "uncertain" ELSE @]
    /\ Stop
    /\ UNCHANGED <<lines, files, noted, agent, pollvars, drainvars, hookvars, prunevars,
                   counters, history>>

\* Fault: a row is completed whether or not it is still leased.
CompletedAnyway == [status EXCEPT ![cur] = "delivered"]

\* mark_delivered completes only a lease.
Completed == [status EXCEPT ![cur] = IF @ = "in_progress" THEN "delivered" ELSE @]

\* record_hook_delivery: the row first, then the receipt.
DrainReceipt ==
    /\ pc[Drain] = "receipt"
    /\ status' = Completed
    /\ Goto(Drain, "clear")
    /\ UNCHANGED <<lines, files, noted, agent, lock, pollvars, drainvars, hookvars, prunevars,
                   counters, history>>

\* clear_context.
DrainClear ==
    /\ pc[Drain] = "clear"
    /\ offer' = Without({cur}) /\ taken' = taken \ {cur}
    /\ lock' = NoProc
    /\ Goto(Drain, "mark")
    /\ UNCHANGED <<table, noted, agent, pollvars, drainvars, hookvars, prunevars, counters,
                   history>>

\* The drain completes the row after safe_deliver has let the lock go.
DrainMark ==
    /\ pc[Drain] = "mark"
    /\ status' = Completed
    /\ Goto(Drain, "next")
    /\ UNCHANGED <<lines, files, noted, agent, lock, pollvars, drainvars, hookvars, prunevars,
                   counters, history>>

\* finally: every lease that is left goes back.
DrainRelease ==
    /\ pc[Drain] = "release"
    /\ status' = [i \in Ids |-> IF i \in mine /\ status[i] = "in_progress"
                                THEN "pending" ELSE status[i]]
    /\ mine' = {} /\ todo' = {} /\ cur' = 0 /\ copy' = [i \in Ids |-> {}]
    /\ Goto(Drain, "idle")
    /\ UNCHANGED <<lines, files, noted, agent, lock, pollvars, hookvars, prunevars, counters,
                   history>>

DrainStep ==
    \/ DrainStart \/ DrainNext \/ DrainAcquire \/ DrainHeld \/ DrainReady \/ DrainClaim
    \/ DrainPaste \/ DrainUnsure \/ DrainReceipt \/ DrainClear \/ DrainMark \/ DrainRelease

(***************************************************************************)
(* The hook: take_context, one process per tool call                       *)
(***************************************************************************)
\* A tool call, or a new conversation in the session, runs the hook.
HookStart(h) ==
    /\ tries[h] = {} /\ reads[h] = 0 /\ agent # "gone"
    /\ tries' = [tries EXCEPT ![h] = {i \in Ids : offer[i] # {}}]
    /\ tries'[h] # {}
    /\ UNCHANGED <<table, files, noted, agent, lock, pc, pollvars, drainvars, reads, prunevars,
                   counters, history>>

\* Read before renaming; an offer that is gone is passed over.
HookRead(h) ==
    /\ reads[h] = 0
    /\ \E i \in tries[h] :
         /\ \A j \in tries[h] : i <= j
         /\ tries' = [tries EXCEPT ![h] = @ \ {i}]
         /\ reads' = [reads EXCEPT ![h] = IF offer[i] # {} THEN i ELSE 0]
    /\ UNCHANGED <<table, files, noted, agent, lock, pc, pollvars, drainvars, prunevars,
                   counters, history>>

\* The rename to .taken: only the first to rename the offer hands it over.
HookTake(h) ==
    /\ reads[h] # 0
    /\ LET i == reads[h] IN
         \/ /\ offer[i] # {}
            /\ offer' = Without({i}) /\ taken' = taken \cup {i}
            /\ byHook' = Seen(byHook, i)
            /\ told' = told \cup offer[i]
         \/ /\ offer[i] = {}
            /\ UNCHANGED <<files, byHook, told>>
    /\ reads' = [reads EXCEPT ![h] = 0]
    /\ UNCHANGED <<table, noted, agent, lock, pc, pollvars, drainvars, tries, prunevars,
                   counters, byPaste, cutOff, read>>

\* The runtime gives up on its hook.
HookDies(h) ==
    /\ tries[h] # {} \/ reads[h] # 0
    /\ tries' = [tries EXCEPT ![h] = {}] /\ reads' = [reads EXCEPT ![h] = 0]
    /\ UNCHANGED <<table, files, noted, agent, lock, pc, pollvars, drainvars, prunevars,
                   counters, history>>

HookStep(h) == HookStart(h) \/ HookRead(h) \/ HookTake(h) \/ HookDies(h)

(***************************************************************************)
(* The session, the inbox, maintenance, the death of the service           *)
(***************************************************************************)
AgentMoves ==
    /\ \/ agent = "ready" /\ agent' = "working"
       \/ agent = "working" /\ agent' = "ready"
    /\ UNCHANGED <<table, files, noted, lock, pc, pollvars, drainvars, hookvars, prunevars,
                   counters, history>>

\* The session ends, and its hooks with it.
SessionEnds ==
    /\ agent # "gone" /\ agent' = "gone"
    /\ tries' = [h \in Hooks |-> {}] /\ reads' = [h \in Hooks |-> 0]
    /\ UNCHANGED <<table, files, noted, lock, pc, pollvars, drainvars, prunevars, counters,
                   history>>

\* Fault: the files of the previous session are all removed.
ClearAll ==
    /\ offer' = Without(Ids)
    /\ taken' = {}

\* clear_agent_context: offers go, receipts stay to be settled.
ClearAgentContext ==
    /\ offer' = Without(Ids)
    /\ taken' = taken

\* _start_agent, under the session lock; it may still fail after the clearing.
Launch ==
    /\ agent = "gone" /\ lock = NoProc
    /\ ClearAgentContext
    /\ agent' \in {"gone", "ready"}
    /\ UNCHANGED <<table, noted, lock, pc, pollvars, drainvars, hookvars, prunevars, counters,
                   history>>

\* checkpoint_inbox and acknowledge_checkpoint.
InboxAck(i) ==
    /\ lock = NoProc /\ Held(i)
    /\ status' = [status EXCEPT ![i] = "delivered"]
    /\ read' = read \cup lines[i]
    /\ UNCHANGED <<lines, files, noted, agent, lock, pc, pollvars, drainvars, hookvars,
                   prunevars, counters, byHook, byPaste, cutOff, told>>

\* expire_stale_leases takes a lease by its age, whoever holds it.
SweepLeases ==
    /\ \E i \in Ids : status[i] = "in_progress"
    /\ status' = [i \in Ids |-> IF status[i] = "in_progress" THEN "pending" ELSE status[i]]
    /\ cutOff' = IF pc[Drain] \in {"ready", "claim", "paste", "unsure", "receipt", "clear", "mark"}
                    /\ status[cur] = "in_progress"
                 THEN cutOff \cup {cur} ELSE cutOff
    /\ UNCHANGED <<lines, files, noted, agent, lock, pc, pollvars, drainvars, hookvars,
                   prunevars, counters, byHook, byPaste, told, read>>

\* The prune job: batch_receipts lists the receipts. A row it deletes at the end
\* was finished for the whole retention, so it was finished now.
\* Bound: only while a later batch may still get the id of a deleted row.
PruneBegin ==
    /\ old = {} /\ polls < MaxPolls
    /\ old' = {i \in Ids : status[i] = "delivered"} /\ old' # {}
    /\ listed' = taken
    /\ UNCHANGED <<table, files, noted, agent, lock, pc, pollvars, drainvars, hookvars,
                   counters, history>>

\* Fault: receipts are left where they are.
LeaveReceipts == taken

\* active_ids, after the listing, and prune_context_receipts.
PruneReceipts == taken \ {i \in listed : ~Active(i)}

\* The history of a row goes with it.
Forgotten(S) ==
    /\ byHook' = [i \in Ids |-> IF i \in S THEN 0 ELSE byHook[i]]
    /\ byPaste' = [i \in Ids |-> IF i \in S THEN 0 ELSE byPaste[i]]
    /\ cutOff' = cutOff \ S

\* prune_context_receipts, then QueueRepo.prune. The rows of events that may
\* still be replayed are younger than the retention.
PruneRows ==
    /\ old # {}
    /\ taken' = PruneReceipts
    /\ \E gone \in SUBSET {i \in old : status[i] = "delivered" /\ lines[i] \subseteq noted} :
         /\ status' = [i \in Ids |-> IF i \in gone THEN "free" ELSE status[i]]
         /\ lines' = [i \in Ids |-> IF i \in gone THEN {} ELSE lines[i]]
         /\ Forgotten(gone)
    /\ old' = {} /\ listed' = {}
    /\ UNCHANGED <<offer, noted, agent, lock, pc, pollvars, drainvars, hookvars, counters,
                   told, read>>

\* The service dies: its locks and its memory go, the table and the files stay.
Crash ==
    /\ crashes < MaxCrashes
    /\ crashes' = crashes + 1
    /\ lock' = NoProc
    /\ pc' = [p \in {Poll, Drain} |-> "idle"]
    /\ asked' = {} /\ hold' = FALSE /\ saw' = FALSE /\ settle' = {} /\ offers' = {}
    /\ todo' = {} /\ mine' = {} /\ cur' = 0 /\ copy' = [i \in Ids |-> {}]
    /\ old' = {} /\ listed' = {}
    /\ cutOff' = IF pc[Drain] \in {"unsure", "mark"} THEN cutOff \cup {cur} ELSE cutOff
    /\ UNCHANGED <<table, files, noted, agent, hookvars, polls, byHook, byPaste, told,
                   read>>

Next ==
    \/ PollStep \/ DrainStep
    \/ \E h \in Hooks : HookStep(h)
    \/ AgentMoves \/ SessionEnds \/ Launch
    \/ \E i \in Ids : InboxAck(i)
    \/ SweepLeases \/ PruneBegin \/ PruneRows \/ Crash

Spec == Init /\ [][Next]_vars

(***************************************************************************)
(* Properties                                                              *)
(***************************************************************************)
\* A queued batch reaches the agent once: as hook context or as a paste, never
\* both and never twice, unless a crash or a lease sweep cut its delivery off
\* (docs/sources.md: "the batch arrives exactly once").
BatchArrivesOnce == \A i \in Ids \ cutOff : byHook[i] + byPaste[i] <= 1

\* An event noted as held by the agent reached it, was read from the inbox, or
\* still waits in the queue: no batch is completed unseen, and no event joins a
\* batch too late to be in what is pasted.
NotedEventIsKept ==
    \A l \in noted : l \in told \cup read \/ \E i \in Ids : Active(i) /\ l \in lines[i]

\* Two waiting batches never list the same event, however often a poll is
\* replayed (enqueue_subscription); an unconfirmed paste may list it as well.
EventInOneBatch ==
    \A i, j \in Ids : i # j /\ Active(i) /\ Active(j)
                      /\ status[i] # "uncertain" /\ status[j] # "uncertain"
                      => lines[i] \cap lines[j] = {}

\* An offer is the whole of a batch that still waits or is leased, so the hook hands over
\* nothing that was delivered, kept for the inbox (withdraw_context) or has grown since; and
\* a receipt that can settle a batch was left by the hook that took that batch, not by one
\* that took an earlier batch with the same id (prune_context_receipts).
FilesOfTheirBatch ==
    \A i \in Ids :
        /\ offer[i] # {} => status[i] \in {"pending", "in_progress"} /\ offer[i] = lines[i]
        /\ i \in taken /\ Active(i) => byHook[i] > 0
=============================================================================

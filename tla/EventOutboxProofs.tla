------------------------- MODULE EventOutboxProofs -------------------------
(***************************************************************************)
(* Proofs about EventOutbox: its types, and that no notice of a handled    *)
(* event is dropped, that none is repeated but after a lost receipt, and   *)
(* that no review is announced once it is known to be over.                *)
(*                                                                         *)
(* A step is first described from the outside (the lemmas ...Step: what it *)
(* can do to one row, one message, one task); the parts of the invariant   *)
(* are kept by any step that is so described.                              *)
(***************************************************************************)
EXTENDS EventOutbox, FiniteSetTheorems, TLAPS

\* The type invariant in parts.
GithubTypes ==
    /\ happens \in Stories /\ sent \subseteq happens /\ issue \in {Opened} \cup Closes
    /\ event \in [Events -> {"none", "stored", "handled"}]
    /\ finished \in BOOLEAN

\* The tables of the database, and the keys in flight.
TableTypes ==
    /\ row \in [Sends -> {"none"} \cup Unresolved \cup Resolved]
    /\ queue \in [Sends -> {"none", "gone"} \cup Waits]
    /\ acked \subseteq Agents /\ flying \subseteq Events

\* The locks.
LockTypes ==
    /\ locked \in [Events -> Tasks \cup {NoProc}]
    /\ reviewing \in Tasks \cup {NoProc}

\* What the tasks remember.
TaskTypes ==
    /\ pc \in [Tasks -> {"idle", "route", "close", "purge", "plan", "rows",
                         "valid", "send", "paste", "receipt", "parents", "finish", "next"}]
    /\ on \in [Tasks -> Events] /\ to \in [Tasks -> Agents \cup {NoOne}]
    /\ left \in [Tasks -> SUBSET Agents] /\ again \in [Tasks -> BOOLEAN]
    /\ got \in [Tasks -> {"failed", "delivered", "queued"}]
    /\ picked \subseteq Events

\* The counts.
CountTypes ==
    /\ mishaps \in 0 .. MaxMishaps
    /\ told \in [Sends -> Nat] /\ cutOff \in [Sends -> Nat]

\* The rest of the history.
HistoryTypes == tried \subseteq Closes /\ overtaken \in BOOLEAN

\* The places of a task that has the lock of its event's plan.
Sender == {"rows", "valid", "send", "paste", "receipt"}

\* One task sends an event's notices at a time, and the review lock is held over the paste
\* of a start, whose review is not over.
LocksOK ==
    /\ \A t \in Tasks : pc[t] \in Sender => locked[on[t]] = t
    /\ \A t \in Tasks : pc[t] = "paste" /\ on[t] = Start => reviewing = t /\ ~finished

\* A sender has recipients left; what only an intake does, and only for a closing.
LocalOK ==
    /\ \A t \in Tasks : pc[t] \notin Sender => left[t] = {}
    /\ \A t \in Tasks : left[t] \subseteq Audience[on[t]]
    /\ \A t \in Tasks : pc[t] \in {"valid", "send", "paste", "receipt"} => to[t] \in left[t]
    /\ pc[Job] \notin {"route", "close", "purge"}
    /\ \A t \in Tasks : pc[t] \in {"close", "purge", "parents"} => on[t] \in Closes
    /\ \A t \in Tasks : pc[t] = "send" => on[t] = Start

\* No two intakes have the same event in flight.
FlightOK ==
    /\ \A t \in Intakes : pc[t] # "idle" => on[t] \in flying
    /\ \A t, u \in Intakes : pc[t] # "idle" /\ pc[u] # "idle" /\ on[t] = on[u] => t = u

\* What is worked on is stored, and what is stored has happened; the order of the closings.
EventOK ==
    /\ \A t \in Tasks : pc[t] \notin {"idle", "next"} => event[on[t]] # "none"
    /\ \A e \in picked : event[e] # "none"
    /\ \A e \in Events : event[e] # "none" => e \in sent
    /\ Newer \in sent => Older \in sent /\ issue = Newer
    /\ issue = Newer => Newer \in sent
    /\ issue = Older => Older \in sent

\* A plan is for the whole audience, of a stored event; and comes before what is left or
\* queued of it.  The job takes up stored plans, a purge comes before there is one.
PlannedOK ==
    /\ \A s \in Sends : row[s] # "none" => event[s[1]] # "none"
    /\ \A s, r \in Sends : s[1] = r[1] /\ row[s] # "none" => row[r] # "none"
    /\ \A s \in Sends : queue[s] # "none" => row[s] # "none"
    /\ \A t \in Tasks : \A s \in Sends : s[1] = on[t] /\ s[2] \in left[t] => row[s] # "none"
    /\ \A e \in picked : HasRows(e)
    /\ pc[Job] = "plan" => HasRows(on[Job])
    /\ \A t \in Tasks : pc[t] = "purge" => ~HasRows(on[t])

\* The notice was shown, waits to be, or need not be.
Settled(s) == told[s] > 0 \/ queue[s] \in Waits \/ Excused(s[1], s[2])

\* A receipt, written or about to be, says the truth; and an event is done with once every
\* recipient has one, or need not have.
SettledOK ==
    /\ \A s \in Sends : row[s] \in Resolved => Settled(s)
    /\ \A t \in Tasks : pc[t] = "receipt" /\ got[t] # "failed" => Settled(Mine(t))
    /\ \A t \in Tasks : pc[t] \in Sender \cup {"finish", "parents"} =>
          \A s \in Sends : s[1] = on[t] => row[s] # "none" \/ Settled(s)
    /\ \A s \in Sends : event[s[1]] = "handled" => Settled(s)

\* The send has its receipt, or one is about to be written, and no task will send it again.
Receipted(s) ==
    \/ \E t \in Tasks : pc[t] = "receipt" /\ got[t] # "failed" /\ Mine(t) = s
    \/ row[s] \in Resolved /\ \A t \in Tasks : on[t] = s[1] => s[2] \notin left[t]

\* What was shown, and what the queue is going to show.
Due(s) == told[s] + (IF queue[s] \in {"waiting", "leased"} THEN 1 ELSE 0)

\* It is accounted for by a receipt or a lost one.
CountOK == \A s \in Sends : Due(s) <= cutOff[s] + (IF Receipted(s) THEN 1 ELSE 0)

\* The events, the job and the absent task and agent are all different.
LEMMA Distinct ==
  /\ Opened # Older /\ Opened # Newer /\ Older # Newer
  /\ Start # Submit /\ {Start, Submit} \cap OfIssue = {}
  /\ Job \notin Intakes /\ NoProc \notin Tasks /\ NoOne \notin Agents
<1>1. /\ Cardinality({Opened}) = 1 /\ IsFiniteSet({Opened})
      /\ \A S, x : IsFiniteSet(S) => /\ IsFiniteSet(S \cup {x})
                                     /\ Cardinality(S \cup {x}) =
                                          IF x \in S THEN Cardinality(S) ELSE Cardinality(S) + 1
  BY FS_Singleton, FS_AddElement
<1>2. /\ {Opened, Older} = {Opened} \cup {Older}
      /\ {Opened, Older, Newer} = {Opened, Older} \cup {Newer}
      /\ {Opened, Older, Newer, Start} = {Opened, Older, Newer} \cup {Start}
      /\ Events = {Opened, Older, Newer, Start} \cup {Submit}
  BY DEF Events
<1>3. /\ IsFiniteSet({Opened, Older}) /\ Cardinality({Opened, Older}) \in 1 .. 2
      /\ Cardinality({Opened, Older}) = 2 => Older \notin {Opened}
  BY <1>1, <1>2
<1>4. /\ IsFiniteSet({Opened, Older, Newer}) /\ Cardinality({Opened, Older, Newer}) \in 1 .. 3
      /\ Cardinality({Opened, Older, Newer}) = 3 =>
            Newer \notin {Opened, Older} /\ Cardinality({Opened, Older}) = 2
  BY <1>1, <1>2, <1>3
<1>5. /\ IsFiniteSet({Opened, Older, Newer, Start})
      /\ Cardinality({Opened, Older, Newer, Start}) \in 1 .. 4
      /\ Cardinality({Opened, Older, Newer, Start}) = 4 =>
            Start \notin {Opened, Older, Newer} /\ Cardinality({Opened, Older, Newer}) = 3
  BY <1>1, <1>2, <1>4
<1>6. Submit \notin {Opened, Older, Newer, Start} /\ Cardinality({Opened, Older, Newer, Start}) = 4
  <2>1. Cardinality(Events) = 5
    BY OutboxAssumption
  <2>2. Cardinality(Events) = IF Submit \in {Opened, Older, Newer, Start}
                              THEN Cardinality({Opened, Older, Newer, Start})
                              ELSE Cardinality({Opened, Older, Newer, Start}) + 1
    BY <1>1, <1>2, <1>5
  <2> QED
    BY <1>5, <2>1, <2>2
<1>7. Job \notin Intakes /\ NoProc \notin Intakes /\ Job # NoProc
  <2> DEFINE S == {Job, NoProc} \ Intakes
  <2>1. Cardinality(S) = 2
    BY OutboxAssumption
  <2>2. Cardinality({}) = 0 /\ \A x : Cardinality({x}) = 1
    BY FS_EmptySet, FS_Singleton
  <2> HIDE DEF S
  <2>3. ASSUME NEW x, S \subseteq {x} PROVE FALSE
    <3>1. S = {} \/ S = {x}
      BY <2>3
    <3>2. Cardinality(S) = 0 \/ Cardinality(S) = 1
      BY Zenon, <2>2, <3>1
    <3> QED
      BY <2>1, <3>2
  <2> QED
    BY <2>3 DEF S
<1> QED
  BY <1>3, <1>4, <1>5, <1>6, <1>7, OutboxAssumption DEF OfIssue, Closes, Tasks

\* A send is an event and a member of its audience.
LEMMA SendsAre ==
  /\ \A e \in Events : \A a \in Audience[e] : <<e, a>> \in Sends /\ a \in Agents
  /\ \A s \in Sends : s[1] \in Events /\ s[2] \in Audience[s[1]] /\ s = <<s[1], s[2]>>
<1>1. \A e \in Events : {e} \X Audience[e] \subseteq Sends /\ Audience[e] \subseteq Agents
  BY DEF Sends, Agents
<1>2. \A s \in Sends : \E e \in Events : s \in {e} \X Audience[e]
  BY DEF Sends
<1> QED
  BY <1>1, <1>2

\* The receipts that a death of the service cuts off, for this send.
Cut(s) == {t \in Tasks : pc[t] = "receipt" /\ got[t] # "failed" /\ Mine(t) = s}

\* The lock of the event leaves one at most.
LEMMA CutOne ==
  ASSUME LocksOK, NEW s
  PROVE  \/ Cut(s) = {} /\ Cardinality(Cut(s)) = 0
         \/ Cut(s) # {} /\ Cardinality(Cut(s)) = 1
<1>1. CASE Cut(s) = {}
  BY <1>1, FS_EmptySet
<1>2. CASE Cut(s) # {}
  <2>1. PICK t \in Cut(s) : TRUE
    BY <1>2
  <2>2. \A u \in Cut(s) : u = t
    BY <2>1 DEF Cut, Mine, LocksOK, Sender
  <2>3. Cut(s) = {t}
    BY <2>1, <2>2
  <2>4. Cardinality({t}) = 1
    BY FS_Singleton
  <2> QED
    BY <1>2, <2>3, <2>4
<1> QED
  BY <1>1, <1>2

\* A step of one task leaves what the others remember.
Others(t) ==
    \A u \in Tasks \ {t} :
        /\ pc'[u] = pc[u] /\ on'[u] = on[u] /\ to'[u] = to[u]
        /\ left'[u] = left[u] /\ again'[u] = again[u] /\ got'[u] = got[u]

\* The end of a recipient's turn, seen from the tasks.
LEMMA DoneIs ==
  ASSUME TaskTypes, NEW t \in Tasks, NEW status, Done(t, status), UNCHANGED <<on, again>>
  PROVE  Others(t) /\ pc'[t] = "rows" /\ left'[t] = left[t] \ {to[t]} /\ got'[t] = "failed"
  BY DEF TaskTypes, Done, Goto, Others

\* A new plan is for everyone in the audience, and everyone in it is left to send to or
\* passed over.
LEMMA PlanIs ==
  ASSUME TypeOK, NEW t \in Tasks, Plan(t), NEW s \in Sends, s[1] = on[t]
  PROVE  /\ row'[s] # "none" \/ (HasRows(on[t]) /\ row'[s] = row[s])
         /\ s[2] \in left'[t] => row'[s] \in Unresolved
         /\ \/ row'[s] = row[s]
            \/ ~HasRows(on[t]) /\ row'[s] = "skipped" /\ on[t] = Start /\ finished
            \/ ~HasRows(on[t]) /\ row'[s] = "pending"
<1>1. s = <<on[t], s[2]>> /\ s[2] \in Audience[on[t]] /\ s \in {on[t]} \X Audience[on[t]]
  BY SendsAre
<1>2. CASE HasRows(on[t])
  <2>1. row' = row /\ left' = [left EXCEPT ![t] = Open(on[t])]
    BY <1>2 DEF Plan, StillOpen
  <2>2. left'[t] = Open(on[t])
    BY <2>1 DEF TypeOK
  <2> QED
    BY <1>1, <1>2, <2>1, <2>2 DEF Open
<1>3. CASE ~HasRows(on[t])
  <2> DEFINE over == on[t] = Start /\ finished
  <2>1. /\ row' = [r \in Sends |-> IF r \notin {on[t]} \X Audience[on[t]] THEN row[r]
                                   ELSE IF over THEN "skipped" ELSE "pending"]
        /\ left' = [left EXCEPT ![t] = IF over THEN {} ELSE Audience[on[t]]]
    BY <1>3 DEF Plan
  <2>2. row'[s] = IF over THEN "skipped" ELSE "pending"
    BY <1>1, <2>1
  <2>3. left'[t] = IF over THEN {} ELSE Audience[on[t]]
    BY <2>1 DEF TypeOK
  <2> QED
    BY <1>3, <2>2, <2>3 DEF Unresolved
<1> QED
  BY <1>2, <1>3

\* The rows of an event, seen as sends.
LEMMA RowsAre ==
  ASSUME NEW e \in Events
  PROVE  /\ HasRows(e) <=> \E s \in Sends : s[1] = e /\ row[s] # "none"
         /\ HasRows(e)' <=> \E s \in Sends : s[1] = e /\ row'[s] # "none"
<1>1. \A a \in Audience[e] : <<e, a>> \in Sends /\ <<e, a>>[1] = e
  BY SendsAre
<1>2. \A s \in Sends : s[1] = e => s[2] \in Audience[e] /\ s = <<e, s[2]>>
  BY SendsAre
<1> QED
  BY <1>1, <1>2 DEF HasRows

\* What GitHub has produced, the event rows and the review keep their types.
LEMMA GithubTyped ==
  ASSUME GithubTypes, TaskTypes, Next
  PROVE  GithubTypes'
<1>1. CASE (\E a \in Agents : Acknowledge(a)) \/ (\E t \in Intakes : RouteStart(t))
           \/ (\E t \in Intakes : RouteClose(t)) \/ (\E t \in Intakes : CloseOnce(t))
           \/ (\E t \in Intakes : Purge(t)) \/ (\E t \in Intakes : Parents(t))
           \/ (\E t \in Tasks : Plan(t)) \/ (\E t \in Tasks : Valid(t))
           \/ (\E t \in Tasks : Enter(t)) \/ (\E t \in Tasks : Paste(t))
           \/ (\E t \in Tasks : Receipt(t)) \/ (\E t \in Tasks : Flushed(t))
           \/ (\E t \in Tasks : Abandon(t)) \/ (\E t \in Tasks, a \in Agents : NextRow(t, a))
           \/ JobPick \/ JobNext \/ Crash \/ (\E s \in Sends : DrainLease(s))
           \/ (\E s \in Sends : DrainSend(s))
  BY <1>1 DEF Acknowledge, RouteStart, RouteClose, CloseOnce, Purge, Parents, Plan, Valid,
     Enter, Paste, Receipt, Flushed, Abandon, NextRow, JobPick, JobNext, Crash, DrainLease,
     DrainSend, GithubTypes, TaskTypes, Closes, github
<1>2. CASE \E e \in Events : Produce(e)
  BY <1>2 DEF Produce, GithubTypes, TaskTypes, Closes
<1>3. CASE Reopen
  BY <1>3 DEF Reopen, GithubTypes, TaskTypes, Closes
<1>4. CASE \E t \in Intakes, e \in Events : Begin(t, e)
  BY <1>4 DEF Begin, Goto, GithubTypes, TaskTypes, Closes, github
<1>5. CASE \E t \in Intakes : RouteSubmit(t)
  BY <1>5 DEF RouteSubmit, Goto, SetStatus, GithubTypes, TaskTypes, Closes, github
<1>6. CASE \E t \in Tasks : Finish(t)
  BY <1>6 DEF Finish, Goto, Leave, Mishap, GithubTypes, TaskTypes, Closes, github
<1> QED
  BY <1>1, <1>2, <1>3, <1>4, <1>5, <1>6
     DEF Next, Dispatch, Flush, JobStep, Tasks

\* The outbox rows and the queue keep their types.
LEMMA TablesTyped ==
  ASSUME TableTypes, TaskTypes, Next
  PROVE  TableTypes'
<1>1. CASE (\E e \in Events : Produce(e)) \/ Reopen \/ (\E t \in Intakes : RouteStart(t))
           \/ (\E t \in Intakes : CloseOnce(t)) \/ (\E t \in Intakes : Parents(t))
           \/ (\E t \in Tasks : Enter(t)) \/ (\E t \in Tasks : Flushed(t)) \/ JobPick \/ JobNext
  BY <1>1 DEF Produce, Reopen, RouteStart, CloseOnce, Parents, Enter, Flushed, JobPick, JobNext,
     TableTypes, TaskTypes, Resolved, Unresolved, Waits
<1>2. CASE \E a \in Agents : Acknowledge(a)
  BY <1>2 DEF Acknowledge, TableTypes, TaskTypes, Resolved, Unresolved, Waits
<1>3. CASE \E t \in Intakes, e \in Events : Begin(t, e)
  BY <1>3 DEF Begin, Goto, TableTypes, TaskTypes, Resolved, Unresolved, Waits
<1>4. CASE \E t \in Intakes : RouteSubmit(t)
  BY <1>4 DEF RouteSubmit, Goto, SetStatus, TableTypes, TaskTypes, Resolved, Unresolved, Waits
<1>5. CASE \E t \in Intakes : RouteClose(t)
  BY <1>5 DEF RouteClose, Goto, SetStatus, TableTypes, TaskTypes, Resolved, Unresolved, Waits
<1>6. CASE \E t \in Intakes : Purge(t)
  BY <1>6 DEF Purge, Goto, Mishap, TableTypes, TaskTypes, Resolved, Unresolved, Waits
<1>7. CASE \E t \in Tasks : Plan(t)
  BY <1>7 DEF Plan, Goto, StillOpen, Open, TableTypes, TaskTypes, Resolved, Unresolved, Waits
<1>8. CASE \E t \in Tasks : Valid(t)
  BY <1>8 DEF Valid, Goto, Done, SetStatus, Mine, Mishap, Entry, TableTypes, TaskTypes,
     Resolved, Unresolved, Waits
<1>9. CASE \E t \in Tasks : Paste(t)
  BY <1>9 DEF Paste, Goto, Sending, Mine, Mishap, TableTypes, TaskTypes, Resolved, Unresolved,
     Waits
<1>10. CASE \E t \in Tasks : Receipt(t)
  BY <1>10 DEF Receipt, Goto, Done, SetStatus, Mine, Mishap, TableTypes, TaskTypes, Resolved,
     Unresolved, Waits
<1>11. CASE \E t \in Tasks : Finish(t)
  BY <1>11 DEF Finish, Goto, Leave, Mishap, TableTypes, TaskTypes, Resolved, Unresolved, Waits
<1>12. CASE \E t \in Tasks : Abandon(t)
  BY <1>12 DEF Abandon, Goto, Leave, Mine, Mishap, TableTypes, TaskTypes, Resolved, Unresolved,
     Waits
<1>13. CASE \E t \in Tasks, a \in Agents : NextRow(t, a)
  BY <1>13 DEF NextRow, Goto, SetStatus, Entry, Skips, TableTypes, TaskTypes, Resolved,
     Unresolved, Waits
<1>14. CASE Crash
  BY <1>14 DEF Crash, Mishap, Mine, TableTypes, TaskTypes, Resolved, Unresolved, Waits
<1>15. CASE \E s \in Sends : DrainLease(s)
  BY <1>15 DEF DrainLease, TableTypes, TaskTypes, Resolved, Unresolved, Waits
<1>16. CASE \E s \in Sends : DrainSend(s)
  BY <1>16 DEF DrainSend, TableTypes, TaskTypes, Resolved, Unresolved, Waits
<1> QED
  BY <1>1, <1>2, <1>3, <1>4, <1>5, <1>6, <1>7, <1>8, <1>9, <1>10, <1>11, <1>12, <1>13, <1>14,
     <1>15, <1>16
     DEF Next, Dispatch, Flush, JobStep, Tasks

\* The locks keep their types.
LEMMA LocksTyped ==
  ASSUME LockTypes, TaskTypes, Next
  PROVE  LockTypes'
<1>1. CASE (\E e \in Events : Produce(e)) \/ Reopen \/ (\E a \in Agents : Acknowledge(a))
           \/ (\E t \in Intakes, e \in Events : Begin(t, e)) \/ (\E t \in Intakes : RouteStart(t))
           \/ (\E t \in Intakes : RouteSubmit(t)) \/ (\E t \in Intakes : RouteClose(t))
           \/ (\E t \in Intakes : CloseOnce(t)) \/ (\E t \in Intakes : Purge(t))
           \/ (\E t \in Intakes : Parents(t)) \/ (\E t \in Tasks : Valid(t))
           \/ (\E t \in Tasks : Receipt(t)) \/ (\E t \in Tasks : Finish(t))
           \/ (\E t \in Tasks, a \in Agents : NextRow(t, a)) \/ JobPick \/ JobNext
           \/ (\E s \in Sends : DrainLease(s)) \/ (\E s \in Sends : DrainSend(s))
  BY <1>1 DEF Produce, Reopen, Acknowledge, Begin, RouteStart, RouteSubmit, RouteClose,
     CloseOnce, Purge, Parents, Valid, Receipt, Finish, NextRow, JobPick, JobNext, DrainLease,
     DrainSend, LockTypes, TaskTypes, Tasks, locks
<1>2. CASE \E t \in Tasks : Plan(t)
  BY <1>2 DEF Plan, Goto, StillOpen, Open, LockTypes, TaskTypes, Tasks
<1>3. CASE \E t \in Tasks : Enter(t)
  BY <1>3 DEF Enter, Goto, LockTypes, TaskTypes, Tasks
<1>4. CASE \E t \in Tasks : Paste(t)
  BY <1>4 DEF Paste, Goto, Sending, Mine, Mishap, LockTypes, TaskTypes, Tasks
<1>5. CASE \E t \in Tasks : Flushed(t)
  BY <1>5 DEF Flushed, Goto, LockTypes, TaskTypes, Tasks
<1>6. CASE \E t \in Tasks : Abandon(t)
  BY <1>6 DEF Abandon, Goto, Leave, Mine, Mishap, LockTypes, TaskTypes, Tasks
<1>7. CASE Crash
  BY <1>7 DEF Crash, Mishap, Mine, LockTypes, TaskTypes, Tasks
<1> QED
  BY <1>1, <1>2, <1>3, <1>4, <1>5, <1>6, <1>7
     DEF Next, Dispatch, Flush, JobStep, Tasks

\* What each task remembers keeps its type.
LEMMA TasksTyped ==
  ASSUME TaskTypes, Next
  PROVE  TaskTypes'
<1>1. CASE (\E e \in Events : Produce(e)) \/ Reopen \/ (\E a \in Agents : Acknowledge(a))
           \/ (\E s \in Sends : DrainLease(s)) \/ (\E s \in Sends : DrainSend(s))
  BY <1>1 DEF Produce, Reopen, Acknowledge, DrainLease, DrainSend, TaskTypes, Tasks, locals
<1>2. CASE \E t \in Intakes, e \in Events : Begin(t, e)
  BY <1>2 DEF Begin, Goto, TaskTypes, Tasks
<1>3. CASE \E t \in Intakes : RouteStart(t)
  BY <1>3 DEF RouteStart, Goto, TaskTypes, Tasks
<1>4. CASE \E t \in Intakes : RouteSubmit(t)
  BY <1>4 DEF RouteSubmit, Goto, SetStatus, TaskTypes, Tasks
<1>5. CASE \E t \in Intakes : RouteClose(t)
  BY <1>5 DEF RouteClose, Goto, SetStatus, TaskTypes, Tasks
<1>6. CASE \E t \in Intakes : CloseOnce(t)
  BY <1>6 DEF CloseOnce, Goto, TaskTypes, Tasks
<1>7. CASE \E t \in Intakes : Purge(t)
  BY <1>7 DEF Purge, Goto, Mishap, TaskTypes, Tasks
<1>8. CASE \E t \in Intakes : Parents(t)
  BY <1>8 DEF Parents, Goto, TaskTypes, Tasks
<1>9. CASE \E t \in Tasks : Plan(t)
  <2> PICK t \in Tasks : Plan(t)
    BY <1>9
  <2>1. UNCHANGED <<on, to, got, picked>>
    BY DEF Plan
  <2>2. pc' = [pc EXCEPT ![t] = "rows"] /\ again' = [again EXCEPT ![t] = HasRows(on[t])]
    BY DEF Plan, Goto
  <2>3. \E S \in SUBSET Audience[on[t]] : left' = [left EXCEPT ![t] = S]
    BY DEF Plan, StillOpen, Open
  <2>4. Audience[on[t]] \subseteq Agents
    BY SendsAre DEF TaskTypes
  <2>5. HasRows(on[t]) \in BOOLEAN
    BY DEF HasRows
  <2> QED
    BY <2>1, <2>2, <2>3, <2>4, <2>5 DEF TaskTypes
<1>10. CASE \E t \in Tasks : Valid(t)
  BY <1>10 DEF Valid, Goto, Done, SetStatus, Mine, Mishap, Entry, TaskTypes, Tasks
<1>11. CASE \E t \in Tasks : Enter(t)
  BY <1>11 DEF Enter, Goto, TaskTypes, Tasks
<1>12. CASE \E t \in Tasks : Paste(t)
  BY <1>12 DEF Paste, Goto, Sending, Mine, Mishap, TaskTypes, Tasks
<1>13. CASE \E t \in Tasks : Receipt(t)
  BY <1>13 DEF Receipt, Goto, Done, SetStatus, Mine, Mishap, TaskTypes, Tasks
<1>14. CASE \E t \in Tasks : Flushed(t)
  BY <1>14 DEF Flushed, Goto, TaskTypes, Tasks
<1>15. CASE \E t \in Tasks : Finish(t)
  <2> PICK t \in Tasks : Finish(t)
    BY <1>15
  <2>1. UNCHANGED <<to, left, got, picked>>
    BY DEF Finish
  <2>2. /\ on' = [on EXCEPT ![t] = Opened] /\ again' = [again EXCEPT ![t] = FALSE]
        /\ pc' = [pc EXCEPT ![t] = IF t = Job THEN "next" ELSE "idle"]
    BY DEF Finish, Leave, Goto
  <2>3. Opened \in Events
    BY DEF Events
  <2> QED
    BY <2>1, <2>2, <2>3 DEF TaskTypes
<1>16. CASE \E t \in Tasks : Abandon(t)
  <2> PICK t \in Tasks : Abandon(t)
    BY <1>16
  <2>1. /\ left' = [left EXCEPT ![t] = {}] /\ to' = [to EXCEPT ![t] = NoOne]
        /\ got' = [got EXCEPT ![t] = "failed"] /\ UNCHANGED picked
    BY DEF Abandon
  <2>2. /\ on' = [on EXCEPT ![t] = Opened] /\ again' = [again EXCEPT ![t] = FALSE]
        /\ pc' = [pc EXCEPT ![t] = IF t = Job THEN "next" ELSE "idle"]
    BY DEF Abandon, Leave, Goto
  <2>3. Opened \in Events
    BY DEF Events
  <2> QED
    BY <2>1, <2>2, <2>3 DEF TaskTypes
<1>17. CASE \E t \in Tasks, a \in Agents : NextRow(t, a)
  BY <1>17 DEF NextRow, Goto, SetStatus, Entry, Skips, TaskTypes, Tasks
<1>18. CASE JobPick
  BY <1>18 DEF JobPick, Goto, TaskTypes, Tasks
<1>19. CASE JobNext
  BY <1>19 DEF JobNext, Goto, TaskTypes, Tasks
<1>20. CASE Crash
  <2>1. Opened \in Events
    BY DEF Events
  <2> QED
    BY <1>20, <2>1 DEF Crash, TaskTypes
<1> QED
  BY <1>1, <1>2, <1>3, <1>4, <1>5, <1>6, <1>7, <1>8, <1>9, <1>10, <1>11, <1>12, <1>13, <1>14,
     <1>15, <1>16, <1>17, <1>18, <1>19, <1>20
     DEF Next, Dispatch, Flush, JobStep, Tasks

\* The counts of what was shown and cut off stay numbers: a death of the service cuts off
\* finitely many receipts, because the event locks leave one per send.
LEMMA CountsTyped ==
  ASSUME CountTypes, TaskTypes, LocksOK, LocalOK, Next
  PROVE  CountTypes'
<1>1. CASE (\E e \in Events : Produce(e)) \/ Reopen \/ (\E a \in Agents : Acknowledge(a))
           \/ (\E t \in Intakes, e \in Events : Begin(t, e)) \/ (\E t \in Intakes : RouteStart(t))
           \/ (\E t \in Intakes : RouteSubmit(t)) \/ (\E t \in Intakes : RouteClose(t))
           \/ (\E t \in Intakes : CloseOnce(t)) \/ (\E t \in Intakes : Parents(t))
           \/ (\E t \in Tasks : Plan(t)) \/ (\E t \in Tasks : Enter(t))
           \/ (\E t \in Tasks : Flushed(t)) \/ (\E t \in Tasks, a \in Agents : NextRow(t, a))
           \/ JobPick \/ JobNext \/ (\E s \in Sends : DrainLease(s))
  BY <1>1 DEF Produce, Reopen, Acknowledge, Begin, RouteStart, RouteSubmit, RouteClose,
     CloseOnce, Parents, Plan, Enter, Flushed, NextRow, JobPick, JobNext, DrainLease, CountTypes,
     history
<1>2. CASE \E t \in Intakes : Purge(t)
  BY <1>2, OutboxAssumption DEF Purge, Goto, Mishap, CountTypes
<1>3. CASE \E t \in Tasks : Valid(t)
  BY <1>3, OutboxAssumption DEF Valid, Goto, Done, SetStatus, Mine, Mishap, Entry, CountTypes,
     history
<1>4. CASE \E t \in Tasks : Paste(t)
  <2> PICK t \in Tasks : Paste(t)
    BY <1>4
  <2>1. mishaps' \in 0 .. MaxMishaps
    BY OutboxAssumption DEF Paste, Sending, Mishap, CountTypes
  <2>2. told' = told \/ told' = [told EXCEPT ![Mine(t)] = @ + 1]
    BY DEF Paste, Sending
  <2>3. cutOff' = cutOff \/ cutOff' = [cutOff EXCEPT ![Mine(t)] = @ + 1]
    BY DEF Paste, Sending
  <2> QED
    BY <2>1, <2>2, <2>3 DEF CountTypes
<1>5. CASE \E t \in Tasks : Receipt(t)
  BY <1>5, OutboxAssumption DEF Receipt, Goto, Done, SetStatus, Mine, Mishap, CountTypes
<1>6. CASE \E t \in Tasks : Finish(t)
  BY <1>6, OutboxAssumption DEF Finish, Goto, Leave, Mishap, CountTypes, history
<1>7. CASE \E t \in Tasks : Abandon(t)
  <2> PICK t \in Tasks : Abandon(t)
    BY <1>7
  <2>1. mishaps' \in 0 .. MaxMishaps /\ UNCHANGED told
    BY OutboxAssumption DEF Abandon, Mishap, CountTypes
  <2>2. cutOff' \in [Sends -> Nat]
    BY DEF Abandon, CountTypes
  <2> QED
    BY <2>1, <2>2 DEF CountTypes
<1>8. CASE Crash
  <2>1. mishaps' \in 0 .. MaxMishaps /\ UNCHANGED told
    BY <1>8, OutboxAssumption DEF Crash, Mishap, CountTypes
  <2>2. cutOff' \in [Sends -> Nat]
    <3> SUFFICES ASSUME NEW s \in Sends PROVE Cardinality(Cut(s)) \in Nat
      BY <1>8 DEF Crash, Cut, CountTypes
    <3> QED
      BY CutOne
  <2> QED
    BY <2>1, <2>2 DEF CountTypes
<1>9. CASE \E s \in Sends : DrainSend(s)
  BY <1>9 DEF DrainSend, CountTypes
<1> QED
  BY <1>1, <1>2, <1>3, <1>4, <1>5, <1>6, <1>7, <1>8, <1>9
     DEF Next, Dispatch, Flush, JobStep, Tasks

\* The rest of the history keeps its type.
LEMMA HistoryTyped ==
  ASSUME LocalOK, HistoryTypes, Next
  PROVE  HistoryTypes'
<1>1. CASE (\E e \in Events : Produce(e)) \/ Reopen \/ (\E a \in Agents : Acknowledge(a))
           \/ (\E t \in Intakes, e \in Events : Begin(t, e)) \/ (\E t \in Intakes : RouteStart(t))
           \/ (\E t \in Intakes : RouteSubmit(t)) \/ (\E t \in Intakes : RouteClose(t))
           \/ (\E t \in Intakes : CloseOnce(t)) \/ (\E t \in Tasks : Plan(t))
           \/ (\E t \in Tasks : Valid(t)) \/ (\E t \in Tasks : Enter(t))
           \/ (\E t \in Tasks : Paste(t)) \/ (\E t \in Tasks : Receipt(t))
           \/ (\E t \in Tasks : Flushed(t)) \/ (\E t \in Tasks : Finish(t))
           \/ (\E t \in Tasks : Abandon(t)) \/ (\E t \in Tasks, a \in Agents : NextRow(t, a))
           \/ JobPick \/ JobNext \/ Crash \/ (\E s \in Sends : DrainLease(s))
           \/ (\E s \in Sends : DrainSend(s))
  BY <1>1 DEF Produce, Reopen, Acknowledge, Begin, RouteStart, RouteSubmit, RouteClose,
     CloseOnce, Plan, Valid, Enter, Paste, Receipt, Flushed, Finish, Abandon, NextRow, JobPick,
     JobNext, Crash, DrainLease, DrainSend, LocalOK, HistoryTypes, Tasks, history
<1>2. CASE \E t \in Intakes : Purge(t)
  BY <1>2 DEF Purge, Goto, Mishap, LocalOK, HistoryTypes, Tasks
<1>3. CASE \E t \in Intakes : Parents(t)
  BY <1>3 DEF Parents, Goto, LocalOK, HistoryTypes, Tasks
<1> QED
  BY <1>1, <1>2, <1>3
     DEF Next, Dispatch, Flush, JobStep, Tasks

\* The locks, through any step.
LEMMA LocksKept ==
  ASSUME TaskTypes, LockTypes, LocksOK, Next
  PROVE  LocksOK'
<1>1. CASE (\E e \in Events : Produce(e)) \/ Reopen \/ (\E a \in Agents : Acknowledge(a))
           \/ (\E s \in Sends : DrainLease(s)) \/ (\E s \in Sends : DrainSend(s))
  <2>1. UNCHANGED <<pc, on, locked, reviewing, finished>>
    BY <1>1 DEF Produce, Reopen, Acknowledge, DrainLease, DrainSend, locals, locks
  <2> QED
    BY <2>1 DEF TaskTypes, LockTypes, LocksOK, Sender
<1>2. CASE \E t \in Intakes, e \in Events : Begin(t, e)
  BY <1>2, Distinct DEF Begin, Goto, TaskTypes, LockTypes, LocksOK, Sender, locks
<1>3. CASE \E t \in Intakes : RouteStart(t)
  BY <1>3, Distinct DEF RouteStart, Goto, TaskTypes, LockTypes, LocksOK, Sender, locks
<1>4. CASE \E t \in Intakes : RouteSubmit(t)
  BY <1>4, Distinct DEF RouteSubmit, Goto, SetStatus, TaskTypes, LockTypes, LocksOK, Sender,
     locks
<1>5. CASE \E t \in Intakes : RouteClose(t)
  BY <1>5, Distinct DEF RouteClose, Goto, SetStatus, TaskTypes, LockTypes, LocksOK, Sender,
     locks
<1>6. CASE \E t \in Intakes : CloseOnce(t)
  BY <1>6, Distinct DEF CloseOnce, Goto, TaskTypes, LockTypes, LocksOK, Sender, locks
<1>7. CASE \E t \in Intakes : Purge(t)
  BY <1>7, Distinct DEF Purge, Goto, Mishap, TaskTypes, LockTypes, LocksOK, Sender, locks
<1>8. CASE \E t \in Intakes : Parents(t)
  BY <1>8, Distinct DEF Parents, Goto, TaskTypes, LockTypes, LocksOK, Sender, locks
<1>9. CASE \E t \in Tasks : Plan(t)
  BY <1>9, Distinct DEF Plan, Goto, StillOpen, Open, TaskTypes, LockTypes, LocksOK, Sender
<1>10. CASE \E t \in Tasks : Valid(t)
  BY <1>10, Distinct DEF Valid, Goto, Done, SetStatus, Mine, Mishap, Entry, TaskTypes,
     LockTypes, LocksOK, Sender, locks
<1>11. CASE \E t \in Tasks : Enter(t)
  BY <1>11, Distinct DEF Enter, Goto, TaskTypes, LockTypes, LocksOK, Sender
<1>12. CASE \E t \in Tasks : Paste(t)
  BY <1>12, Distinct DEF Paste, Goto, Sending, Mine, Mishap, TaskTypes, LockTypes, LocksOK,
     Sender
<1>13. CASE \E t \in Tasks : Receipt(t)
  BY <1>13, Distinct DEF Receipt, Goto, Done, SetStatus, Mine, Mishap, TaskTypes, LockTypes,
     LocksOK, Sender, locks
<1>14. CASE \E t \in Tasks : Flushed(t)
  BY <1>14, Distinct DEF Flushed, Goto, TaskTypes, LockTypes, LocksOK, Sender
<1>15. CASE \E t \in Tasks : Finish(t)
  BY <1>15, Distinct DEF Finish, Goto, Leave, Mishap, TaskTypes, LockTypes, LocksOK, Sender,
     locks
<1>16. CASE \E t \in Tasks : Abandon(t)
  BY <1>16, Distinct DEF Abandon, Goto, Leave, Mine, Mishap, TaskTypes, LockTypes, LocksOK,
     Sender
<1>17. CASE \E t \in Tasks, a \in Agents : NextRow(t, a)
  BY <1>17, Distinct DEF NextRow, Goto, SetStatus, Entry, Skips, TaskTypes, LockTypes, LocksOK,
     Sender, locks
<1>18. CASE JobPick
  BY <1>18, Distinct DEF JobPick, Goto, TaskTypes, LockTypes, LocksOK, Sender, locks
<1>19. CASE JobNext
  BY <1>19, Distinct DEF JobNext, Goto, TaskTypes, LockTypes, LocksOK, Sender, locks
<1>20. CASE Crash
  BY <1>20, Distinct DEF Crash, Mishap, Mine, TaskTypes, LockTypes, LocksOK, Sender
<1> QED
  BY <1>1, <1>2, <1>3, <1>4, <1>5, <1>6, <1>7, <1>8, <1>9, <1>10, <1>11, <1>12, <1>13, <1>14,
     <1>15, <1>16, <1>17, <1>18, <1>19, <1>20
     DEF Next, Dispatch, Flush, JobStep, Tasks

\* What a task remembers, through any step.
LEMMA LocalKept ==
  ASSUME TaskTypes, LocalOK, Next
  PROVE  LocalOK'
<1>1. CASE (\E e \in Events : Produce(e)) \/ Reopen \/ (\E a \in Agents : Acknowledge(a))
           \/ (\E s \in Sends : DrainLease(s)) \/ (\E s \in Sends : DrainSend(s))
  BY <1>1 DEF Produce, Reopen, Acknowledge, DrainLease, DrainSend, TaskTypes, LocalOK, Sender,
     locals
<1>2. CASE \E t \in Intakes, e \in Events : Begin(t, e)
  BY <1>2, Distinct DEF Begin, Goto, TaskTypes, LocalOK, Sender
<1>3. CASE \E t \in Intakes : RouteStart(t)
  BY <1>3, Distinct DEF RouteStart, Goto, TaskTypes, LocalOK, Sender
<1>4. CASE \E t \in Intakes : RouteSubmit(t)
  BY <1>4, Distinct DEF RouteSubmit, Goto, SetStatus, TaskTypes, LocalOK, Sender
<1>5. CASE \E t \in Intakes : RouteClose(t)
  BY <1>5, Distinct DEF RouteClose, Goto, SetStatus, TaskTypes, LocalOK, Sender
<1>6. CASE \E t \in Intakes : CloseOnce(t)
  BY <1>6, Distinct DEF CloseOnce, Goto, TaskTypes, LocalOK, Sender
<1>7. CASE \E t \in Intakes : Purge(t)
  BY <1>7, Distinct DEF Purge, Goto, Mishap, TaskTypes, LocalOK, Sender
<1>8. CASE \E t \in Intakes : Parents(t)
  BY <1>8, Distinct DEF Parents, Goto, TaskTypes, LocalOK, Sender
<1>9. CASE \E t \in Tasks : Plan(t)
  <2> PICK t \in Tasks : Plan(t)
    BY <1>9
  <2>1. UNCHANGED <<on, to>> /\ pc[t] = "plan" /\ pc' = [pc EXCEPT ![t] = "rows"]
    BY DEF Plan, Goto
  <2>2. \E S \in SUBSET Audience[on[t]] : left' = [left EXCEPT ![t] = S]
    BY DEF Plan, StillOpen, Open
  <2> QED
    BY <2>1, <2>2, Distinct DEF TaskTypes, LocalOK, Sender
<1>10. CASE \E t \in Tasks : Valid(t)
  <2> PICK t \in Tasks : Valid(t)
    BY <1>10
  <2>1. UNCHANGED <<on, flying>> /\ pc[t] = "valid"
    BY DEF Valid, locks
  <2>2. CASE \E status \in {"skipped", "failed"} : Done(t, status)
    <3>1. Others(t) /\ pc'[t] = "rows" /\ left'[t] = left[t] \ {to[t]}
      BY <2>1, <2>2, DoneIs DEF Valid
    <3> QED
      BY <2>1, <3>1 DEF LocalOK, Sender, Tasks, Others
  <2>3. CASE Goto(t, Entry(on[t])) /\ UNCHANGED <<left, to, got>>
    BY <2>1, <2>3, Distinct DEF Valid, Goto, Entry, TaskTypes, LocalOK, Sender
  <2> QED
    BY <2>2, <2>3 DEF Valid
<1>11. CASE \E t \in Tasks : Enter(t)
  <2> PICK t \in Tasks : Enter(t)
    BY <1>11
  <2>1. UNCHANGED <<on, to, left, flying>> /\ pc[t] = "send"
    BY DEF Enter
  <2>2. \E p \in {"receipt", "paste"} : pc' = [pc EXCEPT ![t] = p]
    BY DEF Enter, Goto
  <2> QED
    BY <2>1, <2>2, Distinct DEF TaskTypes, LocalOK, Sender
<1>12. CASE \E t \in Tasks : Paste(t)
  BY <1>12, Distinct DEF Paste, Goto, Sending, Mine, Mishap, TaskTypes, LocalOK, Sender
<1>13. CASE \E t \in Tasks : Receipt(t)
  <2> PICK t \in Tasks : Receipt(t)
    BY <1>13
  <2>1. UNCHANGED <<on, flying>> /\ pc[t] = "receipt"
    BY DEF Receipt
  <2>2. \E status : Done(t, status)
    BY DEF Receipt
  <2>3. Others(t) /\ pc'[t] = "rows" /\ left'[t] = left[t] \ {to[t]}
    BY <2>1, <2>2, DoneIs DEF Receipt
  <2> QED
    BY <2>1, <2>3, Distinct DEF LocalOK, Sender, Tasks, Others
<1>14. CASE \E t \in Tasks : Flushed(t)
  BY <1>14, Distinct DEF Flushed, Goto, TaskTypes, LocalOK, Sender
<1>15. CASE \E t \in Tasks : Finish(t)
  BY <1>15, Distinct DEF Finish, Goto, Leave, Mishap, TaskTypes, LocalOK, Sender
<1>16. CASE \E t \in Tasks : Abandon(t)
  BY <1>16, Distinct DEF Abandon, Goto, Leave, Mine, Mishap, TaskTypes, LocalOK, Sender
<1>17. CASE \E t \in Tasks, a \in Agents : NextRow(t, a)
  <2> PICK t \in Tasks, a \in Agents : NextRow(t, a)
    BY <1>17
  <2>1. UNCHANGED <<on, flying>> /\ pc[t] = "rows" /\ a \in left[t]
    BY DEF NextRow
  <2>2. CASE left' = [left EXCEPT ![t] = left[t] \ {a}] /\ UNCHANGED <<pc, to>>
    BY <2>1, <2>2 DEF TaskTypes, LocalOK, Sender
  <2>3. CASE /\ \E p \in {"valid", "send", "paste"} :
                    pc' = [pc EXCEPT ![t] = p] /\ (p = "send" => on[t] = Start)
             /\ to' = [to EXCEPT ![t] = a] /\ UNCHANGED left
    BY <2>1, <2>3, Distinct DEF TaskTypes, LocalOK, Sender
  <2> QED
    BY <2>2, <2>3 DEF NextRow, Goto, Entry
<1>18. CASE JobPick
  BY <1>18, Distinct DEF JobPick, Goto, TaskTypes, LocalOK, Sender
<1>19. CASE JobNext
  BY <1>19, Distinct DEF JobNext, Goto, TaskTypes, LocalOK, Sender
<1>20. CASE Crash
  <2>1. pc' = [u \in Tasks |-> "idle"] /\ left' = [u \in Tasks |-> {}]
    BY <1>20 DEF Crash
  <2> QED
    BY <2>1, Distinct DEF LocalOK, Sender, Tasks
<1> QED
  BY <1>1, <1>2, <1>3, <1>4, <1>5, <1>6, <1>7, <1>8, <1>9, <1>10, <1>11, <1>12, <1>13, <1>14,
     <1>15, <1>16, <1>17, <1>18, <1>19, <1>20
     DEF Next, Dispatch, Flush, JobStep, Tasks

\* The events in flight, through any step.
LEMMA FlightKept ==
  ASSUME TaskTypes, FlightOK, Next
  PROVE  FlightOK'
<1>1. CASE (\E e \in Events : Produce(e)) \/ Reopen \/ (\E a \in Agents : Acknowledge(a))
           \/ (\E s \in Sends : DrainLease(s)) \/ (\E s \in Sends : DrainSend(s))
  BY <1>1 DEF Produce, Reopen, Acknowledge, DrainLease, DrainSend, TaskTypes, FlightOK, locals
<1>2. CASE \E t \in Intakes, e \in Events : Begin(t, e)
  BY <1>2, Distinct DEF Begin, Goto, TaskTypes, FlightOK
<1>3. CASE \E t \in Intakes : RouteStart(t)
  BY <1>3, Distinct DEF RouteStart, Goto, TaskTypes, FlightOK
<1>4. CASE \E t \in Intakes : RouteSubmit(t)
  BY <1>4, Distinct DEF RouteSubmit, Goto, SetStatus, TaskTypes, FlightOK
<1>5. CASE \E t \in Intakes : RouteClose(t)
  BY <1>5, Distinct DEF RouteClose, Goto, SetStatus, TaskTypes, FlightOK
<1>6. CASE \E t \in Intakes : CloseOnce(t)
  BY <1>6, Distinct DEF CloseOnce, Goto, TaskTypes, FlightOK
<1>7. CASE \E t \in Intakes : Purge(t)
  BY <1>7, Distinct DEF Purge, Goto, Mishap, TaskTypes, FlightOK
<1>8. CASE \E t \in Intakes : Parents(t)
  BY <1>8, Distinct DEF Parents, Goto, TaskTypes, FlightOK
<1>9. CASE \E t \in Tasks : Plan(t)
  BY <1>9, Distinct DEF Plan, Goto, StillOpen, Open, TaskTypes, FlightOK
<1>10. CASE \E t \in Tasks : Valid(t)
  <2> PICK t \in Tasks : Valid(t)
    BY <1>10
  <2>1. UNCHANGED <<on, flying>> /\ pc[t] = "valid"
    BY DEF Valid, locks
  <2>2. CASE \E status \in {"skipped", "failed"} : Done(t, status)
    <3>1. Others(t) /\ pc'[t] = "rows" /\ left'[t] = left[t] \ {to[t]}
      BY <2>1, <2>2, DoneIs DEF Valid
    <3> QED
      BY <2>1, <3>1 DEF FlightOK, Tasks, Others
  <2>3. CASE Goto(t, Entry(on[t])) /\ UNCHANGED <<left, to, got>>
    BY <2>1, <2>3, Distinct DEF Valid, Goto, Entry, TaskTypes, FlightOK
  <2> QED
    BY <2>2, <2>3 DEF Valid
<1>11. CASE \E t \in Tasks : Enter(t)
  <2> PICK t \in Tasks : Enter(t)
    BY <1>11
  <2>1. UNCHANGED <<on, to, left, flying>> /\ pc[t] = "send"
    BY DEF Enter
  <2>2. \E p \in {"receipt", "paste"} : pc' = [pc EXCEPT ![t] = p]
    BY DEF Enter, Goto
  <2> QED
    BY <2>1, <2>2, Distinct DEF TaskTypes, FlightOK
<1>12. CASE \E t \in Tasks : Paste(t)
  BY <1>12, Distinct DEF Paste, Goto, Sending, Mine, Mishap, TaskTypes, FlightOK
<1>13. CASE \E t \in Tasks : Receipt(t)
  <2> PICK t \in Tasks : Receipt(t)
    BY <1>13
  <2>1. UNCHANGED <<on, flying>> /\ pc[t] = "receipt"
    BY DEF Receipt
  <2>2. \E status : Done(t, status)
    BY DEF Receipt
  <2>3. Others(t) /\ pc'[t] = "rows" /\ left'[t] = left[t] \ {to[t]}
    BY <2>1, <2>2, DoneIs DEF Receipt
  <2> QED
    BY <2>1, <2>3, Distinct DEF FlightOK, Tasks, Others
<1>14. CASE \E t \in Tasks : Flushed(t)
  BY <1>14, Distinct DEF Flushed, Goto, TaskTypes, FlightOK
<1>15. CASE \E t \in Tasks : Finish(t)
  BY <1>15, Distinct DEF Finish, Goto, Leave, Mishap, TaskTypes, FlightOK
<1>16. CASE \E t \in Tasks : Abandon(t)
  BY <1>16, Distinct DEF Abandon, Goto, Leave, Mine, Mishap, TaskTypes, FlightOK
<1>17. CASE \E t \in Tasks, a \in Agents : NextRow(t, a)
  <2> PICK t \in Tasks, a \in Agents : NextRow(t, a)
    BY <1>17
  <2>1. UNCHANGED <<on, flying>> /\ pc[t] = "rows" /\ a \in left[t]
    BY DEF NextRow
  <2>2. CASE left' = [left EXCEPT ![t] = left[t] \ {a}] /\ UNCHANGED <<pc, to>>
    BY <2>1, <2>2 DEF TaskTypes, FlightOK
  <2>3. CASE /\ \E p \in {"valid", "send", "paste"} :
                    pc' = [pc EXCEPT ![t] = p] /\ (p = "send" => on[t] = Start)
             /\ to' = [to EXCEPT ![t] = a] /\ UNCHANGED left
    BY <2>1, <2>3, Distinct DEF TaskTypes, FlightOK
  <2> QED
    BY <2>2, <2>3 DEF NextRow, Goto, Entry
<1>18. CASE JobPick
  BY <1>18, Distinct DEF JobPick, Goto, TaskTypes, FlightOK
<1>19. CASE JobNext
  <2>1. UNCHANGED flying /\ \A u \in Intakes : pc'[u] = pc[u] /\ on'[u] = on[u]
    BY <1>19, Distinct DEF JobNext, Goto, TaskTypes, Tasks
  <2> QED
    BY <2>1 DEF FlightOK
<1>20. CASE Crash
  <2>1. pc' = [u \in Tasks |-> "idle"]
    BY <1>20 DEF Crash
  <2> QED
    BY <2>1 DEF FlightOK, Tasks
<1> QED
  BY <1>1, <1>2, <1>3, <1>4, <1>5, <1>6, <1>7, <1>8, <1>9, <1>10, <1>11, <1>12, <1>13, <1>14,
     <1>15, <1>16, <1>17, <1>18, <1>19, <1>20
     DEF Next, Dispatch, Flush, JobStep, Tasks

\* The stored events and the order of the closings, through any step.
LEMMA EventKept ==
  ASSUME TypeOK, EventOK, Next
  PROVE  EventOK'
<1>1. CASE (\E a \in Agents : Acknowledge(a)) \/ (\E s \in Sends : DrainLease(s))
           \/ (\E s \in Sends : DrainSend(s))
  BY <1>1 DEF Acknowledge, DrainLease, DrainSend, TypeOK, EventOK, Closes, github, locals
<1>2. CASE \E e \in Events : Produce(e)
  BY <1>2, Distinct DEF Produce, TypeOK, EventOK, Closes, locals
<1>3. CASE Reopen
  BY <1>3, Distinct DEF Reopen, TypeOK, EventOK, Closes, locals
<1>4. CASE \E t \in Intakes, e \in Events : Begin(t, e)
  BY <1>4, Distinct DEF Begin, Goto, TypeOK, EventOK, Closes, github
<1>5. CASE \E t \in Intakes : RouteStart(t)
  BY <1>5, Distinct DEF RouteStart, Goto, TypeOK, EventOK, Closes, github
<1>6. CASE \E t \in Intakes : RouteSubmit(t)
  BY <1>6, Distinct DEF RouteSubmit, Goto, SetStatus, TypeOK, EventOK, Closes, github
<1>7. CASE \E t \in Intakes : RouteClose(t)
  BY <1>7, Distinct DEF RouteClose, Goto, SetStatus, TypeOK, EventOK, Closes, github
<1>8. CASE \E t \in Intakes : CloseOnce(t)
  BY <1>8, Distinct DEF CloseOnce, Goto, TypeOK, EventOK, Closes, github
<1>9. CASE \E t \in Intakes : Purge(t)
  BY <1>9, Distinct DEF Purge, Goto, Mishap, TypeOK, EventOK, Closes, github
<1>10. CASE \E t \in Intakes : Parents(t)
  BY <1>10, Distinct DEF Parents, Goto, TypeOK, EventOK, Closes, github
<1>11. CASE \E t \in Tasks : Plan(t)
  BY <1>11, Distinct DEF Plan, Goto, StillOpen, Open, TypeOK, EventOK, Closes, github
<1>12. CASE \E t \in Tasks : Valid(t)
  BY <1>12, Distinct DEF Valid, Goto, Done, SetStatus, Mine, Mishap, Entry, TypeOK, EventOK,
     Closes, github
<1>13. CASE \E t \in Tasks : Enter(t)
  BY <1>13, Distinct DEF Enter, Goto, TypeOK, EventOK, Closes, github
<1>14. CASE \E t \in Tasks : Paste(t)
  BY <1>14, Distinct DEF Paste, Goto, Sending, Mine, Mishap, TypeOK, EventOK, Closes, github
<1>15. CASE \E t \in Tasks : Receipt(t)
  BY <1>15, Distinct DEF Receipt, Goto, Done, SetStatus, Mine, Mishap, TypeOK, EventOK, Closes,
     github
<1>16. CASE \E t \in Tasks : Flushed(t)
  BY <1>16, Distinct DEF Flushed, Goto, TypeOK, EventOK, Closes, github
<1>17. CASE \E t \in Tasks : Finish(t)
  BY <1>17, Distinct DEF Finish, Goto, Leave, Mishap, TypeOK, EventOK, Closes, github
<1>18. CASE \E t \in Tasks : Abandon(t)
  BY <1>18, Distinct DEF Abandon, Goto, Leave, Mine, Mishap, TypeOK, EventOK, Closes, github
<1>19. CASE \E t \in Tasks, a \in Agents : NextRow(t, a)
  BY <1>19, Distinct DEF NextRow, Goto, SetStatus, Entry, Skips, TypeOK, EventOK, Closes, github
<1>20. CASE JobPick
  BY <1>20, Distinct DEF JobPick, Goto, TypeOK, EventOK, Closes, github
<1>21. CASE JobNext
  BY <1>21, Distinct DEF JobNext, Goto, TypeOK, EventOK, Closes, github
<1>22. CASE Crash
  BY <1>22, Distinct DEF Crash, Mishap, Mine, TypeOK, EventOK, Closes, github
<1> QED
  BY <1>1, <1>2, <1>3, <1>4, <1>5, <1>6, <1>7, <1>8, <1>9, <1>10, <1>11, <1>12, <1>13, <1>14,
     <1>15, <1>16, <1>17, <1>18, <1>19, <1>20, <1>21, <1>22
     DEF Next, Dispatch, Flush, JobStep, Tasks

\* What one step can do to a row: leave it, write a status over an unresolved one, or plan.
LEMMA RowStep ==
  ASSUME TaskTypes, NEW s \in Sends, Next
  PROVE  \/ row'[s] = row[s]
         \/ row[s] \in Unresolved /\ row'[s] \in Unresolved \cup Resolved
         \/ \E t \in Tasks : Plan(t) /\ ~HasRows(on[t]) /\ s[1] = on[t]
<1>1. CASE (\E e \in Events : Produce(e)) \/ Reopen \/ (\E a \in Agents : Acknowledge(a))
           \/ (\E t \in Intakes, e \in Events : Begin(t, e)) \/ (\E t \in Intakes : RouteStart(t))
           \/ (\E t \in Intakes : CloseOnce(t)) \/ (\E t \in Intakes : Purge(t))
           \/ (\E t \in Intakes : Parents(t)) \/ (\E t \in Tasks : Enter(t))
           \/ (\E t \in Tasks : Paste(t)) \/ (\E t \in Tasks : Flushed(t))
           \/ (\E t \in Tasks : Finish(t)) \/ (\E t \in Tasks : Abandon(t)) \/ JobPick \/ JobNext
           \/ Crash \/ (\E q \in Sends : DrainLease(q)) \/ (\E q \in Sends : DrainSend(q))
  BY <1>1 DEF Produce, Reopen, Acknowledge, Begin, RouteStart, CloseOnce, Purge, Parents, Enter,
     Paste, Flushed, Finish, Abandon, JobPick, JobNext, Crash, DrainLease, DrainSend, Open,
     Unresolved, Resolved
<1>2. CASE \E t \in Intakes : RouteSubmit(t)
  BY <1>2, SendsAre DEF RouteSubmit, Goto, SetStatus, Open, Unresolved, Resolved
<1>3. CASE \E t \in Intakes : RouteClose(t)
  BY <1>3, SendsAre DEF RouteClose, Goto, SetStatus, Open, Unresolved, Resolved
<1>4. CASE \E t \in Tasks : Plan(t)
  <2> PICK t \in Tasks : Plan(t)
    BY <1>4
  <2>1. CASE HasRows(on[t])
    BY <2>1 DEF Plan
  <2>2. CASE ~HasRows(on[t])
    <3>1. CASE s \in {on[t]} \X Audience[on[t]]
      BY <2>2, <3>1
    <3>2. CASE s \notin {on[t]} \X Audience[on[t]]
      BY <2>2, <3>2 DEF Plan
    <3> QED
      BY <3>1, <3>2
  <2> QED
    BY <2>1, <2>2
<1>5. CASE \E t \in Tasks : Valid(t)
  BY <1>5, SendsAre DEF Valid, Goto, Done, SetStatus, Mine, Mishap, Entry, Open, Unresolved,
     Resolved
<1>6. CASE \E t \in Tasks : Receipt(t)
  <2> PICK t \in Tasks : Receipt(t)
    BY <1>6
  <2>1. \E status \in {"failed", got[t]} : SetStatus({Mine(t)}, status)
    BY DEF Receipt, Done
  <2>2. got[t] \in {"failed", "delivered", "queued"}
    BY DEF TaskTypes
  <2> QED
    BY <2>1, <2>2 DEF SetStatus, Unresolved, Resolved
<1>7. CASE \E t \in Tasks, a \in Agents : NextRow(t, a)
  BY <1>7, SendsAre DEF NextRow, Goto, SetStatus, Entry, Skips, Open, Unresolved, Resolved
<1> QED
  BY <1>1, <1>2, <1>3, <1>4, <1>5, <1>6, <1>7
     DEF Next, Dispatch, Flush, JobStep, Tasks

\* Only a send puts a message of its own into the queue.
LEMMA QueueStep ==
  ASSUME TableTypes, TaskTypes, NEW s \in Sends, queue[s] = "none", queue'[s] # "none", Next
  PROVE  \E t \in Tasks : Paste(t) /\ s = Mine(t)
<1>1. CASE (\E e \in Events : Produce(e)) \/ Reopen \/ (\E a \in Agents : Acknowledge(a))
           \/ (\E t \in Intakes, e \in Events : Begin(t, e)) \/ (\E t \in Intakes : RouteStart(t))
           \/ (\E t \in Intakes : RouteClose(t)) \/ (\E t \in Intakes : CloseOnce(t))
           \/ (\E t \in Intakes : Parents(t)) \/ (\E t \in Tasks : Plan(t))
           \/ (\E t \in Tasks : Valid(t)) \/ (\E t \in Tasks : Enter(t))
           \/ (\E t \in Tasks : Receipt(t)) \/ (\E t \in Tasks : Flushed(t))
           \/ (\E t \in Tasks : Finish(t)) \/ (\E t \in Tasks : Abandon(t))
           \/ (\E t \in Tasks, a \in Agents : NextRow(t, a)) \/ JobPick \/ JobNext
  BY <1>1 DEF Produce, Reopen, Acknowledge, Begin, RouteStart, RouteClose, CloseOnce, Parents,
     Plan, Valid, Enter, Receipt, Flushed, Finish, Abandon, NextRow, JobPick, JobNext, TableTypes
<1>2. CASE \E t \in Intakes : RouteSubmit(t)
  BY <1>2 DEF RouteSubmit, Goto, SetStatus, TableTypes
<1>3. CASE \E t \in Intakes : Purge(t)
  <2> PICK t \in Intakes : Purge(t)
    BY <1>3
  <2>1. \/ UNCHANGED queue
        \/ queue' = [r \in Sends |-> IF r[1] \in OfIssue /\ queue[r] \in Waits
                                     THEN "gone" ELSE queue[r]]
    BY DEF Purge
  <2> QED
    BY <2>1 DEF Waits
<1>4. CASE \E t \in Tasks : Paste(t)
  BY <1>4 DEF Paste, Goto, Sending, Mine, Mishap, TableTypes
<1>5. CASE Crash
  BY <1>5 DEF Crash, Mishap, Mine, TableTypes
<1>6. CASE \E q \in Sends : DrainLease(q)
  BY <1>6 DEF DrainLease, TableTypes
<1>7. CASE \E q \in Sends : DrainSend(q)
  BY <1>7 DEF DrainSend, TableTypes
<1> QED
  BY <1>1, <1>2, <1>3, <1>4, <1>5, <1>6, <1>7
     DEF Next, Dispatch, Flush, JobStep, Tasks

\* A stored event stays stored.
LEMMA EventStep ==
  ASSUME GithubTypes, NEW e \in Events, event[e] # "none", Next
  PROVE  event'[e] # "none"
<1>1. CASE (\E d \in Events : Produce(d)) \/ Reopen \/ (\E a \in Agents : Acknowledge(a))
           \/ (\E t \in Intakes : RouteStart(t)) \/ (\E t \in Intakes : RouteSubmit(t))
           \/ (\E t \in Intakes : RouteClose(t)) \/ (\E t \in Intakes : CloseOnce(t))
           \/ (\E t \in Intakes : Purge(t)) \/ (\E t \in Intakes : Parents(t))
           \/ (\E t \in Tasks : Plan(t)) \/ (\E t \in Tasks : Valid(t))
           \/ (\E t \in Tasks : Enter(t)) \/ (\E t \in Tasks : Paste(t))
           \/ (\E t \in Tasks : Receipt(t)) \/ (\E t \in Tasks : Flushed(t))
           \/ (\E t \in Tasks : Abandon(t)) \/ (\E t \in Tasks, a \in Agents : NextRow(t, a))
           \/ JobPick \/ JobNext \/ Crash \/ (\E s \in Sends : DrainLease(s))
           \/ (\E s \in Sends : DrainSend(s))
  BY <1>1 DEF Produce, Reopen, Acknowledge, RouteStart, RouteSubmit, RouteClose, CloseOnce,
     Purge, Parents, Plan, Valid, Enter, Paste, Receipt, Flushed, Abandon, NextRow, JobPick,
     JobNext, Crash, DrainLease, DrainSend, GithubTypes
<1>2. CASE \E t \in Intakes, d \in Events : Begin(t, d)
  BY <1>2 DEF Begin, Goto, GithubTypes
<1>3. CASE \E t \in Tasks : Finish(t)
  BY <1>3 DEF Finish, Goto, Leave, Mishap, GithubTypes
<1> QED
  BY <1>1, <1>2, <1>3
     DEF Next, Dispatch, Flush, JobStep, Tasks

\* What one step can do to a task's event and recipients, and where its purge and the job's
\* plans come from.
LEMMA TaskStep ==
  ASSUME TaskTypes, NEW t \in Tasks, Next
  PROVE  /\ \/ on'[t] = on[t] /\ left'[t] \subseteq left[t]
            \/ left'[t] = {}
            \/ left'[t] = left[t] /\ pc[t] \in {"idle", "next", "finish"}
            \/ Plan(t)
         /\ pc'[t] = "purge" =>
               on'[t] = on[t] /\ (pc[t] = "purge" \/ (CloseOnce(t) /\ ~HasRows(on[t])))
         /\ pc'[t] = "plan" /\ t = Job =>
               (on'[t] = on[t] /\ pc[t] = "plan") \/ (JobNext /\ on'[t] \in picked)
<1>1. CASE (\E e \in Events : Produce(e)) \/ Reopen \/ (\E a \in Agents : Acknowledge(a))
           \/ (\E s \in Sends : DrainLease(s)) \/ (\E s \in Sends : DrainSend(s))
  BY <1>1 DEF Produce, Reopen, Acknowledge, DrainLease, DrainSend, TaskTypes, locals
<1>2. CASE \E v \in Intakes, e \in Events : Begin(v, e)
  BY <1>2, Distinct DEF Begin, Goto, TaskTypes
<1>3. CASE \E v \in Intakes : RouteStart(v)
  BY <1>3, Distinct DEF RouteStart, Goto, TaskTypes
<1>4. CASE \E v \in Intakes : RouteSubmit(v)
  BY <1>4, Distinct DEF RouteSubmit, Goto, SetStatus, TaskTypes
<1>5. CASE \E v \in Intakes : RouteClose(v)
  BY <1>5, Distinct DEF RouteClose, Goto, SetStatus, TaskTypes
<1>6. CASE \E v \in Intakes : CloseOnce(v)
  BY <1>6, Distinct DEF CloseOnce, Goto, TaskTypes
<1>7. CASE \E v \in Intakes : Purge(v)
  BY <1>7, Distinct DEF Purge, Goto, Mishap, TaskTypes
<1>8. CASE \E v \in Intakes : Parents(v)
  BY <1>8, Distinct DEF Parents, Goto, TaskTypes
<1>9. CASE \E v \in Tasks : Plan(v)
  <2> PICK u \in Tasks : Plan(u)
    BY <1>9
  <2>1. pc' = [pc EXCEPT ![u] = "rows"] /\ UNCHANGED on
    BY DEF Plan, Goto
  <2>2. \E S : left' = [left EXCEPT ![u] = S]
    BY DEF Plan
  <2>3. CASE t = u
    BY <2>1, <2>3 DEF TaskTypes
  <2>4. CASE t # u
    BY <2>1, <2>2, <2>4 DEF TaskTypes
  <2> QED
    BY <2>3, <2>4
<1>10. CASE \E v \in Tasks : Valid(v)
  BY <1>10, Distinct DEF Valid, Goto, Done, SetStatus, Mine, Mishap, Entry, TaskTypes
<1>11. CASE \E v \in Tasks : Enter(v)
  BY <1>11, Distinct DEF Enter, Goto, TaskTypes
<1>12. CASE \E v \in Tasks : Paste(v)
  BY <1>12, Distinct DEF Paste, Goto, Sending, Mine, Mishap, TaskTypes
<1>13. CASE \E v \in Tasks : Receipt(v)
  BY <1>13, Distinct DEF Receipt, Goto, Done, SetStatus, Mine, Mishap, TaskTypes
<1>14. CASE \E v \in Tasks : Flushed(v)
  BY <1>14, Distinct DEF Flushed, Goto, TaskTypes
<1>15. CASE \E v \in Tasks : Finish(v)
  BY <1>15, Distinct DEF Finish, Goto, Leave, Mishap, TaskTypes
<1>16. CASE \E v \in Tasks : Abandon(v)
  BY <1>16, Distinct DEF Abandon, Goto, Leave, Mine, Mishap, TaskTypes
<1>17. CASE \E v \in Tasks, a \in Agents : NextRow(v, a)
  BY <1>17, Distinct DEF NextRow, Goto, SetStatus, Entry, Skips, TaskTypes
<1>18. CASE JobPick
  BY <1>18, Distinct DEF JobPick, Goto, TaskTypes
<1>19. CASE JobNext
  BY <1>19, Distinct DEF JobNext, Goto, TaskTypes
<1>20. CASE Crash
  BY <1>20, Distinct DEF Crash, Mishap, Mine, TaskTypes
<1> QED
  BY <1>1, <1>2, <1>3, <1>4, <1>5, <1>6, <1>7, <1>8, <1>9, <1>10, <1>11, <1>12, <1>13, <1>14,
     <1>15, <1>16, <1>17, <1>18, <1>19, <1>20
     DEF Next, Dispatch, Flush, JobStep, Tasks

\* The job picks events that have rows.
LEMMA PickedStep ==
  ASSUME TaskTypes, NEW e \in picked', Next
  PROVE  e \in picked \/ (e \in Events /\ HasRows(e))
<1>1. CASE (\E d \in Events : Produce(d)) \/ Reopen \/ (\E a \in Agents : Acknowledge(a))
           \/ (\E t \in Intakes, d \in Events : Begin(t, d)) \/ (\E t \in Intakes : RouteStart(t))
           \/ (\E t \in Intakes : RouteSubmit(t)) \/ (\E t \in Intakes : RouteClose(t))
           \/ (\E t \in Intakes : CloseOnce(t)) \/ (\E t \in Intakes : Purge(t))
           \/ (\E t \in Intakes : Parents(t)) \/ (\E t \in Tasks : Plan(t))
           \/ (\E t \in Tasks : Valid(t)) \/ (\E t \in Tasks : Enter(t))
           \/ (\E t \in Tasks : Paste(t)) \/ (\E t \in Tasks : Receipt(t))
           \/ (\E t \in Tasks : Flushed(t)) \/ (\E t \in Tasks : Finish(t))
           \/ (\E t \in Tasks : Abandon(t)) \/ (\E t \in Tasks, a \in Agents : NextRow(t, a))
           \/ (\E s \in Sends : DrainLease(s)) \/ (\E s \in Sends : DrainSend(s))
  BY <1>1 DEF Produce, Reopen, Acknowledge, Begin, RouteStart, RouteSubmit, RouteClose,
     CloseOnce, Purge, Parents, Plan, Valid, Enter, Paste, Receipt, Flushed, Finish, Abandon,
     NextRow, DrainLease, DrainSend, TaskTypes
<1>2. CASE JobPick
  BY <1>2 DEF JobPick, Goto, TaskTypes
<1>3. CASE JobNext
  BY <1>3 DEF JobNext, Goto, TaskTypes
<1>4. CASE Crash
  BY <1>4 DEF Crash, Mishap, Mine, TaskTypes
<1> QED
  BY <1>1, <1>2, <1>3, <1>4
     DEF Next, Dispatch, Flush, JobStep, Tasks

\* The plans, through any step.
LEMMA PlannedKept ==
  ASSUME TypeOK, TaskTypes, LocalOK, FlightOK, EventOK, PlannedOK, Next
  PROVE  PlannedOK'
<1>1. \A s \in Sends : row[s] # "none" => row'[s] # "none"
  BY RowStep, PlanIs DEF Unresolved, Resolved
<1>2. \A s \in Sends : row[s] = "none" /\ row'[s] # "none" =>
         \E t \in Tasks : Plan(t) /\ ~HasRows(on[t]) /\ s[1] = on[t]
  BY RowStep DEF Unresolved
<1>3. \A e \in Events : HasRows(e) => HasRows(e)'
  BY <1>1, RowsAre
<1>4. \A e \in Events : event[e] # "none" => event'[e] # "none"
  BY EventStep DEF TypeOK, GithubTypes
<1>5. \A t \in Tasks : Plan(t) => pc[t] = "plan" /\ event[on[t]] # "none" /\ on[t] \in Events
  BY DEF Plan, EventOK, TaskTypes
<1>6. \A s \in Sends : row'[s] # "none" => event'[s[1]] # "none"
  BY <1>2, <1>4, <1>5, SendsAre DEF PlannedOK
<1>7. \A s, r \in Sends : s[1] = r[1] /\ row'[s] # "none" => row'[r] # "none"
  <2> SUFFICES ASSUME NEW s \in Sends, NEW r \in Sends, s[1] = r[1], row'[s] # "none"
               PROVE  row'[r] # "none"
    OBVIOUS
  <2>1. CASE row[s] # "none"
    BY <1>1, <2>1 DEF PlannedOK
  <2>2. CASE row[s] = "none"
    BY <1>2, <2>2, PlanIs
  <2> QED
    BY <2>1, <2>2
<1>8. \A s \in Sends : queue'[s] # "none" => row'[s] # "none"
  <2> SUFFICES ASSUME NEW s \in Sends, queue'[s] # "none" PROVE row[s] # "none"
    BY <1>1
  <2>1. CASE queue[s] # "none"
    BY <2>1 DEF PlannedOK
  <2>2. CASE queue[s] = "none"
    <3>1. PICK t \in Tasks : Paste(t) /\ s = Mine(t)
      BY <2>2, QueueStep DEF TypeOK, TableTypes
    <3>2. s[1] = on[t] /\ s[2] \in left[t]
      BY <3>1 DEF Paste, Mine, LocalOK
    <3> QED
      BY <3>2 DEF PlannedOK
  <2> QED
    BY <2>1, <2>2
<1>9. \A t \in Tasks : \A s \in Sends : s[1] = on'[t] /\ s[2] \in left'[t] => row'[s] # "none"
  <2> SUFFICES ASSUME NEW t \in Tasks, NEW s \in Sends, s[1] = on'[t], s[2] \in left'[t]
               PROVE  row'[s] # "none"
    OBVIOUS
  <2>1. CASE Plan(t)
    <3>1. on'[t] = on[t]
      BY <2>1 DEF Plan
    <3> QED
      BY <2>1, <3>1, PlanIs DEF Unresolved
  <2>2. CASE ~Plan(t)
    <3>1. on'[t] = on[t] /\ s[2] \in left[t]
      BY <2>2, TaskStep DEF LocalOK, Sender
    <3> QED
      BY <1>1, <3>1 DEF PlannedOK
  <2> QED
    BY <2>1, <2>2
<1>10. \A e \in picked' : HasRows(e)'
  <2> SUFFICES ASSUME NEW e \in picked' PROVE e \in Events /\ HasRows(e)
    BY <1>3
  <2> QED
    BY PickedStep DEF PlannedOK, TaskTypes
<1>11. pc'[Job] = "plan" => HasRows(on[Job])'
  <2> SUFFICES ASSUME pc'[Job] = "plan"
               PROVE  on'[Job] \in Events /\ \A e \in Events : e = on'[Job] => HasRows(e)
    BY <1>3
  <2>1. Job \in Tasks
    BY DEF Tasks
  <2>2. (on'[Job] = on[Job] /\ pc[Job] = "plan") \/ on'[Job] \in picked
    BY <2>1, TaskStep
  <2> QED
    BY <2>1, <2>2 DEF PlannedOK, TaskTypes
<1>12. \A t \in Tasks : pc'[t] = "purge" => ~HasRows(on[t])'
  <2> SUFFICES ASSUME NEW t \in Tasks, pc'[t] = "purge", NEW e \in Events, e = on[t], HasRows(e)'
               PROVE  FALSE
    BY TaskStep DEF TaskTypes
  <2>1. t \in Intakes /\ pc[t] # "idle" /\ ~HasRows(e) /\ pc[t] \in {"close", "purge"}
    BY TaskStep DEF PlannedOK, CloseOnce, LocalOK, Tasks
  <2>2. PICK s \in Sends : s[1] = e /\ row'[s] # "none" /\ row[s] = "none"
    BY <2>1, RowsAre
  <2>3. PICK u \in Tasks : Plan(u) /\ ~HasRows(on[u]) /\ on[u] = e
    BY <1>2, <2>2
  <2>4. u # Job
    BY <1>5, <2>3 DEF PlannedOK
  <2>5. u = t
    BY <1>5, <2>1, <2>3, <2>4 DEF FlightOK, Tasks
  <2> QED
    BY <1>5, <2>1, <2>3, <2>5
<1> QED
  BY <1>6, <1>7, <1>8, <1>9, <1>10, <1>11, <1>12 DEF PlannedOK

\* What an event that is stored is no longer true of is excused.
LEMMA Stale ==
  ASSUME GithubTypes, EventOK, NEW s \in Sends, event[s[1]] # "none",
         Obsolete(s[1]) \/ (s[1] = Opened /\ s[2] \in acked) \/ (s[1] = Start /\ finished)
  PROVE  Excused(s[1], s[2])
<1>1. CASE Obsolete(s[1])
  <2>1. s[1] \in sent
    BY SendsAre DEF EventOK
  <2>2. CASE s[1] = Opened
    BY <1>1, <2>1, <2>2 DEF Obsolete, EventOK, GithubTypes, Excused, Closes
  <2>3. CASE s[1] = Older
    BY <1>1, <2>3 DEF Obsolete, Excused
  <2>4. CASE s[1] = Newer
    BY <1>1, <2>1, <2>4 DEF Obsolete, EventOK
  <2> QED
    BY <1>1, <2>2, <2>3, <2>4 DEF Obsolete, OfIssue, Closes
<1>2. CASE ~Obsolete(s[1])
  BY <1>2 DEF Excused
<1> QED
  BY <1>1, <1>2

\* Nothing unsettles a send of a stored event: what waits in the queue leaves it only by being
\* shown, or once it is excused.
LEMMA SettledStep ==
  ASSUME GithubTypes, TableTypes, TaskTypes, LocalOK, EventOK, PlannedOK, CountTypes,
         NEW s \in Sends, event[s[1]] # "none", Settled(s), Next
  PROVE  Settled(s)'
<1>1. CASE (\E t \in Intakes, e \in Events : Begin(t, e)) \/ (\E t \in Intakes : RouteStart(t))
           \/ (\E t \in Intakes : RouteClose(t)) \/ (\E t \in Intakes : CloseOnce(t))
           \/ (\E t \in Intakes : Parents(t)) \/ (\E t \in Tasks : Plan(t))
           \/ (\E t \in Tasks : Valid(t)) \/ (\E t \in Tasks : Enter(t))
           \/ (\E t \in Tasks : Receipt(t)) \/ (\E t \in Tasks : Flushed(t))
           \/ (\E t \in Tasks : Finish(t)) \/ (\E t \in Tasks : Abandon(t))
           \/ (\E t \in Tasks, a \in Agents : NextRow(t, a)) \/ JobPick \/ JobNext
  BY <1>1 DEF Begin, RouteStart, RouteClose, CloseOnce, Parents, Plan, Valid, Enter, Receipt,
     Flushed, Finish, Abandon, NextRow, JobPick, JobNext, CountTypes, TableTypes, Settled, Excused,
     Waits, github, history
<1>2. CASE \E e \in Events : Produce(e)
  <2>1. UNCHANGED <<queue, acked, told, overtaken, finished>> /\ sent \subseteq sent'
    BY <1>2 DEF Produce, history
  <2>2. s[1] = Older /\ issue # Older => issue' # Older
    BY <1>2, Distinct, SendsAre DEF Produce, EventOK
  <2> QED
    BY <2>1, <2>2 DEF Settled, Excused
<1>3. CASE Reopen
  BY <1>3 DEF Reopen, CountTypes, TableTypes, Settled, Excused, Waits, history
<1>4. CASE \E a \in Agents : Acknowledge(a)
  BY <1>4 DEF Acknowledge, CountTypes, TableTypes, Settled, Excused, Waits, github, history
<1>5. CASE \E t \in Intakes : RouteSubmit(t)
  BY <1>5 DEF RouteSubmit, Goto, SetStatus, CountTypes, TableTypes, Settled, Excused, Waits,
     github, history
<1>6. CASE \E t \in Intakes : Purge(t)
  <2> PICK t \in Intakes : Purge(t)
    BY <1>6
  <2>1. UNCHANGED <<issue, sent, finished, acked, told>> /\ pc[t] = "purge"
        /\ overtaken' = (overtaken \/ on[t] # Latest)
    BY DEF Purge, github
  <2>2. queue'[s] = queue[s] \/ s[1] \in OfIssue
    BY DEF Purge
  <2>3. on[t] \in Closes /\ event[on[t]] # "none"
    BY <2>1 DEF LocalOK, EventOK, Tasks
  <2>4. queue[s] = "none" \/ s[1] # on[t]
    BY <2>1, RowsAre, SendsAre DEF PlannedOK, Tasks
  <2>5. ASSUME s[1] \in OfIssue, s[1] # on[t] PROVE Excused(s[1], s[2])'
    <3>1. CASE s[1] = Opened
      BY <2>1, <2>3, <3>1, SendsAre DEF EventOK, Excused, Closes, Events
    <3>2. CASE s[1] = Older
      BY <2>1, <2>3, <2>5, <3>2, Distinct DEF EventOK, Excused, Closes, Events
    <3>3. CASE s[1] = Newer
      BY <2>1, <2>3, <2>5, <3>3, Distinct DEF EventOK, Excused, Closes, Latest
    <3> QED
      BY <2>5, <3>1, <3>2, <3>3 DEF OfIssue, Closes
  <2>6. overtaken => overtaken'
    BY <2>1
  <2> QED
    BY <2>1, <2>2, <2>4, <2>5, <2>6 DEF Settled, Excused, Waits
<1>7. CASE \E t \in Tasks : Paste(t)
  <2> PICK t \in Tasks : Paste(t)
    BY <1>7
  <2>1. UNCHANGED <<issue, sent, finished, acked, overtaken>>
    BY DEF Paste, github
  <2>2. told' = told \/ told' = [told EXCEPT ![Mine(t)] = @ + 1]
    BY DEF Paste, Sending
  <2>3. \/ queue' = queue \/ queue' = [queue EXCEPT ![Mine(t)] = "held"]
        \/ queue' = [queue EXCEPT ![Mine(t)] = IF @ \in Waits THEN @ ELSE "waiting"]
    BY DEF Paste, Sending
  <2>4. told[s] > 0 => told'[s] > 0
    BY <2>2 DEF CountTypes
  <2>5. queue[s] \in Waits => queue'[s] \in Waits
    BY <2>3 DEF Waits, TableTypes
  <2> QED
    BY <2>1, <2>4, <2>5 DEF Settled, Excused
<1>8. CASE Crash
  BY <1>8 DEF Crash, Mishap, Mine, CountTypes, TableTypes, Settled, Excused, Waits, github
<1>9. CASE \E q \in Sends : DrainLease(q)
  BY <1>9 DEF DrainLease, CountTypes, TableTypes, Settled, Excused, Waits, github, history
<1>10. CASE \E q \in Sends : DrainSend(q)
  <2> PICK r \in Sends : DrainSend(r)
    BY <1>10
  <2>1. UNCHANGED <<issue, sent, finished, acked, overtaken>>
    BY DEF DrainSend, github
  <2>2. CASE r # s
    <3>1. queue'[s] = queue[s] /\ told'[s] = told[s]
      BY <2>2 DEF DrainSend, TableTypes, CountTypes
    <3> QED
      BY <2>1, <3>1 DEF Settled, Excused
  <2>3. CASE r = s /\ told' = [told EXCEPT ![s] = told[s] + 1]
    BY <2>3 DEF Settled, CountTypes
  <2>4. CASE /\ r = s
             /\ \E status \in IF \/ Obsolete(s[1]) \/ (s[1] = Opened /\ s[2] \in acked)
                                  \/ (s[1] = Start /\ finished)
                               THEN {"gone"} ELSE {"waiting", "held"} :
                  queue' = [queue EXCEPT ![s] = status]
             /\ UNCHANGED told
    <3>1. CASE \E status \in Waits : queue' = [queue EXCEPT ![s] = status]
      BY <3>1 DEF Settled, TableTypes
    <3>2. CASE Obsolete(s[1]) \/ (s[1] = Opened /\ s[2] \in acked) \/ (s[1] = Start /\ finished)
      <4>1. Excused(s[1], s[2])
        BY <3>2, Stale
      <4> QED
        BY <2>1, <4>1 DEF Settled, Excused
    <3> QED
      BY <2>4, <3>1, <3>2 DEF Waits
  <2> QED
    BY <2>2, <2>3, <2>4 DEF DrainSend
<1> QED
  BY <1>1, <1>2, <1>3, <1>4, <1>5, <1>6, <1>7, <1>8, <1>9, <1>10
     DEF Next, Dispatch, Flush, JobStep, Tasks

\* How a task comes to write a receipt that is not a failure.
LEMMA ReceiptStep ==
  ASSUME TaskTypes, NEW t \in Tasks, pc'[t] = "receipt", got'[t] # "failed", Next
  PROVE  \/ pc[t] = "receipt" /\ got'[t] = got[t] /\ on'[t] = on[t] /\ to'[t] = to[t]
         \/ Enter(t) /\ finished
         \/ Paste(t)
<1>1. CASE (\E e \in Events : Produce(e)) \/ Reopen \/ (\E a \in Agents : Acknowledge(a))
           \/ (\E s \in Sends : DrainLease(s)) \/ (\E s \in Sends : DrainSend(s))
  BY <1>1 DEF Produce, Reopen, Acknowledge, DrainLease, DrainSend, TaskTypes, locals
<1>2. CASE \E v \in Intakes, e \in Events : Begin(v, e)
  BY <1>2 DEF Begin, Goto, TaskTypes
<1>3. CASE \E v \in Intakes : RouteStart(v)
  BY <1>3 DEF RouteStart, Goto, TaskTypes
<1>4. CASE \E v \in Intakes : RouteSubmit(v)
  BY <1>4 DEF RouteSubmit, Goto, SetStatus, TaskTypes
<1>5. CASE \E v \in Intakes : RouteClose(v)
  BY <1>5 DEF RouteClose, Goto, SetStatus, TaskTypes
<1>6. CASE \E v \in Intakes : CloseOnce(v)
  BY <1>6 DEF CloseOnce, Goto, TaskTypes
<1>7. CASE \E v \in Intakes : Purge(v)
  BY <1>7 DEF Purge, Goto, Mishap, TaskTypes
<1>8. CASE \E v \in Intakes : Parents(v)
  BY <1>8 DEF Parents, Goto, TaskTypes
<1>9. CASE \E v \in Tasks : Plan(v)
  BY <1>9 DEF Plan, Goto, StillOpen, Open, TaskTypes
<1>10. CASE \E v \in Tasks : Valid(v)
  BY <1>10 DEF Valid, Goto, Done, SetStatus, Mine, Mishap, Entry, TaskTypes
<1>11. CASE \E v \in Tasks : Enter(v)
  BY <1>11 DEF Enter, Goto, TaskTypes
<1>12. CASE \E v \in Tasks : Paste(v)
  <2> PICK u \in Tasks : Paste(u)
    BY <1>12
  <2>1. u # t => pc'[t] = pc[t] /\ got'[t] = got[t] /\ UNCHANGED <<on, to>>
    <3>1. \E g : got' = [got EXCEPT ![u] = g]
      BY DEF Paste, Sending
    <3> QED
      BY <3>1 DEF Paste, Goto, TaskTypes
  <2> QED
    BY <2>1
<1>13. CASE \E v \in Tasks : Receipt(v)
  BY <1>13 DEF Receipt, Goto, Done, SetStatus, Mine, Mishap, TaskTypes
<1>14. CASE \E v \in Tasks : Flushed(v)
  BY <1>14 DEF Flushed, Goto, TaskTypes
<1>15. CASE \E v \in Tasks : Finish(v)
  BY <1>15 DEF Finish, Goto, Leave, Mishap, TaskTypes
<1>16. CASE \E v \in Tasks : Abandon(v)
  BY <1>16 DEF Abandon, Goto, Leave, Mine, Mishap, TaskTypes
<1>17. CASE \E v \in Tasks, a \in Agents : NextRow(v, a)
  BY <1>17 DEF NextRow, Goto, SetStatus, Entry, Skips, TaskTypes
<1>18. CASE JobPick
  BY <1>18 DEF JobPick, Goto, TaskTypes
<1>19. CASE JobNext
  BY <1>19 DEF JobNext, Goto, TaskTypes
<1>20. CASE Crash
  BY <1>20 DEF Crash, Mishap, Mine, TaskTypes
<1> QED
  BY <1>1, <1>2, <1>3, <1>4, <1>5, <1>6, <1>7, <1>8, <1>9, <1>10, <1>11, <1>12, <1>13, <1>14,
     <1>15, <1>16, <1>17, <1>18, <1>19, <1>20
     DEF Next, Dispatch, Flush, JobStep, Tasks

\* How a task comes to the end of its pass.
LEMMA EndStep ==
  ASSUME TaskTypes, NEW t \in Tasks, pc'[t] \in Sender \cup {"finish", "parents"}, Next
  PROVE  /\ on'[t] = on[t]
         /\ \/ pc[t] \in Sender \cup {"finish", "parents"}
            \/ Plan(t) \/ (RouteStart(t) /\ finished) \/ (RouteClose(t) /\ on[t] # Latest)
<1>1. CASE (\E e \in Events : Produce(e)) \/ Reopen \/ (\E a \in Agents : Acknowledge(a))
           \/ (\E s \in Sends : DrainLease(s)) \/ (\E s \in Sends : DrainSend(s))
  BY <1>1 DEF Produce, Reopen, Acknowledge, DrainLease, DrainSend, TaskTypes, Sender, locals
<1>2. CASE \E v \in Intakes, e \in Events : Begin(v, e)
  BY <1>2 DEF Begin, Goto, TaskTypes, Sender
<1>3. CASE \E v \in Intakes : RouteStart(v)
  BY <1>3 DEF RouteStart, Goto, TaskTypes, Sender
<1>4. CASE \E v \in Intakes : RouteSubmit(v)
  BY <1>4 DEF RouteSubmit, Goto, SetStatus, TaskTypes, Sender
<1>5. CASE \E v \in Intakes : RouteClose(v)
  BY <1>5 DEF RouteClose, Goto, SetStatus, TaskTypes, Sender
<1>6. CASE \E v \in Intakes : CloseOnce(v)
  BY <1>6 DEF CloseOnce, Goto, TaskTypes, Sender
<1>7. CASE \E v \in Intakes : Purge(v)
  BY <1>7 DEF Purge, Goto, Mishap, TaskTypes, Sender
<1>8. CASE \E v \in Intakes : Parents(v)
  BY <1>8 DEF Parents, Goto, TaskTypes, Sender
<1>9. CASE \E v \in Tasks : Plan(v)
  <2> PICK u \in Tasks : Plan(u)
    BY <1>9
  <2>1. UNCHANGED on /\ (u # t => pc'[t] = pc[t])
    BY DEF Plan, Goto, TaskTypes
  <2> QED
    BY <2>1
<1>10. CASE \E v \in Tasks : Valid(v)
  BY <1>10 DEF Valid, Goto, Done, SetStatus, Mine, Mishap, Entry, TaskTypes, Sender
<1>11. CASE \E v \in Tasks : Enter(v)
  BY <1>11 DEF Enter, Goto, TaskTypes, Sender
<1>12. CASE \E v \in Tasks : Paste(v)
  BY <1>12 DEF Paste, Goto, Sending, Mine, Mishap, TaskTypes, Sender
<1>13. CASE \E v \in Tasks : Receipt(v)
  BY <1>13 DEF Receipt, Goto, Done, SetStatus, Mine, Mishap, TaskTypes, Sender
<1>14. CASE \E v \in Tasks : Flushed(v)
  BY <1>14 DEF Flushed, Goto, TaskTypes, Sender
<1>15. CASE \E v \in Tasks : Finish(v)
  BY <1>15 DEF Finish, Goto, Leave, Mishap, TaskTypes, Sender
<1>16. CASE \E v \in Tasks : Abandon(v)
  BY <1>16 DEF Abandon, Goto, Leave, Mine, Mishap, TaskTypes, Sender
<1>17. CASE \E v \in Tasks, a \in Agents : NextRow(v, a)
  BY <1>17 DEF NextRow, Goto, SetStatus, Entry, Skips, TaskTypes, Sender
<1>18. CASE JobPick
  BY <1>18 DEF JobPick, Goto, TaskTypes, Sender
<1>19. CASE JobNext
  BY <1>19 DEF JobNext, Goto, TaskTypes, Sender
<1>20. CASE Crash
  BY <1>20 DEF Crash, Mishap, Mine, TaskTypes, Sender
<1> QED
  BY <1>1, <1>2, <1>3, <1>4, <1>5, <1>6, <1>7, <1>8, <1>9, <1>10, <1>11, <1>12, <1>13, <1>14,
     <1>15, <1>16, <1>17, <1>18, <1>19, <1>20
     DEF Next, Dispatch, Flush, JobStep, Tasks

\* Only finish_event marks an event as handled, with no recipient unresolved.
LEMMA HandledStep ==
  ASSUME GithubTypes, NEW e \in Events, event'[e] = "handled", event[e] # "handled", Next
  PROVE  \E t \in Tasks : Finish(t) /\ on[t] = e /\ Open(e) = {}
<1>1. CASE (\E d \in Events : Produce(d)) \/ Reopen \/ (\E a \in Agents : Acknowledge(a))
           \/ (\E t \in Intakes : RouteStart(t)) \/ (\E t \in Intakes : RouteSubmit(t))
           \/ (\E t \in Intakes : RouteClose(t)) \/ (\E t \in Intakes : CloseOnce(t))
           \/ (\E t \in Intakes : Purge(t)) \/ (\E t \in Intakes : Parents(t))
           \/ (\E t \in Tasks : Plan(t)) \/ (\E t \in Tasks : Valid(t))
           \/ (\E t \in Tasks : Enter(t)) \/ (\E t \in Tasks : Paste(t))
           \/ (\E t \in Tasks : Receipt(t)) \/ (\E t \in Tasks : Flushed(t))
           \/ (\E t \in Tasks : Abandon(t)) \/ (\E t \in Tasks, a \in Agents : NextRow(t, a))
           \/ JobPick \/ JobNext \/ Crash \/ (\E s \in Sends : DrainLease(s))
           \/ (\E s \in Sends : DrainSend(s))
  BY <1>1 DEF Produce, Reopen, Acknowledge, RouteStart, RouteSubmit, RouteClose, CloseOnce,
     Purge, Parents, Plan, Valid, Enter, Paste, Receipt, Flushed, Abandon, NextRow, JobPick,
     JobNext, Crash, DrainLease, DrainSend, GithubTypes
<1>2. CASE \E t \in Intakes, d \in Events : Begin(t, d)
  BY <1>2 DEF Begin, Goto, GithubTypes
<1>3. CASE \E t \in Tasks : Finish(t)
  BY <1>3 DEF Finish, Goto, Leave, Mishap, GithubTypes
<1> QED
  BY <1>1, <1>2, <1>3
     DEF Next, Dispatch, Flush, JobStep, Tasks

\* How a row comes to be resolved.
LEMMA ResolvedStep ==
  ASSUME GithubTypes, TaskTypes, LocalOK, NEW s \in Sends,
         row'[s] \in Resolved, row[s] \notin Resolved, Next
  PROVE  \/ s[1] = Start /\ finished'
         \/ row[s] # "none" /\ s[1] \in OfIssue \ {Latest} /\ \E t \in Tasks : RouteClose(t)
         \/ row[s] # "none" /\ (Obsolete(s[1]) \/ Skips(s[1], s[2]))
         \/ \E t \in Tasks : pc[t] = "receipt" /\ got[t] # "failed" /\ Mine(t) = s
<1>1. CASE (\E e \in Events : Produce(e)) \/ Reopen \/ (\E a \in Agents : Acknowledge(a))
           \/ (\E t \in Intakes, e \in Events : Begin(t, e)) \/ (\E t \in Intakes : RouteStart(t))
           \/ (\E t \in Intakes : CloseOnce(t)) \/ (\E t \in Intakes : Purge(t))
           \/ (\E t \in Intakes : Parents(t)) \/ (\E t \in Tasks : Enter(t))
           \/ (\E t \in Tasks : Paste(t)) \/ (\E t \in Tasks : Flushed(t))
           \/ (\E t \in Tasks : Finish(t)) \/ (\E t \in Tasks : Abandon(t)) \/ JobPick \/ JobNext
           \/ Crash \/ (\E q \in Sends : DrainLease(q)) \/ (\E q \in Sends : DrainSend(q))
  BY <1>1 DEF Produce, Reopen, Acknowledge, Begin, RouteStart, CloseOnce, Purge, Parents, Enter,
     Paste, Flushed, Finish, Abandon, JobPick, JobNext, Crash, DrainLease, DrainSend, Unresolved,
     Resolved, TaskTypes
<1>2. CASE \E t \in Intakes : RouteSubmit(t)
  BY <1>2 DEF RouteSubmit, Goto, SetStatus, Unresolved, Resolved, TaskTypes
<1>3. CASE \E t \in Intakes : RouteClose(t)
  <2> PICK t \in Intakes : RouteClose(t)
    BY <1>3
  <2>1. SetStatus({r \in Sends : r[1] \in OfIssue \ {Latest}}, "skipped")
    BY DEF RouteClose
  <2>2. row[s] # "none" /\ s[1] \in OfIssue \ {Latest}
    BY <2>1 DEF SetStatus, Unresolved
  <2>3. t \in Tasks
    BY DEF Tasks
  <2> QED
    BY <2>2, <2>3
<1>4. CASE \E t \in Tasks : Plan(t)
  BY <1>4 DEF Plan, Goto, StillOpen, Open, Unresolved, Resolved, TaskTypes
<1>5. CASE \E t \in Tasks : Valid(t)
  BY <1>5 DEF Valid, Goto, Done, SetStatus, Mine, Mishap, Entry, Unresolved, Resolved, TaskTypes
<1>6. CASE \E t \in Tasks : Receipt(t)
  BY <1>6 DEF Receipt, Goto, Done, SetStatus, Mine, Mishap, Unresolved, Resolved, TaskTypes
<1>7. CASE \E t \in Tasks, a \in Agents : NextRow(t, a)
  BY <1>7 DEF NextRow, Goto, SetStatus, Entry, Skips, Unresolved, Resolved, TaskTypes
<1> QED
  BY <1>1, <1>2, <1>3, <1>4, <1>5, <1>6, <1>7
     DEF Next, Dispatch, Flush, JobStep, Tasks

\* What a send is said to have come to is what it came to.
LEMMA PasteSettles ==
  ASSUME TableTypes, TaskTypes, CountTypes, LocalOK,
         NEW t \in Tasks, Paste(t), got'[t] # "failed"
  PROVE  Settled(Mine(t))'
<1>1. UNCHANGED <<on, to>> /\ Mine(t) \in Sends
  <2>1. to[t] \in Audience[on[t]] /\ on[t] \in Events
    BY DEF LocalOK, TaskTypes, Paste
  <2> QED
    BY <2>1, SendsAre DEF Paste, Mine
<1>2. PICK s \in Sends : s = Mine(t) /\ s = Mine(t)'
  BY <1>1 DEF Mine
<1>3. told'[s] > 0 \/ queue'[s] \in Waits
  <2>1. CASE queue[s] = "held" /\ UNCHANGED queue
    BY <2>1 DEF Waits
  <2>2. CASE told' = [told EXCEPT ![s] = told[s] + 1]
    BY <2>2 DEF CountTypes
  <2>3. CASE queue' = [queue EXCEPT ![s] = "held"]
    BY <2>3 DEF TableTypes, Waits
  <2>4. CASE queue' = [queue EXCEPT ![s] = IF queue[s] \in Waits THEN queue[s] ELSE "waiting"]
    BY <2>4 DEF TableTypes, Waits
  <2>5. CASE got' = [got EXCEPT ![t] = "failed"]
    BY <2>5 DEF TaskTypes
  <2> QED
    BY <1>2, <2>1, <2>2, <2>3, <2>4, <2>5 DEF Paste, Sending
<1>4. Settled(s)'
  BY <1>3 DEF Settled
<1> QED
  BY <1>2, <1>4

\* The receipts, through any step.
LEMMA SettledKept ==
  ASSUME TypeOK, GithubTypes, TableTypes, TaskTypes, CountTypes,
         LocalOK, EventOK, PlannedOK, PlannedOK', SettledOK, Next
  PROVE  SettledOK'
<1>1. ASSUME NEW s \in Sends, event[s[1]] # "none", Settled(s) PROVE Settled(s)'
  BY <1>1, SettledStep
<1>2. ASSUME NEW t \in Tasks, on'[t] = on[t], to'[t] = to[t] PROVE Mine(t)' = Mine(t)
  BY <1>2 DEF Mine
<1>3. ASSUME NEW t \in Tasks, pc[t] \in {"paste", "receipt"}
      PROVE  /\ Mine(t) \in Sends /\ event[Mine(t)[1]] # "none" /\ row[Mine(t)] # "none"
             /\ Mine(t)[1] = on[t]
  <2>1. to[t] \in Audience[on[t]] /\ on[t] \in Events /\ to[t] \in left[t]
    BY <1>3 DEF LocalOK, TaskTypes
  <2>2. Mine(t) \in Sends
    BY <2>1, SendsAre DEF Mine
  <2> QED
    BY <1>3, <2>1, <2>2 DEF Mine, EventOK, PlannedOK
<1>4. ASSUME NEW s \in Sends, row'[s] \in Resolved PROVE Settled(s)'
  <2>1. CASE row[s] \in Resolved
    BY <1>1, <2>1 DEF SettledOK, PlannedOK, Resolved
  <2>2. CASE s[1] = Start /\ finished'
    BY <2>2 DEF Settled, Excused
  <2>3. ASSUME row[s] # "none", Obsolete(s[1]) \/ Skips(s[1], s[2]) PROVE Settled(s)'
    <3>1. event[s[1]] # "none"
      BY <2>3 DEF PlannedOK
    <3>2. Settled(s)
      BY <2>3, <3>1, Stale DEF Settled, Skips
    <3> QED
      BY <1>1, <3>1, <3>2
  <2>4. CASE row[s] # "none" /\ s[1] \in OfIssue \ {Latest} /\ \E t \in Tasks : RouteClose(t)
    <3>1. PICK t \in Tasks : RouteClose(t)
      BY <2>4
    <3>2. on[t] \in Closes /\ event[on[t]] # "none" /\ event[s[1]] # "none"
      BY <2>4, <3>1 DEF RouteClose, EventOK, PlannedOK
    <3>3. Excused(s[1], s[2])
      <4>1. CASE s[1] = Opened
        BY <3>2, <4>1 DEF EventOK, Excused, Closes, Events
      <4>2. CASE s[1] = Older
        BY <2>4, <4>2, Distinct DEF EventOK, Excused, Latest, Events
      <4>3. CASE s[1] = Newer
        BY <2>4, <3>2, <4>3 DEF Latest
      <4> QED
        BY <2>4, <4>1, <4>2, <4>3 DEF OfIssue, Closes
    <3> QED
      BY <1>1, <3>2, <3>3 DEF Settled
  <2>5. CASE \E t \in Tasks : pc[t] = "receipt" /\ got[t] # "failed" /\ Mine(t) = s
    BY <1>1, <1>3, <2>5 DEF SettledOK
  <2> QED
    BY <1>4, <2>1, <2>2, <2>3, <2>4, <2>5, ResolvedStep
<1>5. ASSUME NEW t \in Tasks, pc'[t] = "receipt", got'[t] # "failed" PROVE Settled(Mine(t))'
  <2>1. CASE pc[t] = "receipt" /\ got'[t] = got[t] /\ on'[t] = on[t] /\ to'[t] = to[t]
    <3>1. PICK s \in Sends : s = Mine(t) /\ s = Mine(t)'
      BY <1>2, <1>3, <2>1
    <3>2. Settled(s)'
      BY <1>1, <1>3, <1>5, <2>1, <3>1 DEF SettledOK
    <3> QED
      BY <3>1, <3>2
  <2>2. CASE Enter(t) /\ finished
    <3>1. on'[t] = Start /\ finished'
      BY <2>2 DEF Enter, LocalOK
    <3> QED
      BY <3>1 DEF Settled, Excused, Mine
  <2>3. CASE Paste(t)
    BY <1>5, <2>3, PasteSettles
  <2> QED
    BY <1>5, <2>1, <2>2, <2>3, ReceiptStep
<1>6. ASSUME NEW t \in Tasks, pc'[t] \in Sender \cup {"finish", "parents"},
             NEW s \in Sends, s[1] = on'[t], row'[s] = "none"
      PROVE  Settled(s)'
  <2>1. on'[t] = on[t] /\ row[s] = "none"
    BY <1>6, EndStep, RowStep, PlanIs DEF Unresolved, Resolved
  <2>2. CASE pc[t] \in Sender \cup {"finish", "parents"}
    <3>1. event[s[1]] # "none"
      BY <1>6, <2>1, <2>2 DEF EventOK, Sender
    <3> QED
      BY <1>1, <1>6, <2>1, <2>2, <3>1 DEF SettledOK
  <2>3. CASE Plan(t)
    <3>1. HasRows(on[t]) /\ on[t] \in Events
      BY <1>6, <2>1, <2>3, PlanIs DEF TaskTypes
    <3>2. row[s] # "none"
      BY <1>6, <2>1, <3>1, RowsAre DEF PlannedOK
    <3> QED
      BY <2>1, <3>2
  <2>4. CASE RouteStart(t) /\ finished
    <3>1. on'[t] = Start /\ finished'
      BY <2>4 DEF RouteStart
    <3> QED
      BY <1>6, <3>1 DEF Settled, Excused
  <2>5. CASE RouteClose(t) /\ on[t] # Latest
    <3>1. on[t] \in Closes /\ event[on[t]] # "none"
      BY <2>5 DEF RouteClose, EventOK
    <3>2. on[t] = Older /\ event[Newer] # "none"
      BY <2>5, <3>1 DEF Closes, Latest
    <3>3. Excused(s[1], s[2])
      BY <1>6, <2>1, <3>2, Distinct DEF EventOK, Excused, Events
    <3> QED
      BY <1>1, <1>6, <2>1, <3>1, <3>3 DEF Settled
  <2> QED
    BY <1>6, <2>2, <2>3, <2>4, <2>5, EndStep
<1>7. ASSUME NEW s \in Sends, event'[s[1]] = "handled" PROVE Settled(s)'
  <2>1. CASE event[s[1]] = "handled"
    BY <1>1, <2>1 DEF SettledOK
  <2>2. CASE event[s[1]] # "handled"
    <3>1. PICK t \in Tasks : Finish(t) /\ on[t] = s[1] /\ Open(s[1]) = {}
      BY <1>7, <2>2, SendsAre, HandledStep
    <3>2. pc[t] = "finish" /\ event[s[1]] # "none"
      BY <3>1 DEF Finish, EventOK
    <3>3. row[s] \notin Unresolved
      BY <3>1, SendsAre DEF Open
    <3>4. Settled(s)
      BY <3>1, <3>2, <3>3 DEF SettledOK, TableTypes
    <3> QED
      BY <1>1, <3>2, <3>4
  <2> QED
    BY <2>1, <2>2
<1> QED
  BY <1>4, <1>5, <1>6, <1>7 DEF SettledOK

\* Only its own paste adds to what is due.
LEMMA DueStep ==
  ASSUME TableTypes, TaskTypes, CountTypes, LocksOK, NEW s \in Sends, Next
  PROVE  \/ Due(s)' <= Due(s) /\ cutOff'[s] >= cutOff[s]
         \/ \E t \in Tasks : Paste(t) /\ Mine(t) = s
<1>1. CASE (\E e \in Events : Produce(e)) \/ Reopen \/ (\E a \in Agents : Acknowledge(a))
           \/ (\E t \in Intakes, e \in Events : Begin(t, e)) \/ (\E t \in Intakes : RouteStart(t))
           \/ (\E t \in Intakes : RouteClose(t)) \/ (\E t \in Intakes : CloseOnce(t))
           \/ (\E t \in Intakes : Parents(t)) \/ (\E t \in Tasks : Plan(t))
           \/ (\E t \in Tasks : Valid(t)) \/ (\E t \in Tasks : Enter(t))
           \/ (\E t \in Tasks : Flushed(t)) \/ (\E t \in Tasks : Finish(t))
           \/ (\E t \in Tasks, a \in Agents : NextRow(t, a)) \/ JobPick \/ JobNext
  <2>1. UNCHANGED <<told, queue, cutOff>>
    BY <1>1 DEF Produce, Reopen, Acknowledge, Begin, RouteStart, RouteClose, CloseOnce, Parents,
       Plan, Valid, Enter, Flushed, Finish, NextRow, JobPick, JobNext, history
  <2> QED
    BY <2>1 DEF TableTypes, CountTypes, Due
<1>2. CASE \E t \in Intakes : RouteSubmit(t)
  BY <1>2 DEF RouteSubmit, Goto, SetStatus, TableTypes, CountTypes, Due, history
<1>3. CASE \E t \in Intakes : Purge(t)
  <2> PICK t \in Intakes : Purge(t)
    BY <1>3
  <2>1. UNCHANGED <<told, cutOff>>
    BY DEF Purge
  <2>2. queue'[s] = queue[s] \/ queue'[s] = "gone"
    BY DEF Purge
  <2> QED
    BY <2>1, <2>2 DEF Due, CountTypes
<1>4. CASE \E t \in Tasks : Paste(t)
  <2> PICK t \in Tasks : Paste(t)
    BY <1>4
  <2>1. CASE Mine(t) = s
    BY <2>1
  <2>2. CASE Mine(t) # s
    <3>1. told'[s] = told[s] /\ queue'[s] = queue[s] /\ cutOff'[s] = cutOff[s]
      <4>1. told' = told \/ told' = [told EXCEPT ![Mine(t)] = @ + 1]
        BY DEF Paste, Sending
      <4>2. cutOff' = cutOff \/ cutOff' = [cutOff EXCEPT ![Mine(t)] = @ + 1]
        BY DEF Paste, Sending
      <4>3. queue' = queue \/ \E status : queue' = [queue EXCEPT ![Mine(t)] = status]
        BY DEF Paste, Sending
      <4> QED
        BY <2>2, <4>1, <4>2, <4>3 DEF CountTypes, TableTypes
    <3> QED
      BY <3>1 DEF Due, CountTypes
  <2> QED
    BY <2>1, <2>2
<1>5. CASE \E t \in Tasks : Receipt(t)
  BY <1>5 DEF Receipt, Goto, Done, SetStatus, Mine, Mishap, TableTypes, CountTypes, Due
<1>6. CASE \E t \in Tasks : Abandon(t)
  BY <1>6 DEF Abandon, Goto, Leave, Mine, Mishap, TableTypes, CountTypes, Due
<1>7. CASE Crash
  <2>1. UNCHANGED told /\ cutOff'[s] = cutOff[s] + Cardinality(Cut(s))
    BY <1>7 DEF Crash, Cut
  <2>2. Cardinality(Cut(s)) \in Nat
    BY CutOne
  <2>3. queue'[s] = IF queue[s] = "leased" THEN "waiting" ELSE queue[s]
    BY <1>7 DEF Crash
  <2> QED
    BY <2>1, <2>2, <2>3 DEF Due, CountTypes
<1>8. CASE \E q \in Sends : DrainLease(q)
  BY <1>8 DEF DrainLease, TableTypes, CountTypes, Due, history
<1>9. CASE \E q \in Sends : DrainSend(q)
  <2> PICK r \in Sends : DrainSend(r)
    BY <1>9
  <2>1. queue[r] = "leased" /\ UNCHANGED cutOff
    BY DEF DrainSend
  <2>2. CASE /\ told' = [told EXCEPT ![r] = @ + 1]
             /\ \E status \in {"gone", "held"} : queue' = [queue EXCEPT ![r] = status]
    BY <2>1, <2>2 DEF Due, CountTypes, TableTypes
  <2>3. CASE /\ \E status : queue' = [queue EXCEPT ![r] = status]
             /\ UNCHANGED told
    BY <2>1, <2>3 DEF Due, CountTypes, TableTypes
  <2> QED
    BY <2>2, <2>3 DEF DrainSend
<1> QED
  BY <1>1, <1>2, <1>3, <1>4, <1>5, <1>6, <1>7, <1>8, <1>9
     DEF Next, Dispatch, Flush, JobStep, Tasks

\* How a task gets rid of the receipt it holds: it writes it, or it is cut off.
LEMMA HolderStep ==
  ASSUME TaskTypes, CountTypes, LocksOK, NEW s \in Sends,
         NEW u \in Tasks, pc[u] = "receipt", got[u] # "failed", Mine(u) = s, Next
  PROVE  \/ pc'[u] = "receipt" /\ got'[u] = got[u] /\ on'[u] = on[u] /\ to'[u] = to[u]
         \/ Done(u, got[u]) /\ UNCHANGED <<on, again>>
         \/ cutOff'[s] = cutOff[s] + 1
<1>1. CASE (\E e \in Events : Produce(e)) \/ Reopen \/ (\E a \in Agents : Acknowledge(a))
           \/ (\E q \in Sends : DrainLease(q)) \/ (\E q \in Sends : DrainSend(q))
  BY <1>1 DEF Produce, Reopen, Acknowledge, DrainLease, DrainSend, TaskTypes, locals
<1>2. CASE \E t \in Intakes, e \in Events : Begin(t, e)
  BY <1>2 DEF Begin, Goto, TaskTypes
<1>3. CASE \E t \in Intakes : RouteStart(t)
  BY <1>3 DEF RouteStart, Goto, TaskTypes
<1>4. CASE \E t \in Intakes : RouteSubmit(t)
  BY <1>4 DEF RouteSubmit, Goto, SetStatus, TaskTypes
<1>5. CASE \E t \in Intakes : RouteClose(t)
  BY <1>5 DEF RouteClose, Goto, SetStatus, TaskTypes
<1>6. CASE \E t \in Intakes : CloseOnce(t)
  BY <1>6 DEF CloseOnce, Goto, TaskTypes
<1>7. CASE \E t \in Intakes : Purge(t)
  BY <1>7 DEF Purge, Goto, Mishap, TaskTypes
<1>8. CASE \E t \in Intakes : Parents(t)
  BY <1>8 DEF Parents, Goto, TaskTypes
<1>9. CASE \E t \in Tasks : Plan(t)
  BY <1>9 DEF Plan, Goto, StillOpen, Open, TaskTypes
<1>10. CASE \E t \in Tasks : Valid(t)
  <2> PICK t \in Tasks : Valid(t)
    BY <1>10
  <2>1. pc[t] = "valid" /\ UNCHANGED on
    BY DEF Valid
  <2>2. CASE \E status : Done(t, status)
    BY <2>1, <2>2, DoneIs DEF Valid, Others
  <2>3. CASE Goto(t, Entry(on[t])) /\ UNCHANGED <<to, got>>
    BY <2>1, <2>3 DEF Goto, TaskTypes
  <2> QED
    BY <2>2, <2>3 DEF Valid
<1>11. CASE \E t \in Tasks : Enter(t)
  BY <1>11 DEF Enter, Goto, TaskTypes
<1>12. CASE \E t \in Tasks : Paste(t)
  <2> PICK t \in Tasks : Paste(t)
    BY <1>12
  <2>1. \E g : got' = [got EXCEPT ![t] = g]
    BY DEF Paste, Sending
  <2> QED
    BY <2>1 DEF Paste, Goto, TaskTypes
<1>13. CASE \E t \in Tasks : Receipt(t)
  <2> PICK t \in Tasks : Receipt(t)
    BY <1>13
  <2>1. CASE t = u
    BY <2>1 DEF Receipt, CountTypes
  <2>2. CASE t # u
    <3>1. \E status : Done(t, status)
      BY DEF Receipt
    <3>2. Others(t) /\ UNCHANGED on
      BY <3>1, DoneIs DEF Receipt
    <3> QED
      BY <2>2, <3>2 DEF Others
  <2> QED
    BY <2>1, <2>2
<1>14. CASE \E t \in Tasks : Flushed(t)
  BY <1>14 DEF Flushed, Goto, TaskTypes
<1>15. CASE \E t \in Tasks : Finish(t)
  BY <1>15 DEF Finish, Goto, Leave, Mishap, TaskTypes
<1>16. CASE \E t \in Tasks : Abandon(t)
  <2> PICK t \in Tasks : Abandon(t)
    BY <1>16
  <2>1. CASE t = u
    BY <2>1 DEF Abandon, CountTypes
  <2>2. CASE t # u
    BY <2>2 DEF Abandon, Leave, Goto, TaskTypes
  <2> QED
    BY <2>1, <2>2
<1>17. CASE \E t \in Tasks, a \in Agents : NextRow(t, a)
  BY <1>17 DEF NextRow, Goto, SetStatus, Entry, Skips, TaskTypes
<1>18. CASE JobPick
  BY <1>18 DEF JobPick, Goto, TaskTypes
<1>19. CASE JobNext
  BY <1>19 DEF JobNext, Goto, TaskTypes
<1>20. CASE Crash
  <2>1. Cut(s) # {}
    BY DEF Cut
  <2>2. cutOff'[s] = cutOff[s] + Cardinality(Cut(s))
    BY <1>20 DEF Crash, Cut
  <2> QED
    BY <2>1, <2>2, CutOne
<1> QED
  BY <1>1, <1>2, <1>3, <1>4, <1>5, <1>6, <1>7, <1>8, <1>9, <1>10, <1>11, <1>12, <1>13, <1>14,
     <1>15, <1>16, <1>17, <1>18, <1>19, <1>20
     DEF Next, Dispatch, Flush, JobStep, Tasks

\* A written receipt stays, and nobody takes up its recipient again.
LEMMA ReceiptStays ==
  ASSUME TypeOK, TaskTypes, LocalOK, Next, NEW s \in Sends, row[s] \in Resolved,
         \A t \in Tasks : on[t] = s[1] => s[2] \notin left[t]
  PROVE  row'[s] \in Resolved /\ \A t \in Tasks : on'[t] = s[1] => s[2] \notin left'[t]
<1>1. row'[s] = row[s]
  <2>1. ASSUME NEW t \in Tasks, Plan(t), ~HasRows(on[t]), s[1] = on[t] PROVE FALSE
    BY <2>1, RowsAre DEF TaskTypes, Resolved
  <2> QED
    BY <2>1, RowStep DEF Resolved, Unresolved
<1>2. ASSUME NEW t \in Tasks, on'[t] = s[1], s[2] \in left'[t] PROVE FALSE
  <2>1. CASE Plan(t)
    <3>1. on'[t] = on[t]
      BY <2>1 DEF Plan
    <3> QED
      BY <1>1, <1>2, <2>1, <3>1, PlanIs DEF Resolved, Unresolved
  <2>2. CASE ~Plan(t)
    BY <1>2, <2>2, TaskStep DEF LocalOK, Sender
  <2> QED
    BY <2>1, <2>2
<1> QED
  BY <1>1, <1>2

\* A receipt is not lost but by a cut.
LEMMA ReceiptedKept ==
  ASSUME TypeOK, TableTypes, TaskTypes, CountTypes, LocksOK, LocalOK, PlannedOK, Next,
         NEW s \in Sends, Receipted(s)
  PROVE  Receipted(s)' \/ cutOff'[s] = cutOff[s] + 1
<1>1. CASE row[s] \in Resolved /\ \A t \in Tasks : on[t] = s[1] => s[2] \notin left[t]
  BY <1>1, ReceiptStays DEF Receipted
<1>2. ASSUME NEW t \in Tasks, pc[t] = "receipt", got[t] # "failed", Mine(t) = s
      PROVE  Receipted(s)' \/ cutOff'[s] = cutOff[s] + 1
  <2>1. CASE pc'[t] = "receipt" /\ got'[t] = got[t] /\ on'[t] = on[t] /\ to'[t] = to[t]
    BY <1>2, <2>1 DEF Receipted, Mine
  <2>2. CASE Done(t, got[t]) /\ UNCHANGED <<on, again>>
    <3>1. Others(t) /\ left'[t] = left[t] \ {to[t]}
      BY <2>2, DoneIs
    <3>2. s[1] = on[t] /\ s[2] = to[t] /\ s[2] \in left[t]
      BY <1>2 DEF Mine, LocalOK
    <3>3. \A u \in Tasks \ {t} : on[u] = s[1] => left[u] = {}
      BY <1>2, <3>2 DEF LocksOK, LocalOK, Sender
    <3>4. \A u \in Tasks : on'[u] = s[1] => s[2] \notin left'[u]
      BY <2>2, <3>1, <3>2, <3>3 DEF Others
    <3>5. row[s] # "none" /\ got[t] \in {"delivered", "queued"}
      BY <1>2, <3>2 DEF PlannedOK, TaskTypes
    <3>6. row'[s] \in Resolved
      BY <1>2, <2>2, <3>5 DEF Done, SetStatus, Resolved, TableTypes
    <3> QED
      BY <3>4, <3>6 DEF Receipted
  <2> QED
    BY <1>2, <2>1, <2>2, HolderStep
<1> QED
  BY <1>1, <1>2 DEF Receipted

\* A send has no receipt before its paste, and one after it unless it failed.
LEMMA PasteCounts ==
  ASSUME TypeOK, TableTypes, TaskTypes, CountTypes, LocksOK, LocalOK,
         NEW t \in Tasks, Paste(t), NEW s \in Sends, s = Mine(t)
  PROVE  /\ ~Receipted(s)
         /\ \/ Due(s)' <= Due(s) + 1 /\ cutOff'[s] = cutOff[s] /\ Receipted(s)'
            \/ Due(s)' = Due(s) + 1 /\ cutOff'[s] = cutOff[s] + 1
            \/ Due(s)' = Due(s) /\ cutOff'[s] = cutOff[s]
<1>1. pc[t] = "paste" /\ on[t] = s[1] /\ s[2] \in left[t]
  BY DEF Paste, Mine, LocalOK
<1>2. \A u \in Tasks : pc[u] = "receipt" /\ Mine(u) = s => u = t
  BY <1>1 DEF LocksOK, Sender, Mine
<1>3. ~Receipted(s)
  BY <1>1, <1>2 DEF Receipted
<1>4. ASSUME got'[t] # "failed" PROVE Receipted(s)'
  <2>1. pc'[t] = "receipt" /\ UNCHANGED <<on, to>>
    BY DEF Paste, Goto, TaskTypes
  <2> QED
    BY <1>4, <2>1 DEF Receipted, Mine
<1> DEFINE says(g) == got' = [got EXCEPT ![t] = g]
           shown == told' = [told EXCEPT ![s] = told[s] + 1]
<1>5. ASSUME says("queued") \/ says("delivered") PROVE got'[t] # "failed"
  BY <1>5 DEF TaskTypes
<1>6. CASE says("queued") /\ UNCHANGED <<queue, told, cutOff>>
  BY <1>3, <1>4, <1>5, <1>6 DEF Due, CountTypes
<1>7. CASE shown /\ says("delivered") /\ UNCHANGED <<queue, cutOff>>
  BY <1>3, <1>4, <1>5, <1>7 DEF Due, CountTypes
<1>8. CASE /\ shown \/ UNCHANGED told
           /\ queue' = [queue EXCEPT ![s] = "held"]
           /\ says("queued") /\ UNCHANGED cutOff
  BY <1>3, <1>4, <1>5, <1>8 DEF Due, CountTypes, TableTypes
<1>9. CASE shown /\ cutOff' = [cutOff EXCEPT ![s] = cutOff[s] + 1] /\ UNCHANGED queue
  BY <1>3, <1>9 DEF Due, CountTypes
<1>10. CASE /\ queue' = [queue EXCEPT ![s] = IF queue[s] \in Waits THEN queue[s] ELSE "waiting"]
            /\ says("queued") /\ UNCHANGED <<told, cutOff>>
  BY <1>3, <1>4, <1>5, <1>10 DEF Due, CountTypes, TableTypes, Waits
<1>11. CASE UNCHANGED <<queue, told, cutOff>>
  BY <1>3, <1>11 DEF Due, CountTypes
<1> QED
  BY <1>6, <1>7, <1>8, <1>9, <1>10, <1>11 DEF Paste, Sending

\* The count, through any step.
LEMMA CountKept ==
  ASSUME TypeOK, TableTypes, TaskTypes, CountTypes, CountTypes', LocksOK, LocalOK, PlannedOK,
         CountOK, Next
  PROVE  CountOK'
<1> SUFFICES ASSUME NEW s \in Sends
             PROVE  Due(s)' <= cutOff'[s] + (IF Receipted(s)' THEN 1 ELSE 0)
  BY DEF CountOK
<1>1. /\ Due(s) <= cutOff[s] + (IF Receipted(s) THEN 1 ELSE 0)
      /\ cutOff[s] \in Nat /\ Due(s) \in Nat /\ cutOff'[s] \in Nat /\ Due(s)' \in Nat
  BY DEF CountOK, CountTypes, Due
<1>2. CASE Due(s)' <= Due(s) /\ cutOff'[s] >= cutOff[s]
  BY <1>1, <1>2, ReceiptedKept
<1>3. ASSUME NEW t \in Tasks, Paste(t), Mine(t) = s
      PROVE  Due(s)' <= cutOff'[s] + (IF Receipted(s)' THEN 1 ELSE 0)
  BY <1>1, <1>3, PasteCounts
<1> QED
  BY <1>2, <1>3, DueStep

\* A recipient is shown a start by a paste of that event, or by a drain that knows no end of
\* the review.
LEMMA ToldStep ==
  ASSUME CountTypes, TaskTypes, NEW s \in Sends, Next
  PROVE  \/ told'[s] = told[s]
         \/ ~(s[1] = Start /\ finished)
         \/ \E t \in Tasks : pc[t] = "paste" /\ on[t] = s[1]
<1>1. CASE (\E e \in Events : Produce(e)) \/ Reopen \/ (\E a \in Agents : Acknowledge(a))
           \/ (\E t \in Intakes, e \in Events : Begin(t, e)) \/ (\E t \in Intakes : RouteStart(t))
           \/ (\E t \in Intakes : RouteSubmit(t)) \/ (\E t \in Intakes : RouteClose(t))
           \/ (\E t \in Intakes : CloseOnce(t)) \/ (\E t \in Intakes : Purge(t))
           \/ (\E t \in Intakes : Parents(t)) \/ (\E t \in Tasks : Plan(t))
           \/ (\E t \in Tasks : Valid(t)) \/ (\E t \in Tasks : Enter(t))
           \/ (\E t \in Tasks : Receipt(t)) \/ (\E t \in Tasks : Flushed(t))
           \/ (\E t \in Tasks : Finish(t)) \/ (\E t \in Tasks : Abandon(t))
           \/ (\E t \in Tasks, a \in Agents : NextRow(t, a)) \/ JobPick \/ JobNext \/ Crash
           \/ (\E q \in Sends : DrainLease(q))
  BY <1>1 DEF Produce, Reopen, Acknowledge, Begin, RouteStart, RouteSubmit, RouteClose,
     CloseOnce, Purge, Parents, Plan, Valid, Enter, Receipt, Flushed, Finish, Abandon, NextRow,
     JobPick, JobNext, Crash, DrainLease, history
<1>2. CASE \E t \in Tasks : Paste(t)
  <2> PICK t \in Tasks : Paste(t)
    BY <1>2
  <2>1. told' = told \/ told' = [told EXCEPT ![Mine(t)] = @ + 1]
    BY DEF Paste, Sending
  <2>2. pc[t] = "paste"
    BY DEF Paste
  <2> QED
    BY <2>1, <2>2 DEF CountTypes, Mine
<1>3. CASE \E q \in Sends : DrainSend(q)
  <2> PICK r \in Sends : DrainSend(r)
    BY <1>3
  <2>1. CASE UNCHANGED told
    BY <2>1
  <2>2. CASE ~(r[1] = Start /\ finished) /\ told' = [told EXCEPT ![r] = @ + 1]
    BY <2>2 DEF CountTypes
  <2> QED
    BY <2>1, <2>2 DEF DrainSend
<1> QED
  BY <1>1, <1>2, <1>3
     DEF Next, Dispatch, Flush, JobStep, Tasks

-----------------------------------------------------------------------------
\* The inductive invariant.
Invariant ==
    /\ GithubTypes /\ TableTypes /\ LockTypes /\ TaskTypes /\ CountTypes /\ HistoryTypes
    /\ LocksOK /\ LocalOK /\ FlightOK /\ EventOK /\ PlannedOK /\ SettledOK /\ CountOK

\* Its first parts are the type invariant.
LEMMA TypesAre ==
  TypeOK <=> GithubTypes /\ TableTypes /\ LockTypes /\ TaskTypes /\ CountTypes /\ HistoryTypes
  BY DEF TypeOK, GithubTypes, TableTypes, LockTypes, TaskTypes, CountTypes, HistoryTypes

\* At the start nothing has happened.
LEMMA InitInvariant ==
  ASSUME Init
  PROVE  Invariant
<1>1. GithubTypes /\ TableTypes /\ LockTypes /\ TaskTypes /\ CountTypes /\ HistoryTypes
  <2>1. GithubTypes /\ TableTypes /\ LockTypes /\ HistoryTypes
    BY DEF Init, GithubTypes, TableTypes, LockTypes, HistoryTypes
  <2>2. TaskTypes
    BY DEF Init, Idle, TaskTypes, Events
  <2>3. CountTypes
    BY OutboxAssumption DEF Init, CountTypes
  <2> QED
    BY <2>1, <2>2, <2>3
<1>2. LocksOK /\ LocalOK /\ FlightOK
  BY Distinct DEF Init, Idle, LocksOK, LocalOK, FlightOK, Sender, Tasks
<1>3. EventOK /\ PlannedOK
  BY Distinct, RowsAre DEF Init, Idle, EventOK, PlannedOK, Tasks
<1>4. SettledOK
  <2>1. \A s \in Sends : row[s] = "none" /\ event[s[1]] = "none"
    BY SendsAre DEF Init
  <2>2. \A t \in Tasks : pc[t] = "idle"
    BY DEF Init, Idle
  <2> QED
    BY <2>1, <2>2 DEF SettledOK, Resolved, Sender
<1>5. CountOK
  <2> SUFFICES ASSUME NEW s \in Sends PROVE Due(s) = 0 /\ cutOff[s] = 0
    BY DEF CountOK
  <2> QED
    BY DEF Init, Due
<1> QED
  BY <1>1, <1>2, <1>3, <1>4, <1>5 DEF Invariant

\* Every step keeps it.
LEMMA NextInvariant ==
  ASSUME Invariant, Next
  PROVE  Invariant'
<1>1. /\ TypeOK
      /\ GithubTypes /\ TableTypes /\ LockTypes /\ TaskTypes /\ CountTypes /\ HistoryTypes
      /\ LocksOK /\ LocalOK /\ FlightOK /\ EventOK /\ PlannedOK /\ SettledOK /\ CountOK
  BY TypesAre DEF Invariant
<1>2. GithubTypes' /\ TableTypes' /\ LockTypes' /\ TaskTypes'
  BY <1>1, GithubTyped, TablesTyped, LocksTyped, TasksTyped
<1>3. CountTypes' /\ HistoryTypes'
  BY <1>1, CountsTyped, HistoryTyped
<1>4. LocksOK' /\ LocalOK' /\ FlightOK' /\ EventOK'
  BY <1>1, LocksKept, LocalKept, FlightKept, EventKept
<1>5. PlannedOK'
  BY <1>1, PlannedKept
<1>6. SettledOK'
  BY <1>1, <1>5, SettledKept
<1>7. CountOK'
  BY <1>1, <1>3, CountKept
<1> QED
  BY <1>2, <1>3, <1>4, <1>5, <1>6, <1>7 DEF Invariant

\* A step that changes nothing keeps it.
LEMMA StutterInvariant ==
  ASSUME Invariant, UNCHANGED vars
  PROVE  Invariant'
<1>1. /\ UNCHANGED <<happens, sent, issue, event, row, finished, queue, acked, flying>>
      /\ UNCHANGED <<locked, reviewing, pc, on, to, left, again, got, picked, mishaps>>
      /\ UNCHANGED <<told, cutOff, tried, overtaken>>
  BY DEF vars, github, locals, locks, history
<1>2. \A s : Settled(s)' = Settled(s)
  BY <1>1 DEF Settled, Excused
<1>3. \A s : Due(s)' = Due(s) /\ Receipted(s)' = Receipted(s)
  BY <1>1 DEF Due, Receipted, Mine
<1>4. \A t : Mine(t)' = Mine(t)
  BY <1>1 DEF Mine
<1>5. \A e : HasRows(e)' = HasRows(e)
  BY <1>1 DEF HasRows
<1>6. GithubTypes' /\ TableTypes' /\ LockTypes' /\ TaskTypes' /\ CountTypes' /\ HistoryTypes'
  BY <1>1
  DEF Invariant, GithubTypes, TableTypes, LockTypes, TaskTypes, CountTypes, HistoryTypes
<1>7. LocksOK' /\ LocalOK' /\ FlightOK' /\ EventOK'
  BY <1>1 DEF Invariant, LocksOK, LocalOK, FlightOK, EventOK
<1>8. PlannedOK'
  BY <1>1, <1>5 DEF Invariant, PlannedOK
<1>9. SettledOK'
  BY <1>1, <1>2, <1>4 DEF Invariant, SettledOK
<1>10. CountOK'
  BY <1>1, <1>3 DEF Invariant, CountOK
<1> QED
  BY <1>6, <1>7, <1>8, <1>9, <1>10 DEF Invariant

\* The invariant holds in every reachable state, for any audiences, intakes and mishaps.
THEOREM OutboxInvariant == Spec => []Invariant
  BY InitInvariant, NextInvariant, StutterInvariant, PTL DEF Spec

\* Every variable keeps its type: no status, place or lock the code does not know.
THEOREM OutboxTypeOK == Spec => []TypeOK
<1>1. Invariant => TypeOK
  BY TypesAre DEF Invariant
<1> QED
  BY OutboxInvariant, <1>1, PTL

\* An event marked as handled has reached each of its recipients, waits for it in the queue,
\* or is no longer of interest to it, whatever failed, died, purged or overtook on the way
\* (_outbox_repo.py finish_event, discard_issue).
THEOREM NoticesNotDropped == Spec => []NothingDropped
<1>1. Invariant => NothingDropped
  BY DEF Invariant, SettledOK, Settled, NothingDropped
<1> QED
  BY OutboxInvariant, <1>1, PTL

\* A recipient is shown an event once more for each send that lost its receipt, and never
\* else: not by a replay, by the job, or by the drain (_outbox.py flush_outbox).
THEOREM NoticesNotRepeated == Spec => []RepeatedOnlyWhenCutOff
<1>1. Invariant => RepeatedOnlyWhenCutOff
  <2> SUFFICES ASSUME Invariant, NEW s \in Sends PROVE told[s] <= 1 + cutOff[s]
    BY DEF RepeatedOnlyWhenCutOff
  <2>1. told[s] \in Nat /\ cutOff[s] \in Nat /\ told[s] <= Due(s)
    BY DEF Invariant, CountTypes, Due
  <2>2. Due(s) <= cutOff[s] + (IF Receipted(s) THEN 1 ELSE 0)
    BY DEF Invariant, CountOK
  <2>3. Due(s) \in Nat
    BY DEF Invariant, CountTypes, Due
  <2> QED
    BY <2>1, <2>2, <2>3
<1> QED
  BY OutboxInvariant, <1>1, PTL

\* No step tells anyone that a review has started once it is known to have finished: the
\* outbox pastes under the review lock, and the drain looks before it does
\* (_events_repo.py review_delivery).
THEOREM StartsNotLate == Spec => NoLateStart
<1>1. ASSUME Invariant, [Next]_vars
      PROVE  \A s \in Sends : s[1] = Start /\ told'[s] > told[s] => ~finished
  <2> SUFFICES ASSUME NEW s \in Sends, s[1] = Start, told'[s] > told[s] PROVE ~finished
    OBVIOUS
  <2>1. told[s] \in Nat /\ told'[s] # told[s] /\ Next
    BY <1>1 DEF Invariant, CountTypes, vars, history
  <2>2. CASE \E t \in Tasks : pc[t] = "paste" /\ on[t] = s[1]
    BY <1>1, <2>2 DEF Invariant, LocksOK
  <2> QED
    BY <1>1, <2>1, <2>2, ToldStep DEF Invariant
<1>2. Invariant /\ [Next]_vars =>
        [\A s \in Sends : s[1] = Start /\ told'[s] > told[s] => ~finished]_vars
  BY <1>1
<1> QED
  BY OutboxInvariant, <1>2, PTL DEF Spec, NoLateStart
=============================================================================

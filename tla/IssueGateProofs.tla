-------------------------- MODULE IssueGateProofs --------------------------
(***************************************************************************)
(* One issue at a time, and each once, for any set of issues and tasks,    *)
(* any number of failures and of conversations.  The inductive invariant   *)
(* is IInv.  The session lock keeps the sends apart, so what the gate saw  *)
(* of the issues this conversation was given is still so at the paste, but *)
(* for those the listing left out; and a send that left no record left its *)
(* row held, which keeps every other paste away until it is acknowledged.  *)
(***************************************************************************)
EXTENDS IssueGate, FiniteSetTheorems, TLAPS

\* The type invariant in parts: the issues and the agent, the numbers, the database, the
\* tasks, and the history.
WorldOK ==
    /\ issue \in [Issues -> {"new", "open", "closed"}]
    /\ up \in BOOLEAN /\ busy \in BOOLEAN

NumbersOK == conv \in 1 .. MaxConvs /\ mishaps \in 0 .. MaxMishaps

TablesOK ==
    /\ acked \subseteq Issues
    /\ slot \in [Issues -> [is : {"free", "attempting", "delivered"}, conv : 0 .. MaxConvs]]
    /\ failed \in [Issues -> BOOLEAN]
    /\ queue \in [Issues -> {"none", "waiting", "leased", "held"}]

TasksOK ==
    /\ pc \in [Tasks -> {"idle", "lock", "ready", "store", "record", "settle"}]
    /\ want \in [Tasks -> Issues \cup {NoIssue}]
    /\ scope \in [Tasks -> SUBSET Issues]
    /\ res \in [Tasks -> Outcomes] /\ draining \in BOOLEAN

HistoryOK ==
    /\ shown \in [Issues -> Nat] /\ lost \in [Issues -> Nat]
    /\ awaiting \subseteq Issues /\ crossed \subseteq Issues

\* One task is inside safe_deliver, whatever is inside or waits has its issue, and what was
\* delivered leaves no row to store.
SendsOK ==
    /\ \A t, u \in Inside : t = u
    /\ \A t \in Tasks : pc[t] # "idle" => want[t] \in Issues
    /\ \A t \in Tasks : pc[t] = "store" => res[t] # "delivered"
    /\ draining => pc[Job] # "idle"

\* The issue being sent was not given to this conversation; its claim, if nobody reclaimed
\* it, was made in this conversation.
ClaimsOK ==
    \A t \in Inside :
        /\ ~Given(want[t])
        /\ slot[want[t]].is = "attempting" => slot[want[t]].conv = conv

\* What awaits an acknowledgement blocks the gate.
AwaitingOK == \A j \in awaiting : Given(j) /\ j \notin acked

\* The send pasted, or may have, and its receipt is still to come.
Sent(t) ==
    \/ pc[t] = "record" /\ res[t] = "delivered"
    \/ pc[t] = "store" /\ res[t] = "uncertain"

\* One row is held at most, and none while a paste awaits its receipt.
HeldOK ==
    /\ \A i, j \in Issues : queue[i] = "held" /\ queue[j] = "held" => i = j
    /\ \A t \in Tasks : Sent(t) => \A i \in Issues : queue[i] # "held"

\* Nothing else awaits an acknowledgement, or the listing left it out.
Alone(i) == i \in crossed \/ awaiting \subseteq {i}

\* The issues that may come to await an acknowledgement find none that does.
TurnOK ==
    /\ \A i, j \in awaiting : i # j => i \in crossed \/ j \in crossed
    /\ \A t \in Tasks : pc[t] = "ready" => awaiting \cap scope[t] = {}
    /\ \A t \in Tasks : Sent(t) => Alone(want[t])
    /\ \A i \in Issues : queue[i] = "held" => Alone(i)

\* A drain has the row it sends, while its issue is not closed; another send has none.
RowsOK ==
    \A t \in Tasks :
        /\ Drains(t) /\ pc[t] \in {"lock", "ready", "store"} /\ issue[want[t]] # "closed" =>
              queue[want[t]] = "leased"
        /\ ~Drains(t) /\ pc[t] \in {"ready", "store"} => queue[want[t]] = "none"

\* Something says that the issue was shown, or is about to.
InHand(i) ==
    \/ Given(i)
    \/ queue[i] = "held"
    \/ \E t \in Tasks : Sent(t) /\ want[t] = i

\* What was shown is accounted for.
Counted(i) == shown[i] <= lost[i] \/ (shown[i] <= lost[i] + 1 /\ InHand(i))

CountOK == \A i \in Issues : issue[i] # "closed" => Counted(i)

IInv ==
    /\ TypeOK /\ SendsOK /\ ClaimsOK /\ AwaitingOK
    /\ HeldOK /\ TurnOK /\ RowsOK /\ CountOK

-----------------------------------------------------------------------------
\* The parts are all of the type invariant.
LEMMA TypeParts == TypeOK <=> WorldOK /\ NumbersOK /\ TablesOK /\ TasksOK /\ HistoryOK
  BY DEF TypeOK, WorldOK, NumbersOK, TablesOK, TasksOK, HistoryOK

\* The agent starts with no issue, no row and no task on its way.
LEMMA InitInvariant == Init => IInv
<1> SUFFICES ASSUME Init PROVE IInv
  OBVIOUS
<1>1. WorldOK /\ TasksOK /\ HistoryOK
  BY DEF Init, WorldOK, TasksOK, HistoryOK, NoIssue, Outcomes, Nothing
<1>2. NumbersOK /\ TablesOK
  BY GateAssumption DEF Init, NumbersOK, TablesOK, Free
<1>3. SendsOK /\ ClaimsOK /\ AwaitingOK /\ HeldOK /\ TurnOK /\ RowsOK
  BY DEF Init, SendsOK, ClaimsOK, AwaitingOK, HeldOK, TurnOK, RowsOK, Inside, Sent
<1>4. CountOK
  BY DEF Init, CountOK, Counted, Nothing
<1> QED
  BY <1>1, <1>2, <1>3, <1>4, TypeParts DEF IInv

\* Types: the issues and the agent.
LEMMA WorldPreserved ==
  ASSUME WorldOK, Next
  PROVE  WorldOK'
<1>1. CASE \E i \in Issues : Open(i)
  BY <1>1 DEF Open, WorldOK, agent, locals, history
<1>2. CASE \E i \in Issues : Close(i)
  BY <1>2 DEF Close, WorldOK, agent, locals, history
<1>3. CASE \E i \in Issues : Acknowledge(i)
  BY <1>3 DEF Acknowledge, WorldOK, agent, locals, history
<1>4. CASE \E i \in Issues : NewComment(i)
  BY <1>4 DEF NewComment, Mishap, WorldOK, agent, locals, history
<1>5. CASE \E i \in Issues : InboxAck(i)
  BY <1>5 DEF InboxAck, WorldOK, agent, locals, history
<1>6. CASE \E i \in Issues : Reclaim(i)
  BY <1>6 DEF Reclaim, Mishap, Free, WorldOK, agent, locals, history
<1>7. CASE \E t \in Offerers, i \in Issues : Offer(t, i)
  BY <1>7 DEF Offer, Asks, Listed, WorldOK, agent, locals, history
<1>8. CASE TurnEnds
  BY <1>8 DEF TurnEnds, WorldOK, agent, locals, history
<1>9. CASE Stop
  BY <1>9 DEF Stop, Mishap, WorldOK, agent, locals, history
<1>10. CASE Resume
  BY <1>10 DEF Resume, WorldOK, agent, locals, history
<1>11. CASE Launch
  BY <1>11 DEF Launch, Nothing, WorldOK, agent, locals, history
<1>12. CASE PendingPass
  BY <1>12 DEF PendingPass, Pending, Asks, Listed, WorldOK, agent, locals, history
<1>13. CASE RetryPass
  BY <1>13 DEF RetryPass, Retry, Asks, Listed, WorldOK, agent, locals, history
<1>14. CASE DrainPass
  BY <1>14 DEF DrainPass, Drain, Listed, WorldOK, agent, locals, history
<1>15. CASE Crash
  BY <1>15 DEF Crash, Mishap, WorldOK, agent, locals, history
<1>16. CASE \E t \in Tasks : Enter(t)
  BY <1>16 DEF Enter, RowBack, Idle, Drains, WorldOK, agent, locals, history
<1>17. CASE \E t \in Tasks : Blocked(t)
  BY <1>17 DEF Blocked, Outcome, WorldOK, agent, locals, history
<1>18. CASE \E t \in Tasks : Paste(t)
  BY <1>18 DEF Paste, Outcome, Mishap, WorldOK, agent, locals, history
<1>19. CASE \E t \in Tasks : Store(t)
  BY <1>19 DEF Store, RowAfter, LostReceipt, RowBack, Idle, Mishap, Drains, WorldOK, agent,
     locals, history
<1>20. CASE \E t \in Tasks : Record(t)
  BY <1>20 DEF Record, LostReceipt, Idle, Mishap, Free, Drains, WorldOK, agent, locals, history
<1>21. CASE \E t \in Tasks : Settle(t)
  BY <1>21 DEF Settle, RowBack, Idle, Drains, WorldOK, agent, locals, history
<1> QED
  BY <1>1, <1>2, <1>3, <1>4, <1>5, <1>6, <1>7, <1>8, <1>9, <1>10, <1>11, <1>12, <1>13, <1>14,
     <1>15, <1>16, <1>17, <1>18, <1>19, <1>20, <1>21
     DEF Next, Send, Tasks

\* Types: the numbers, which their guards bound.
LEMMA NumbersPreserved ==
  ASSUME NumbersOK, Next
  PROVE  NumbersOK'
<1>1. CASE \E i \in Issues : Open(i)
  BY <1>1 DEF Open, NumbersOK, agent, locals, history
<1>2. CASE \E i \in Issues : Close(i)
  BY <1>2 DEF Close, NumbersOK, agent, locals, history
<1>3. CASE \E i \in Issues : Acknowledge(i)
  BY <1>3 DEF Acknowledge, NumbersOK, agent, locals, history
<1>4. CASE \E i \in Issues : NewComment(i)
  BY <1>4, GateAssumption DEF NewComment, Mishap, NumbersOK, agent, locals, history
<1>5. CASE \E i \in Issues : InboxAck(i)
  BY <1>5 DEF InboxAck, NumbersOK, agent, locals, history
<1>6. CASE \E i \in Issues : Reclaim(i)
  BY <1>6, GateAssumption DEF Reclaim, Mishap, Free, NumbersOK, agent, locals, history
<1>7. CASE \E t \in Offerers, i \in Issues : Offer(t, i)
  BY <1>7 DEF Offer, Asks, Listed, NumbersOK, agent, locals, history
<1>8. CASE TurnEnds
  BY <1>8 DEF TurnEnds, NumbersOK, agent, locals, history
<1>9. CASE Stop
  BY <1>9, GateAssumption DEF Stop, Mishap, NumbersOK, agent, locals, history
<1>10. CASE Resume
  BY <1>10 DEF Resume, NumbersOK, agent, locals, history
<1>11. CASE Launch
  BY <1>11, GateAssumption DEF Launch, Nothing, NumbersOK, agent, locals, history
<1>12. CASE PendingPass
  BY <1>12 DEF PendingPass, Pending, Asks, Listed, NumbersOK, agent, locals, history
<1>13. CASE RetryPass
  BY <1>13 DEF RetryPass, Retry, Asks, Listed, NumbersOK, agent, locals, history
<1>14. CASE DrainPass
  BY <1>14 DEF DrainPass, Drain, Listed, NumbersOK, agent, locals, history
<1>15. CASE Crash
  BY <1>15, GateAssumption DEF Crash, Mishap, NumbersOK, agent, locals, history
<1>16. CASE \E t \in Tasks : Enter(t)
  BY <1>16 DEF Enter, RowBack, Idle, Drains, NumbersOK, agent, locals, history
<1>17. CASE \E t \in Tasks : Blocked(t)
  BY <1>17 DEF Blocked, Outcome, NumbersOK, agent, locals, history
<1>18. CASE \E t \in Tasks : Paste(t)
  BY <1>18, GateAssumption DEF Paste, Outcome, Mishap, NumbersOK, agent, locals, history
<1>19. CASE \E t \in Tasks : Store(t)
  BY <1>19, GateAssumption DEF Store, RowAfter, LostReceipt, RowBack, Idle, Mishap, Drains,
     NumbersOK, agent, locals, history
<1>20. CASE \E t \in Tasks : Record(t)
  BY <1>20, GateAssumption DEF Record, LostReceipt, Idle, Mishap, Free, Drains, NumbersOK,
     agent, locals, history
<1>21. CASE \E t \in Tasks : Settle(t)
  BY <1>21 DEF Settle, RowBack, Idle, Drains, NumbersOK, agent, locals, history
<1> QED
  BY <1>1, <1>2, <1>3, <1>4, <1>5, <1>6, <1>7, <1>8, <1>9, <1>10, <1>11, <1>12, <1>13, <1>14,
     <1>15, <1>16, <1>17, <1>18, <1>19, <1>20, <1>21
     DEF Next, Send, Tasks

\* Types: the database.
LEMMA TablesPreserved ==
  ASSUME NumbersOK, TablesOK, Next
  PROVE  TablesOK'
<1>1. CASE \E i \in Issues : Open(i)
  BY <1>1 DEF Open, NumbersOK, TablesOK, Free, NoIssue, agent, locals, history
<1>2. CASE \E i \in Issues : Close(i)
  BY <1>2 DEF Close, NumbersOK, TablesOK, Free, NoIssue, agent, locals, history
<1>3. CASE \E i \in Issues : Acknowledge(i)
  BY <1>3 DEF Acknowledge, NumbersOK, TablesOK, Free, NoIssue, agent, locals, history
<1>4. CASE \E i \in Issues : NewComment(i)
  BY <1>4 DEF NewComment, Mishap, NumbersOK, TablesOK, Free, NoIssue, agent, locals, history
<1>5. CASE \E i \in Issues : InboxAck(i)
  BY <1>5 DEF InboxAck, NumbersOK, TablesOK, Free, NoIssue, agent, locals, history
<1>6. CASE \E i \in Issues : Reclaim(i)
  <2> PICK i \in Issues : Reclaim(i)
    BY <1>6
  <2>1. slot' = [slot EXCEPT ![i] = Free] /\ UNCHANGED <<acked, failed, queue>>
    BY DEF Reclaim
  <2>2. Free \in [is : {"free", "attempting", "delivered"}, conv : 0 .. MaxConvs]
    BY GateAssumption DEF Free
  <2> QED
    BY <2>1, <2>2 DEF TablesOK
<1>7. CASE \E t \in Offerers, i \in Issues : Offer(t, i)
  BY <1>7 DEF Offer, Asks, Listed, NumbersOK, TablesOK, Free, NoIssue, agent, locals, history
<1>8. CASE TurnEnds
  BY <1>8 DEF TurnEnds, NumbersOK, TablesOK, Free, NoIssue, agent, locals, history
<1>9. CASE Stop
  BY <1>9 DEF Stop, Mishap, NumbersOK, TablesOK, Free, NoIssue, agent, locals, history
<1>10. CASE Resume
  BY <1>10 DEF Resume, NumbersOK, TablesOK, Free, NoIssue, agent, locals, history
<1>11. CASE Launch
  BY <1>11 DEF Launch, Nothing, NumbersOK, TablesOK, Free, NoIssue, agent, locals, history
<1>12. CASE PendingPass
  BY <1>12 DEF PendingPass, Pending, Asks, Listed, NumbersOK, TablesOK, Free, NoIssue, agent,
     locals, history
<1>13. CASE RetryPass
  BY <1>13 DEF RetryPass, Retry, Asks, Listed, NumbersOK, TablesOK, Free, NoIssue, agent,
     locals, history
<1>14. CASE DrainPass
  BY <1>14 DEF DrainPass, Drain, Listed, NumbersOK, TablesOK, Free, NoIssue, agent, locals,
     history
<1>15. CASE Crash
  BY <1>15 DEF Crash, Mishap, NumbersOK, TablesOK, Free, NoIssue, agent, locals, history
<1>16. CASE \E t \in Tasks : Enter(t)
  <2> PICK t \in Tasks : Enter(t)
    BY <1>16
  <2>1. CASE RowBack(t, want[t], Active(want[t])) /\ UNCHANGED <<slot, acked, failed>>
    BY <2>1 DEF RowBack, TablesOK
  <2>2. CASE /\ slot' = [slot EXCEPT ![want[t]] = [is |-> "attempting", conv |-> conv]]
             /\ UNCHANGED <<queue, acked, failed>>
    <3>1. [is |-> "attempting", conv |-> conv] \in
             [is : {"free", "attempting", "delivered"}, conv : 0 .. MaxConvs]
      BY GateAssumption DEF NumbersOK
    <3> QED
      BY <2>2, <3>1 DEF TablesOK
  <2> QED
    BY <2>1, <2>2 DEF Enter
<1>17. CASE \E t \in Tasks : Blocked(t)
  BY <1>17 DEF Blocked, Outcome, NumbersOK, TablesOK, Free, NoIssue, agent, locals, history
<1>18. CASE \E t \in Tasks : Paste(t)
  BY <1>18 DEF Paste, Outcome, Mishap, NumbersOK, TablesOK, Free, NoIssue, agent, locals,
     history
<1>19. CASE \E t \in Tasks : Store(t)
  BY <1>19 DEF Store, RowAfter, LostReceipt, RowBack, Idle, Mishap, Drains, NumbersOK, TablesOK,
     Free, NoIssue, agent, locals, history
<1>20. CASE \E t \in Tasks : Record(t)
  <2> PICK t \in Tasks : Record(t)
    BY <1>20
  <2>1. UNCHANGED <<acked, queue>>
    BY DEF Record
  <2>2. \/ UNCHANGED slot
        \/ slot' = [slot EXCEPT ![want[t]].is = "delivered"]
        \/ slot' = [slot EXCEPT ![want[t]] = Free]
    BY DEF Record, TablesOK
  <2>3. slot' \in [Issues -> [is : {"free", "attempting", "delivered"}, conv : 0 .. MaxConvs]]
    <3>1. Free \in [is : {"free", "attempting", "delivered"}, conv : 0 .. MaxConvs]
      BY GateAssumption DEF Free
    <3>2. \A r \in [is : {"free", "attempting", "delivered"}, conv : 0 .. MaxConvs] :
             [r EXCEPT !.is = "delivered"] \in
                [is : {"free", "attempting", "delivered"}, conv : 0 .. MaxConvs]
      OBVIOUS
    <3> QED
      BY <2>2, <3>1, <3>2 DEF TablesOK
  <2>4. failed' \in [Issues -> BOOLEAN]
    BY DEF Record, TablesOK
  <2> QED
    BY <2>1, <2>3, <2>4 DEF TablesOK
<1>21. CASE \E t \in Tasks : Settle(t)
  <2> PICK t \in Tasks : Settle(t)
    BY <1>21
  <2>1. RowBack(t, want[t], res[t] = "delivered") /\ UNCHANGED <<acked, slot, failed>>
    BY DEF Settle
  <2> QED
    BY <2>1 DEF RowBack, TablesOK
<1> QED
  BY <1>1, <1>2, <1>3, <1>4, <1>5, <1>6, <1>7, <1>8, <1>9, <1>10, <1>11, <1>12, <1>13, <1>14,
     <1>15, <1>16, <1>17, <1>18, <1>19, <1>20, <1>21
     DEF Next, Send, Tasks

\* Types: the tasks and what they remember.
LEMMA TasksPreserved ==
  ASSUME TasksOK, Next
  PROVE  TasksOK'
<1>1. CASE \E i \in Issues : Open(i)
  BY <1>1 DEF Open, TasksOK, Tasks, NoIssue, Outcomes, OpenIssues, agent, locals, history
<1>2. CASE \E i \in Issues : Close(i)
  BY <1>2 DEF Close, TasksOK, Tasks, NoIssue, Outcomes, OpenIssues, agent, locals, history
<1>3. CASE \E i \in Issues : Acknowledge(i)
  BY <1>3 DEF Acknowledge, TasksOK, Tasks, NoIssue, Outcomes, OpenIssues, agent, locals, history
<1>4. CASE \E i \in Issues : NewComment(i)
  BY <1>4 DEF NewComment, Mishap, TasksOK, Tasks, NoIssue, Outcomes, OpenIssues, agent, locals,
     history
<1>5. CASE \E i \in Issues : InboxAck(i)
  BY <1>5 DEF InboxAck, TasksOK, Tasks, NoIssue, Outcomes, OpenIssues, agent, locals, history
<1>6. CASE \E i \in Issues : Reclaim(i)
  BY <1>6 DEF Reclaim, Mishap, Free, TasksOK, Tasks, NoIssue, Outcomes, OpenIssues, agent,
     locals, history
<1>7. CASE \E t \in Offerers, i \in Issues : Offer(t, i)
  BY <1>7 DEF Offer, Asks, Listed, TasksOK, Tasks, NoIssue, Outcomes, OpenIssues, agent, locals,
     history
<1>8. CASE TurnEnds
  BY <1>8 DEF TurnEnds, TasksOK, Tasks, NoIssue, Outcomes, OpenIssues, agent, locals, history
<1>9. CASE Stop
  BY <1>9 DEF Stop, Mishap, TasksOK, Tasks, NoIssue, Outcomes, OpenIssues, agent, locals,
     history
<1>10. CASE Resume
  BY <1>10 DEF Resume, TasksOK, Tasks, NoIssue, Outcomes, OpenIssues, agent, locals, history
<1>11. CASE Launch
  BY <1>11 DEF Launch, Nothing, TasksOK, Tasks, NoIssue, Outcomes, OpenIssues, agent, locals,
     history
<1>12. CASE PendingPass
  BY <1>12 DEF PendingPass, Pending, Asks, Listed, TasksOK, Tasks, NoIssue, Outcomes,
     OpenIssues, agent, locals, history
<1>13. CASE RetryPass
  BY <1>13 DEF RetryPass, Retry, Asks, Listed, TasksOK, Tasks, NoIssue, Outcomes, OpenIssues,
     agent, locals, history
<1>14. CASE DrainPass
  <2> PICK i \in Issues : Drain(i)
    BY <1>14 DEF DrainPass
  <2>1. CASE UNCHANGED locals
    BY <2>1 DEF TasksOK, locals
  <2>2. CASE Listed(Job, i) /\ draining' = TRUE
    BY <2>2 DEF Listed, TasksOK, Tasks, OpenIssues
  <2> QED
    BY <2>1, <2>2 DEF Drain
<1>15. CASE Crash
  BY <1>15 DEF Crash, Mishap, TasksOK, Tasks, NoIssue, Outcomes, OpenIssues, agent, locals,
     history
<1>16. CASE \E t \in Tasks : Enter(t)
  <2> PICK t \in Tasks : Enter(t)
    BY <1>16
  <2>1. CASE Idle(t)
    BY <2>1 DEF Idle, TasksOK, NoIssue, Outcomes
  <2>2. CASE pc' = [pc EXCEPT ![t] = "ready"] /\ UNCHANGED <<want, scope, res, draining>>
    BY <2>2 DEF TasksOK
  <2> QED
    BY <2>1, <2>2 DEF Enter
<1>17. CASE \E t \in Tasks : Blocked(t)
  BY <1>17 DEF Blocked, Outcome, TasksOK, Tasks, NoIssue, Outcomes, OpenIssues, agent, locals,
     history
<1>18. CASE \E t \in Tasks : Paste(t)
  BY <1>18 DEF Paste, Outcome, Mishap, TasksOK, Tasks, NoIssue, Outcomes, OpenIssues, agent,
     locals, history
<1>19. CASE \E t \in Tasks : Store(t)
  <2> PICK t \in Tasks : Store(t)
    BY <1>19
  <2>1. CASE Idle(t)
    BY <2>1 DEF Idle, TasksOK, NoIssue, Outcomes
  <2>2. CASE pc' = [pc EXCEPT ![t] = "record"] /\ UNCHANGED <<want, scope, res, draining>>
    BY <2>2 DEF TasksOK
  <2> QED
    BY <2>1, <2>2 DEF Store
<1>20. CASE \E t \in Tasks : Record(t)
  BY <1>20 DEF Record, LostReceipt, Idle, Mishap, Free, Drains, TasksOK, Tasks, NoIssue,
     Outcomes, OpenIssues, agent, locals, history
<1>21. CASE \E t \in Tasks : Settle(t)
  BY <1>21 DEF Settle, RowBack, Idle, Drains, TasksOK, Tasks, NoIssue, Outcomes, OpenIssues,
     agent, locals, history
<1> QED
  BY <1>1, <1>2, <1>3, <1>4, <1>5, <1>6, <1>7, <1>8, <1>9, <1>10, <1>11, <1>12, <1>13, <1>14,
     <1>15, <1>16, <1>17, <1>18, <1>19, <1>20, <1>21
     DEF Next, Send, Tasks

\* Types: the history. A death of the service cuts one send off at most.
LEMMA HistoryPreserved ==
  ASSUME TasksOK, SendsOK, HistoryOK, Next
  PROVE  HistoryOK'
<1>1. CASE \E i \in Issues : Open(i)
  BY <1>1 DEF Open, TasksOK, SendsOK, HistoryOK, Inside, agent, locals, history
<1>2. CASE \E i \in Issues : Close(i)
  BY <1>2 DEF Close, TasksOK, SendsOK, HistoryOK, Inside, agent, locals, history
<1>3. CASE \E i \in Issues : Acknowledge(i)
  BY <1>3 DEF Acknowledge, TasksOK, SendsOK, HistoryOK, Inside, agent, locals, history
<1>4. CASE \E i \in Issues : NewComment(i)
  BY <1>4 DEF NewComment, Mishap, TasksOK, SendsOK, HistoryOK, Inside, agent, locals, history
<1>5. CASE \E i \in Issues : InboxAck(i)
  BY <1>5 DEF InboxAck, TasksOK, SendsOK, HistoryOK, Inside, agent, locals, history
<1>6. CASE \E i \in Issues : Reclaim(i)
  BY <1>6 DEF Reclaim, Mishap, Free, TasksOK, SendsOK, HistoryOK, Inside, agent, locals, history
<1>7. CASE \E t \in Offerers, i \in Issues : Offer(t, i)
  BY <1>7 DEF Offer, Asks, Listed, TasksOK, SendsOK, HistoryOK, Inside, agent, locals, history
<1>8. CASE TurnEnds
  BY <1>8 DEF TurnEnds, TasksOK, SendsOK, HistoryOK, Inside, agent, locals, history
<1>9. CASE Stop
  BY <1>9 DEF Stop, Mishap, TasksOK, SendsOK, HistoryOK, Inside, agent, locals, history
<1>10. CASE Resume
  BY <1>10 DEF Resume, TasksOK, SendsOK, HistoryOK, Inside, agent, locals, history
<1>11. CASE Launch
  BY <1>11 DEF Launch, Nothing, TasksOK, SendsOK, HistoryOK, Inside, agent, locals, history
<1>12. CASE PendingPass
  BY <1>12 DEF PendingPass, Pending, Asks, Listed, TasksOK, SendsOK, HistoryOK, Inside, agent,
     locals, history
<1>13. CASE RetryPass
  BY <1>13 DEF RetryPass, Retry, Asks, Listed, TasksOK, SendsOK, HistoryOK, Inside, agent,
     locals, history
<1>14. CASE DrainPass
  BY <1>14 DEF DrainPass, Drain, Listed, TasksOK, SendsOK, HistoryOK, Inside, agent, locals,
     history
<1>15. CASE Crash
  <2> DEFINE cut(i) == {t \in Inside : /\ want[t] = i
                                     /\ \/ res[t] = "delivered"
                                        \/ res[t] = "uncertain" /\ pc[t] = "store"}
  <2>1. \A i \in Issues : Cardinality(cut(i)) \in Nat
    <3> SUFFICES ASSUME NEW i \in Issues PROVE Cardinality(cut(i)) \in Nat
      OBVIOUS
    <3>1. CASE cut(i) = {}
      BY <3>1, FS_EmptySet
    <3>2. CASE cut(i) # {}
      <4>1. PICK t \in cut(i) : TRUE
        BY <3>2
      <4>2. cut(i) = {t}
        BY <4>1 DEF SendsOK
      <4> QED
        <5>1. Cardinality({t}) = 1
          BY FS_Singleton
        <5> QED
          BY <4>2, <5>1
    <3> QED
      BY <3>1, <3>2
  <2>2. lost' = [i \in Issues |-> lost[i] + Cardinality(cut(i))]
        /\ UNCHANGED <<shown, awaiting, crossed>>
    BY <1>15 DEF Crash
  <2> QED
    BY <2>1, <2>2 DEF HistoryOK
<1>16. CASE \E t \in Tasks : Enter(t)
  BY <1>16 DEF Enter, RowBack, Idle, Drains, TasksOK, SendsOK, HistoryOK, Inside, agent, locals,
     history
<1>17. CASE \E t \in Tasks : Blocked(t)
  BY <1>17 DEF Blocked, Outcome, TasksOK, SendsOK, HistoryOK, Inside, agent, locals, history
<1>18. CASE \E t \in Tasks : Paste(t)
  BY <1>18 DEF Paste, Outcome, Mishap, TasksOK, SendsOK, HistoryOK, Inside, agent, locals,
     history
<1>19. CASE \E t \in Tasks : Store(t)
  BY <1>19 DEF Store, RowAfter, LostReceipt, RowBack, Idle, Mishap, Drains, TasksOK, SendsOK,
     HistoryOK, Inside, agent, locals, history
<1>20. CASE \E t \in Tasks : Record(t)
  BY <1>20 DEF Record, LostReceipt, Idle, Mishap, Free, Drains, TasksOK, SendsOK, HistoryOK,
     Inside, agent, locals, history
<1>21. CASE \E t \in Tasks : Settle(t)
  BY <1>21 DEF Settle, RowBack, Idle, Drains, TasksOK, SendsOK, HistoryOK, Inside, agent,
     locals, history
<1> QED
  BY <1>1, <1>2, <1>3, <1>4, <1>5, <1>6, <1>7, <1>8, <1>9, <1>10, <1>11, <1>12, <1>13, <1>14,
     <1>15, <1>16, <1>17, <1>18, <1>19, <1>20, <1>21
     DEF Next, Send, Tasks

\* A task that leaves gives up the lock, and the drain its row.
LEMMA IdleSends ==
  ASSUME TypeOK, SendsOK, NEW t \in Tasks, Idle(t)
  PROVE  SendsOK'
<1>1. \A u \in Tasks : u # t =>
         pc'[u] = pc[u] /\ want'[u] = want[u] /\ scope'[u] = scope[u] /\ res'[u] = res[u]
  BY DEF Idle, TypeOK
<1>2. pc'[t] = "idle"
  BY DEF Idle, TypeOK
<1>3. draining' => draining /\ t # Job
  BY DEF Idle
<1> QED
  BY <1>1, <1>2, <1>3, GateAssumption DEF SendsOK, Inside, Tasks

\* The session lock is taken when no other task has it.
LEMMA SendsPreserved ==
  ASSUME TypeOK, SendsOK, Next
  PROVE  SendsOK'
<1>1. CASE \E i \in Issues : Open(i)
  BY <1>1 DEF Open, TypeOK, SendsOK, Inside, Tasks, agent, locals, history
<1>2. CASE \E i \in Issues : Close(i)
  BY <1>2 DEF Close, TypeOK, SendsOK, Inside, Tasks, agent, locals, history
<1>3. CASE \E i \in Issues : Acknowledge(i)
  BY <1>3 DEF Acknowledge, TypeOK, SendsOK, Inside, Tasks, agent, locals, history
<1>4. CASE \E i \in Issues : NewComment(i)
  BY <1>4 DEF NewComment, Mishap, TypeOK, SendsOK, Inside, Tasks, agent, locals, history
<1>5. CASE \E i \in Issues : InboxAck(i)
  BY <1>5 DEF InboxAck, TypeOK, SendsOK, Inside, Tasks, agent, locals, history
<1>6. CASE \E i \in Issues : Reclaim(i)
  BY <1>6 DEF Reclaim, Mishap, Free, TypeOK, SendsOK, Inside, Tasks, agent, locals, history
<1>7. CASE \E t \in Offerers, i \in Issues : Offer(t, i)
  BY <1>7 DEF Offer, Asks, Listed, TypeOK, SendsOK, Inside, Tasks, agent, locals, history
<1>8. CASE TurnEnds
  BY <1>8 DEF TurnEnds, TypeOK, SendsOK, Inside, Tasks, agent, locals, history
<1>9. CASE Stop
  BY <1>9 DEF Stop, Mishap, TypeOK, SendsOK, Inside, Tasks, agent, locals, history
<1>10. CASE Resume
  BY <1>10 DEF Resume, TypeOK, SendsOK, Inside, Tasks, agent, locals, history
<1>11. CASE Launch
  BY <1>11 DEF Launch, Nothing, TypeOK, SendsOK, Inside, Tasks, agent, locals, history
<1>12. CASE PendingPass
  BY <1>12 DEF PendingPass, Pending, Asks, Listed, TypeOK, SendsOK, Inside, Tasks, agent,
     locals, history
<1>13. CASE RetryPass
  BY <1>13 DEF RetryPass, Retry, Asks, Listed, TypeOK, SendsOK, Inside, Tasks, agent, locals,
     history
<1>14. CASE DrainPass
  BY <1>14 DEF DrainPass, Drain, Listed, TypeOK, SendsOK, Inside, Tasks, agent, locals, history
<1>15. CASE Crash
  BY <1>15 DEF Crash, Mishap, TypeOK, SendsOK, Inside, Tasks, agent, locals, history
<1>16. CASE \E t \in Tasks : Enter(t)
  <2> PICK t \in Tasks : Enter(t)
    BY <1>16
  <2>1. t \in Tasks /\ pc[t] = "lock" /\ Inside = {}
    BY DEF Enter
  <2>2. CASE Idle(t)
    BY <2>2, IdleSends
  <2>3. CASE pc' = [pc EXCEPT ![t] = "ready"] /\ UNCHANGED <<want, scope, res, draining>>
    BY <2>1, <2>3 DEF TypeOK, SendsOK, Inside
  <2> QED
    BY <2>2, <2>3 DEF Enter
<1>17. CASE \E t \in Tasks : Blocked(t)
  <2> PICK t \in Tasks : Blocked(t)
    BY <1>17
  <2>1. pc[t] = "ready" /\ UNCHANGED <<want, draining>>
    BY DEF Blocked
  <2>2. PICK o \in {"offline", "busy", "awaiting_ack"}, s \in BOOLEAN : Outcome(t, o, s)
    BY DEF Blocked
  <2> QED
    BY <2>1, <2>2 DEF Outcome, TypeOK, SendsOK, Inside
<1>18. CASE \E t \in Tasks : Paste(t)
  BY <1>18 DEF Paste, Outcome, Mishap, TypeOK, SendsOK, Inside, Tasks, agent, locals, history
<1>19. CASE \E t \in Tasks : Store(t)
  <2> PICK t \in Tasks : Store(t)
    BY <1>19
  <2>1. pc[t] = "store" /\ t \in Inside
    BY DEF Store, Inside
  <2>2. CASE Idle(t)
    BY <2>2, IdleSends
  <2>3. CASE pc' = [pc EXCEPT ![t] = "record"] /\ UNCHANGED <<want, scope, res, draining>>
    BY <2>1, <2>3 DEF TypeOK, SendsOK, Inside
  <2> QED
    BY <2>2, <2>3 DEF Store
<1>20. CASE \E t \in Tasks : Record(t)
  <2> PICK t \in Tasks : Record(t)
    BY <1>20
  <2>1. pc[t] = "record" /\ t \in Inside
    BY DEF Record, Inside
  <2>2. CASE Idle(t)
    BY <2>2, IdleSends
  <2>3. CASE pc' = [pc EXCEPT ![t] = "settle"] /\ UNCHANGED <<want, scope, res, draining>>
    BY <2>1, <2>3 DEF TypeOK, SendsOK, Inside
  <2> QED
    BY <2>2, <2>3 DEF Record
<1>21. CASE \E t \in Tasks : Settle(t)
  <2> PICK t \in Tasks : Settle(t)
    BY <1>21
  <2> QED
    BY IdleSends DEF Settle
<1> QED
  BY <1>1, <1>2, <1>3, <1>4, <1>5, <1>6, <1>7, <1>8, <1>9, <1>10, <1>11, <1>12, <1>13, <1>14,
     <1>15, <1>16, <1>17, <1>18, <1>19, <1>20, <1>21
     DEF Next, Send, Tasks

\* A claim is made of an issue this conversation does not have, and in it.
LEMMA ClaimsPreserved ==
  ASSUME TypeOK, SendsOK, ClaimsOK, Next
  PROVE  ClaimsOK'
<1>1. CASE \E i \in Issues : Open(i)
  BY <1>1 DEF Open, TypeOK, SendsOK, ClaimsOK, Inside, Tasks, Given, Active, Free, agent,
     locals, history
<1>2. CASE \E i \in Issues : Close(i)
  BY <1>2 DEF Close, TypeOK, SendsOK, ClaimsOK, Inside, Tasks, Given, Active, Free, agent,
     locals, history
<1>3. CASE \E i \in Issues : Acknowledge(i)
  BY <1>3 DEF Acknowledge, TypeOK, SendsOK, ClaimsOK, Inside, Tasks, Given, Active, Free, agent,
     locals, history
<1>4. CASE \E i \in Issues : NewComment(i)
  BY <1>4 DEF NewComment, Mishap, TypeOK, SendsOK, ClaimsOK, Inside, Tasks, Given, Active, Free,
     agent, locals, history
<1>5. CASE \E i \in Issues : InboxAck(i)
  BY <1>5 DEF InboxAck, TypeOK, SendsOK, ClaimsOK, Inside, Tasks, Given, Active, Free, agent,
     locals, history
<1>6. CASE \E i \in Issues : Reclaim(i)
  BY <1>6 DEF Reclaim, Mishap, Free, TypeOK, SendsOK, ClaimsOK, Inside, Tasks, Given, Active,
     agent, locals, history
<1>7. CASE \E t \in Offerers, i \in Issues : Offer(t, i)
  BY <1>7 DEF Offer, Asks, Listed, TypeOK, SendsOK, ClaimsOK, Inside, Tasks, Given, Active,
     Free, agent, locals, history
<1>8. CASE TurnEnds
  BY <1>8 DEF TurnEnds, TypeOK, SendsOK, ClaimsOK, Inside, Tasks, Given, Active, Free, agent,
     locals, history
<1>9. CASE Stop
  BY <1>9 DEF Stop, Mishap, TypeOK, SendsOK, ClaimsOK, Inside, Tasks, Given, Active, Free,
     agent, locals, history
<1>10. CASE Resume
  BY <1>10 DEF Resume, TypeOK, SendsOK, ClaimsOK, Inside, Tasks, Given, Active, Free, agent,
     locals, history
<1>11. CASE Launch
  BY <1>11 DEF Launch, Nothing, TypeOK, SendsOK, ClaimsOK, Inside, Tasks, Given, Active, Free,
     agent, locals, history
<1>12. CASE PendingPass
  BY <1>12 DEF PendingPass, Pending, Asks, Listed, TypeOK, SendsOK, ClaimsOK, Inside, Tasks,
     Given, Active, Free, agent, locals, history
<1>13. CASE RetryPass
  BY <1>13 DEF RetryPass, Retry, Asks, Listed, TypeOK, SendsOK, ClaimsOK, Inside, Tasks, Given,
     Active, Free, agent, locals, history
<1>14. CASE DrainPass
  BY <1>14 DEF DrainPass, Drain, Listed, TypeOK, SendsOK, ClaimsOK, Inside, Tasks, Given,
     Active, Free, agent, locals, history
<1>15. CASE Crash
  BY <1>15 DEF Crash, Mishap, TypeOK, SendsOK, ClaimsOK, Inside, Tasks, Given, Active, Free,
     agent, locals, history
<1>16. CASE \E t \in Tasks : Enter(t)
  BY <1>16 DEF Enter, RowBack, Idle, Drains, TypeOK, SendsOK, ClaimsOK, Inside, Tasks, Given,
     Active, Free, agent, locals, history
<1>17. CASE \E t \in Tasks : Blocked(t)
  BY <1>17 DEF Blocked, Outcome, TypeOK, SendsOK, ClaimsOK, Inside, Tasks, Given, Active, Free,
     agent, locals, history
<1>18. CASE \E t \in Tasks : Paste(t)
  BY <1>18 DEF Paste, Outcome, Mishap, TypeOK, SendsOK, ClaimsOK, Inside, Tasks, Given, Active,
     Free, agent, locals, history
<1>19. CASE \E t \in Tasks : Store(t)
  BY <1>19 DEF Store, RowAfter, LostReceipt, RowBack, Idle, Mishap, Drains, TypeOK, SendsOK,
     ClaimsOK, Inside, Tasks, Given, Active, Free, agent, locals, history
<1>20. CASE \E t \in Tasks : Record(t)
  <2> PICK t \in Tasks : Record(t)
    BY <1>20
  <2>1. t \in Inside /\ (\A u \in Inside : u = t) /\ UNCHANGED conv
    BY DEF Record, Inside, SendsOK, agent
  <2>2. pc' = [pc EXCEPT ![t] = "settle"] \/ pc' = [pc EXCEPT ![t] = "idle"]
    BY DEF Record, Idle
  <2>3. Inside' = {}
    BY <2>1, <2>2 DEF Inside, TypeOK
  <2> QED
    BY <2>3 DEF ClaimsOK
<1>21. CASE \E t \in Tasks : Settle(t)
  BY <1>21 DEF Settle, RowBack, Idle, Drains, TypeOK, SendsOK, ClaimsOK, Inside, Tasks, Given,
     Active, Free, agent, locals, history
<1> QED
  BY <1>1, <1>2, <1>3, <1>4, <1>5, <1>6, <1>7, <1>8, <1>9, <1>10, <1>11, <1>12, <1>13, <1>14,
     <1>15, <1>16, <1>17, <1>18, <1>19, <1>20, <1>21
     DEF Next, Send, Tasks

\* The record of a given issue outlives everything but a new conversation.
LEMMA AwaitingPreserved ==
  ASSUME TypeOK, SendsOK, ClaimsOK, AwaitingOK, Next
  PROVE  AwaitingOK'
<1>1. CASE \E i \in Issues : Open(i)
  BY <1>1 DEF Open, TypeOK, SendsOK, ClaimsOK, AwaitingOK, Inside, Tasks, Given, Active, Free,
     agent, locals, history
<1>2. CASE \E i \in Issues : Close(i)
  BY <1>2 DEF Close, TypeOK, SendsOK, ClaimsOK, AwaitingOK, Inside, Tasks, Given, Active, Free,
     agent, locals, history
<1>3. CASE \E i \in Issues : Acknowledge(i)
  BY <1>3 DEF Acknowledge, TypeOK, SendsOK, ClaimsOK, AwaitingOK, Inside, Tasks, Given, Active,
     Free, agent, locals, history
<1>4. CASE \E i \in Issues : NewComment(i)
  BY <1>4 DEF NewComment, Mishap, TypeOK, SendsOK, ClaimsOK, AwaitingOK, Inside, Tasks, Given,
     Active, Free, agent, locals, history
<1>5. CASE \E i \in Issues : InboxAck(i)
  BY <1>5 DEF InboxAck, TypeOK, SendsOK, ClaimsOK, AwaitingOK, Inside, Tasks, Given, Active,
     Free, agent, locals, history
<1>6. CASE \E i \in Issues : Reclaim(i)
  BY <1>6 DEF Reclaim, Mishap, Free, TypeOK, SendsOK, ClaimsOK, AwaitingOK, Inside, Tasks,
     Given, Active, agent, locals, history
<1>7. CASE \E t \in Offerers, i \in Issues : Offer(t, i)
  BY <1>7 DEF Offer, Asks, Listed, TypeOK, SendsOK, ClaimsOK, AwaitingOK, Inside, Tasks, Given,
     Active, Free, agent, locals, history
<1>8. CASE TurnEnds
  BY <1>8 DEF TurnEnds, TypeOK, SendsOK, ClaimsOK, AwaitingOK, Inside, Tasks, Given, Active,
     Free, agent, locals, history
<1>9. CASE Stop
  BY <1>9 DEF Stop, Mishap, TypeOK, SendsOK, ClaimsOK, AwaitingOK, Inside, Tasks, Given, Active,
     Free, agent, locals, history
<1>10. CASE Resume
  BY <1>10 DEF Resume, TypeOK, SendsOK, ClaimsOK, AwaitingOK, Inside, Tasks, Given, Active,
     Free, agent, locals, history
<1>11. CASE Launch
  BY <1>11 DEF Launch, Nothing, TypeOK, SendsOK, ClaimsOK, AwaitingOK, Inside, Tasks, Given,
     Active, Free, agent, locals, history
<1>12. CASE PendingPass
  BY <1>12 DEF PendingPass, Pending, Asks, Listed, TypeOK, SendsOK, ClaimsOK, AwaitingOK,
     Inside, Tasks, Given, Active, Free, agent, locals, history
<1>13. CASE RetryPass
  BY <1>13 DEF RetryPass, Retry, Asks, Listed, TypeOK, SendsOK, ClaimsOK, AwaitingOK, Inside,
     Tasks, Given, Active, Free, agent, locals, history
<1>14. CASE DrainPass
  BY <1>14 DEF DrainPass, Drain, Listed, TypeOK, SendsOK, ClaimsOK, AwaitingOK, Inside, Tasks,
     Given, Active, Free, agent, locals, history
<1>15. CASE Crash
  BY <1>15 DEF Crash, Mishap, TypeOK, SendsOK, ClaimsOK, AwaitingOK, Inside, Tasks, Given,
     Active, Free, agent, locals, history
<1>16. CASE \E t \in Tasks : Enter(t)
  BY <1>16 DEF Enter, RowBack, Idle, Drains, TypeOK, SendsOK, ClaimsOK, AwaitingOK, Inside,
     Tasks, Given, Active, Free, agent, locals, history
<1>17. CASE \E t \in Tasks : Blocked(t)
  BY <1>17 DEF Blocked, Outcome, TypeOK, SendsOK, ClaimsOK, AwaitingOK, Inside, Tasks, Given,
     Active, Free, agent, locals, history
<1>18. CASE \E t \in Tasks : Paste(t)
  BY <1>18 DEF Paste, Outcome, Mishap, TypeOK, SendsOK, ClaimsOK, AwaitingOK, Inside, Tasks,
     Given, Active, Free, agent, locals, history
<1>19. CASE \E t \in Tasks : Store(t)
  BY <1>19 DEF Store, RowAfter, LostReceipt, RowBack, Idle, Mishap, Drains, TypeOK, SendsOK,
     ClaimsOK, AwaitingOK, Inside, Tasks, Given, Active, Free, agent, locals, history
<1>20. CASE \E t \in Tasks : Record(t)
  BY <1>20 DEF Record, LostReceipt, Idle, Mishap, Free, Drains, TypeOK, SendsOK, ClaimsOK,
     AwaitingOK, Inside, Tasks, Given, Active, agent, locals, history
<1>21. CASE \E t \in Tasks : Settle(t)
  BY <1>21 DEF Settle, RowBack, Idle, Drains, TypeOK, SendsOK, ClaimsOK, AwaitingOK, Inside,
     Tasks, Given, Active, Free, agent, locals, history
<1> QED
  BY <1>1, <1>2, <1>3, <1>4, <1>5, <1>6, <1>7, <1>8, <1>9, <1>10, <1>11, <1>12, <1>13, <1>14,
     <1>15, <1>16, <1>17, <1>18, <1>19, <1>20, <1>21
     DEF Next, Send, Tasks

\* Nothing is pasted while a row is held.
LEMMA HeldPreserved ==
  ASSUME TypeOK, SendsOK, HeldOK, Next
  PROVE  HeldOK'
<1>1. CASE \E i \in Issues : Open(i)
  BY <1>1 DEF Open, TypeOK, SendsOK, HeldOK, Sent, Inside, Tasks, agent, locals, history
<1>2. CASE \E i \in Issues : Close(i)
  BY <1>2 DEF Close, TypeOK, SendsOK, HeldOK, Sent, Inside, Tasks, agent, locals, history
<1>3. CASE \E i \in Issues : Acknowledge(i)
  BY <1>3 DEF Acknowledge, TypeOK, SendsOK, HeldOK, Sent, Inside, Tasks, agent, locals, history
<1>4. CASE \E i \in Issues : NewComment(i)
  BY <1>4 DEF NewComment, Mishap, TypeOK, SendsOK, HeldOK, Sent, Inside, Tasks, agent, locals,
     history
<1>5. CASE \E i \in Issues : InboxAck(i)
  BY <1>5 DEF InboxAck, TypeOK, SendsOK, HeldOK, Sent, Inside, Tasks, agent, locals, history
<1>6. CASE \E i \in Issues : Reclaim(i)
  BY <1>6 DEF Reclaim, Mishap, Free, TypeOK, SendsOK, HeldOK, Sent, Inside, Tasks, agent,
     locals, history
<1>7. CASE \E t \in Offerers, i \in Issues : Offer(t, i)
  BY <1>7 DEF Offer, Asks, Listed, TypeOK, SendsOK, HeldOK, Sent, Inside, Tasks, agent, locals,
     history
<1>8. CASE TurnEnds
  BY <1>8 DEF TurnEnds, TypeOK, SendsOK, HeldOK, Sent, Inside, Tasks, agent, locals, history
<1>9. CASE Stop
  BY <1>9 DEF Stop, Mishap, TypeOK, SendsOK, HeldOK, Sent, Inside, Tasks, agent, locals, history
<1>10. CASE Resume
  BY <1>10 DEF Resume, TypeOK, SendsOK, HeldOK, Sent, Inside, Tasks, agent, locals, history
<1>11. CASE Launch
  BY <1>11 DEF Launch, Nothing, TypeOK, SendsOK, HeldOK, Sent, Inside, Tasks, agent, locals,
     history
<1>12. CASE PendingPass
  BY <1>12 DEF PendingPass, Pending, Asks, Listed, TypeOK, SendsOK, HeldOK, Sent, Inside, Tasks,
     agent, locals, history
<1>13. CASE RetryPass
  BY <1>13 DEF RetryPass, Retry, Asks, Listed, TypeOK, SendsOK, HeldOK, Sent, Inside, Tasks,
     agent, locals, history
<1>14. CASE DrainPass
  <2>1. PICK i \in Issues : Drain(i)
    BY <1>14 DEF DrainPass
  <2>2. \A j \in Issues : queue'[j] = "held" => queue[j] = "held"
    BY <2>1 DEF Drain, TypeOK
  <2>3. \A u \in Tasks : Sent(u)' => Sent(u)
    BY <2>1 DEF Drain, Listed, Sent, TypeOK, Tasks, locals
  <2> QED
    BY <2>2, <2>3 DEF HeldOK
<1>15. CASE Crash
  BY <1>15 DEF Crash, Mishap, TypeOK, SendsOK, HeldOK, Sent, Inside, Tasks, agent, locals,
     history
<1>16. CASE \E t \in Tasks : Enter(t)
  BY <1>16 DEF Enter, RowBack, Idle, Drains, TypeOK, SendsOK, HeldOK, Sent, Inside, Tasks,
     agent, locals, history
<1>17. CASE \E t \in Tasks : Blocked(t)
  BY <1>17 DEF Blocked, Outcome, TypeOK, SendsOK, HeldOK, Sent, Inside, Tasks, agent, locals,
     history
<1>18. CASE \E t \in Tasks : Paste(t)
  BY <1>18 DEF Paste, Outcome, Mishap, TypeOK, SendsOK, HeldOK, Sent, Inside, Tasks, agent,
     locals, history
<1>19. CASE \E t \in Tasks : Store(t)
  <2> PICK t \in Tasks : Store(t)
    BY <1>19
  <2>1. /\ pc[t] = "store" /\ \A u \in Tasks : u # t => ~Sent(u)
    BY DEF Store, Sent, Inside, SendsOK
  <2>2. \A u \in Tasks : ~Sent(u)'
    BY <2>1 DEF Store, Idle, Sent, TypeOK, SendsOK
  <2>3. \A i \in Issues : queue'[i] = "held" =>
           queue[i] = "held" \/ (i = want[t] /\ res[t] = "uncertain")
    BY DEF Store, RowAfter, RowBack, TypeOK
  <2> QED
    BY <2>1, <2>2, <2>3 DEF HeldOK, Sent
<1>20. CASE \E t \in Tasks : Record(t)
  BY <1>20 DEF Record, LostReceipt, Idle, Mishap, Free, Drains, TypeOK, SendsOK, HeldOK, Sent,
     Inside, Tasks, agent, locals, history
<1>21. CASE \E t \in Tasks : Settle(t)
  BY <1>21 DEF Settle, RowBack, Idle, Drains, TypeOK, SendsOK, HeldOK, Sent, Inside, Tasks,
     agent, locals, history
<1> QED
  BY <1>1, <1>2, <1>3, <1>4, <1>5, <1>6, <1>7, <1>8, <1>9, <1>10, <1>11, <1>12, <1>13, <1>14,
     <1>15, <1>16, <1>17, <1>18, <1>19, <1>20, <1>21
     DEF Next, Send, Tasks

\* The gate is asked under the lock, and what is given until the record comes under it too.
LEMMA TurnPreserved ==
  ASSUME TypeOK, SendsOK, ClaimsOK, AwaitingOK, HeldOK, TurnOK, Next
  PROVE  TurnOK'
<1>1. CASE \E i \in Issues : Open(i)
  BY <1>1 DEF Open, TypeOK, SendsOK, ClaimsOK, AwaitingOK, HeldOK, TurnOK, Alone, Sent, Inside,
     Tasks, Blocking, Given, agent, locals, history
<1>2. CASE \E i \in Issues : Close(i)
  BY <1>2 DEF Close, TypeOK, SendsOK, ClaimsOK, AwaitingOK, HeldOK, TurnOK, Alone, Sent, Inside,
     Tasks, Blocking, Given, agent, locals, history
<1>3. CASE \E i \in Issues : Acknowledge(i)
  BY <1>3 DEF Acknowledge, TypeOK, SendsOK, ClaimsOK, AwaitingOK, HeldOK, TurnOK, Alone, Sent,
     Inside, Tasks, Blocking, Given, agent, locals, history
<1>4. CASE \E i \in Issues : NewComment(i)
  BY <1>4 DEF NewComment, Mishap, TypeOK, SendsOK, ClaimsOK, AwaitingOK, HeldOK, TurnOK, Alone,
     Sent, Inside, Tasks, Blocking, Given, agent, locals, history
<1>5. CASE \E i \in Issues : InboxAck(i)
  BY <1>5 DEF InboxAck, TypeOK, SendsOK, ClaimsOK, AwaitingOK, HeldOK, TurnOK, Alone, Sent,
     Inside, Tasks, Blocking, Given, agent, locals, history
<1>6. CASE \E i \in Issues : Reclaim(i)
  BY <1>6 DEF Reclaim, Mishap, Free, TypeOK, SendsOK, ClaimsOK, AwaitingOK, HeldOK, TurnOK,
     Alone, Sent, Inside, Tasks, Blocking, Given, agent, locals, history
<1>7. CASE \E t \in Offerers, i \in Issues : Offer(t, i)
  BY <1>7 DEF Offer, Asks, Listed, TypeOK, SendsOK, ClaimsOK, AwaitingOK, HeldOK, TurnOK, Alone,
     Sent, Inside, Tasks, Blocking, Given, agent, locals, history
<1>8. CASE TurnEnds
  BY <1>8 DEF TurnEnds, TypeOK, SendsOK, ClaimsOK, AwaitingOK, HeldOK, TurnOK, Alone, Sent,
     Inside, Tasks, Blocking, Given, agent, locals, history
<1>9. CASE Stop
  BY <1>9 DEF Stop, Mishap, TypeOK, SendsOK, ClaimsOK, AwaitingOK, HeldOK, TurnOK, Alone, Sent,
     Inside, Tasks, Blocking, Given, agent, locals, history
<1>10. CASE Resume
  BY <1>10 DEF Resume, TypeOK, SendsOK, ClaimsOK, AwaitingOK, HeldOK, TurnOK, Alone, Sent,
     Inside, Tasks, Blocking, Given, agent, locals, history
<1>11. CASE Launch
  BY <1>11 DEF Launch, Nothing, TypeOK, SendsOK, ClaimsOK, AwaitingOK, HeldOK, TurnOK, Alone,
     Sent, Inside, Tasks, Blocking, Given, agent, locals, history
<1>12. CASE PendingPass
  BY <1>12 DEF PendingPass, Pending, Asks, Listed, TypeOK, SendsOK, ClaimsOK, AwaitingOK,
     HeldOK, TurnOK, Alone, Sent, Inside, Tasks, Blocking, Given, agent, locals, history
<1>13. CASE RetryPass
  BY <1>13 DEF RetryPass, Retry, Asks, Listed, TypeOK, SendsOK, ClaimsOK, AwaitingOK, HeldOK,
     TurnOK, Alone, Sent, Inside, Tasks, Blocking, Given, agent, locals, history
<1>14. CASE DrainPass
  <2> PICK i \in Issues : Drain(i)
    BY <1>14 DEF DrainPass
  <2>1. UNCHANGED <<awaiting, crossed>>
    BY DEF Drain, history
  <2>2. \A j \in Issues : queue'[j] = "held" => queue[j] = "held"
    BY DEF Drain, TypeOK
  <2>3. \A u \in Tasks : pc'[u] = "ready" => pc[u] = "ready" /\ scope'[u] = scope[u]
    BY DEF Drain, Listed, TypeOK, locals
  <2>4. \A u \in Tasks : Sent(u)' => Sent(u) /\ want'[u] = want[u]
    BY DEF Drain, Listed, Sent, TypeOK, locals
  <2> QED
    <3>1. \A u \in Tasks : pc'[u] = "ready" => awaiting' \cap scope'[u] = {}
      BY <2>1, <2>3 DEF TurnOK
    <3>2. \A u \in Tasks : Sent(u)' => Alone(want[u])'
      BY <2>1, <2>4 DEF TurnOK, Alone, Sent
    <3>3. \A j \in Issues : queue'[j] = "held" => Alone(j)'
      BY <2>1, <2>2 DEF TurnOK, Alone
    <3>4. \A j, k \in awaiting' : j # k => j \in crossed' \/ k \in crossed'
      BY <2>1 DEF TurnOK
    <3> QED
      BY <3>1, <3>2, <3>3, <3>4 DEF TurnOK
<1>15. CASE Crash
  BY <1>15 DEF Crash, Mishap, TypeOK, SendsOK, ClaimsOK, AwaitingOK, HeldOK, TurnOK, Alone,
     Sent, Inside, Tasks, Blocking, Given, agent, locals, history
<1>16. CASE \E t \in Tasks : Enter(t)
  <2> PICK t \in Tasks : Enter(t)
    BY <1>16
  <2>1. pc[t] = "lock" /\ Inside = {} /\ UNCHANGED <<awaiting, crossed>>
    BY DEF Enter, history
  <2>2. CASE Idle(t) /\ RowBack(t, want[t], Active(want[t]))
    BY <2>1, <2>2 DEF Idle, RowBack, TypeOK, TurnOK, Alone, Sent
  <2>3. CASE /\ pc' = [pc EXCEPT ![t] = "ready"] /\ UNCHANGED <<queue, want, scope, res, draining>>
             /\ ~Active(want[t]) /\ Blocking(want[t], scope[t]) = {}
    <3>1. awaiting \cap scope[t] = {}
      BY <2>3 DEF Blocking, AwaitingOK, Given
    <3> QED
      BY <2>1, <2>3, <3>1 DEF TypeOK, TurnOK, Alone, Sent
  <2> QED
    BY <2>2, <2>3 DEF Enter
<1>17. CASE \E t \in Tasks : Blocked(t)
  <2> PICK t \in Tasks : Blocked(t)
    BY <1>17
  <2>1. pc[t] = "ready" /\ UNCHANGED <<queue, want, scope, awaiting, crossed>>
    BY DEF Blocked, history
  <2>2. \A u \in Tasks : (pc'[u] = "ready" => pc[u] = "ready") /\ (Sent(u)' => Sent(u))
    BY <2>1 DEF Blocked, Outcome, Sent, TypeOK
  <2> QED
    BY <2>1, <2>2 DEF TurnOK, Alone
<1>18. CASE \E t \in Tasks : Paste(t)
  BY <1>18 DEF Paste, Outcome, Mishap, TypeOK, SendsOK, ClaimsOK, AwaitingOK, HeldOK, TurnOK,
     Alone, Sent, Inside, Tasks, Blocking, Given, agent, locals, history
<1>19. CASE \E t \in Tasks : Store(t)
  <2> PICK t \in Tasks : Store(t)
    BY <1>19
  <2>1. pc[t] = "store" /\ UNCHANGED <<awaiting, crossed>>
    BY DEF Store
  <2>2. CASE Idle(t) /\ RowBack(t, want[t], FALSE)
    BY <2>1, <2>2 DEF Idle, RowBack, TypeOK, TurnOK, Alone, Sent
  <2>3. CASE pc' = [pc EXCEPT ![t] = "record"] /\ UNCHANGED <<queue, want, scope, res, draining>>
    BY <2>1, <2>3 DEF TypeOK, SendsOK, TurnOK, Alone, Sent
  <2>4. CASE /\ queue' = [queue EXCEPT ![want[t]] = RowAfter(t, queue[want[t]])]
             /\ pc' = [pc EXCEPT ![t] = "record"] /\ UNCHANGED <<want, scope, res, draining>>
    <3>1. \A i \in Issues : queue'[i] = "held" =>
             queue[i] = "held" \/ (i = want[t] /\ res[t] = "uncertain")
      BY <2>4 DEF RowAfter, TypeOK
    <3>2. \A u \in Tasks : Sent(u)' => Sent(u) /\ want'[u] = want[u]
      BY <2>1, <2>4 DEF Sent, TypeOK, SendsOK
    <3>3. \A u \in Tasks : pc'[u] = "ready" => pc[u] = "ready" /\ scope'[u] = scope[u]
      BY <2>4 DEF TypeOK
    <3> QED
      BY <2>1, <3>1, <3>2, <3>3 DEF TurnOK, Alone, Sent
  <2> QED
    BY <2>2, <2>3, <2>4 DEF Store
<1>20. CASE \E t \in Tasks : Record(t)
  <2> PICK t \in Tasks : Record(t)
    BY <1>20
  <2>1. /\ pc[t] = "record" /\ t \in Inside /\ want[t] \in Issues
        /\ UNCHANGED <<queue, crossed>>
    BY DEF Record, Inside, SendsOK
  <2>2. \A u \in Tasks : ~Sent(u)' /\ pc'[u] # "ready"
    BY <2>1 DEF Record, Idle, Sent, TypeOK, SendsOK, Inside
  <2>3. CASE awaiting' = awaiting
    BY <2>1, <2>2, <2>3 DEF TurnOK, Alone
  <2>4. CASE awaiting' = awaiting \cup ({want[t]} \ acked) /\ res[t] = "delivered"
    <3>1. Alone(want[t]) /\ \A i \in Issues : queue[i] # "held"
      BY <2>1, <2>4 DEF TurnOK, HeldOK, Sent
    <3> QED
      BY <2>1, <2>2, <2>4, <3>1 DEF TurnOK, Alone
  <2> QED
    BY <2>3, <2>4 DEF Record
<1>21. CASE \E t \in Tasks : Settle(t)
  BY <1>21 DEF Settle, RowBack, Idle, Drains, TypeOK, SendsOK, ClaimsOK, AwaitingOK, HeldOK,
     TurnOK, Alone, Sent, Inside, Tasks, Blocking, Given, agent, locals, history
<1> QED
  BY <1>1, <1>2, <1>3, <1>4, <1>5, <1>6, <1>7, <1>8, <1>9, <1>10, <1>11, <1>12, <1>13, <1>14,
     <1>15, <1>16, <1>17, <1>18, <1>19, <1>20, <1>21
     DEF Next, Send, Tasks

\* The row is looked at again under the lock, and only its issue's end takes it away.
LEMMA RowsPreserved ==
  ASSUME TypeOK, SendsOK, RowsOK, Next
  PROVE  RowsOK'
<1>1. CASE \E i \in Issues : Open(i)
  BY <1>1 DEF Open, TypeOK, SendsOK, RowsOK, Inside, Tasks, Drains, agent, locals, history
<1>2. CASE \E i \in Issues : Close(i)
  BY <1>2 DEF Close, TypeOK, SendsOK, RowsOK, Inside, Tasks, Drains, agent, locals, history
<1>3. CASE \E i \in Issues : Acknowledge(i)
  BY <1>3 DEF Acknowledge, TypeOK, SendsOK, RowsOK, Inside, Tasks, Drains, agent, locals,
     history
<1>4. CASE \E i \in Issues : NewComment(i)
  BY <1>4 DEF NewComment, Mishap, TypeOK, SendsOK, RowsOK, Inside, Tasks, Drains, agent, locals,
     history
<1>5. CASE \E i \in Issues : InboxAck(i)
  BY <1>5 DEF InboxAck, TypeOK, SendsOK, RowsOK, Inside, Tasks, Drains, agent, locals, history
<1>6. CASE \E i \in Issues : Reclaim(i)
  BY <1>6 DEF Reclaim, Mishap, Free, TypeOK, SendsOK, RowsOK, Inside, Tasks, Drains, agent,
     locals, history
<1>7. CASE \E t \in Offerers, i \in Issues : Offer(t, i)
  BY <1>7 DEF Offer, Asks, Listed, TypeOK, SendsOK, RowsOK, Inside, Tasks, Drains, agent,
     locals, history
<1>8. CASE TurnEnds
  BY <1>8 DEF TurnEnds, TypeOK, SendsOK, RowsOK, Inside, Tasks, Drains, agent, locals, history
<1>9. CASE Stop
  BY <1>9 DEF Stop, Mishap, TypeOK, SendsOK, RowsOK, Inside, Tasks, Drains, agent, locals,
     history
<1>10. CASE Resume
  BY <1>10 DEF Resume, TypeOK, SendsOK, RowsOK, Inside, Tasks, Drains, agent, locals, history
<1>11. CASE Launch
  BY <1>11 DEF Launch, Nothing, TypeOK, SendsOK, RowsOK, Inside, Tasks, Drains, agent, locals,
     history
<1>12. CASE PendingPass
  BY <1>12 DEF PendingPass, Pending, Asks, Listed, TypeOK, SendsOK, RowsOK, Inside, Tasks,
     Drains, agent, locals, history
<1>13. CASE RetryPass
  BY <1>13 DEF RetryPass, Retry, Asks, Listed, TypeOK, SendsOK, RowsOK, Inside, Tasks, Drains,
     agent, locals, history
<1>14. CASE DrainPass
  <2> PICK i \in Issues : Drain(i)
    BY <1>14 DEF DrainPass
  <2>1. CASE queue' = [queue EXCEPT ![i] = "none"] /\ UNCHANGED locals
    BY <2>1 DEF Drain, TypeOK, SendsOK, RowsOK, Drains, locals
  <2>2. CASE queue' = [queue EXCEPT ![i] = "leased"] /\ Listed(Job, i) /\ draining' = TRUE
    BY <2>2 DEF Drain, Listed, TypeOK, SendsOK, RowsOK, Drains, Tasks
  <2> QED
    BY <2>1, <2>2 DEF Drain
<1>15. CASE Crash
  BY <1>15 DEF Crash, Mishap, TypeOK, SendsOK, RowsOK, Inside, Tasks, Drains, agent, locals,
     history
<1>16. CASE \E t \in Tasks : Enter(t)
  BY <1>16 DEF Enter, RowBack, Idle, Drains, TypeOK, SendsOK, RowsOK, Inside, Tasks, agent,
     locals, history
<1>17. CASE \E t \in Tasks : Blocked(t)
  BY <1>17 DEF Blocked, Outcome, TypeOK, SendsOK, RowsOK, Inside, Tasks, Drains, agent, locals,
     history
<1>18. CASE \E t \in Tasks : Paste(t)
  BY <1>18 DEF Paste, Outcome, Mishap, TypeOK, SendsOK, RowsOK, Inside, Tasks, Drains, agent,
     locals, history
<1>19. CASE \E t \in Tasks : Store(t)
  BY <1>19 DEF Store, RowAfter, LostReceipt, RowBack, Idle, Mishap, Drains, TypeOK, SendsOK,
     RowsOK, Inside, Tasks, agent, locals, history
<1>20. CASE \E t \in Tasks : Record(t)
  BY <1>20 DEF Record, LostReceipt, Idle, Mishap, Free, Drains, TypeOK, SendsOK, RowsOK, Inside,
     Tasks, agent, locals, history
<1>21. CASE \E t \in Tasks : Settle(t)
  BY <1>21 DEF Settle, RowBack, Idle, Drains, TypeOK, SendsOK, RowsOK, Inside, Tasks, agent,
     locals, history
<1> QED
  BY <1>1, <1>2, <1>3, <1>4, <1>5, <1>6, <1>7, <1>8, <1>9, <1>10, <1>11, <1>12, <1>13, <1>14,
     <1>15, <1>16, <1>17, <1>18, <1>19, <1>20, <1>21
     DEF Next, Send, Tasks

\* What shows nothing and takes no receipt away leaves the count as it is.
LEMMA CountFrame ==
  ASSUME CountOK,
         \A i \in Issues : issue'[i] # "closed" => issue[i] # "closed",
         UNCHANGED <<shown, lost>>,
         \A i \in Issues : issue'[i] # "closed" => (InHand(i) => InHand(i)')
  PROVE  CountOK'
  BY DEF CountOK, Counted

\* A paste finds no receipt, and leaves one or counts as lost.
LEMMA CountPreserved ==
  ASSUME TypeOK, SendsOK, ClaimsOK, HeldOK, RowsOK, CountOK, Next
  PROVE  CountOK'
<1>1. CASE \E i \in Issues : Open(i)
  <2> PICK i \in Issues : Open(i)
    BY <1>1
  <2>1. \A j \in Issues : InHand(j) => InHand(j)'
    BY DEF Open, InHand, Given, Active, Sent, agent, locals
  <2> QED
    BY <2>1, CountFrame DEF Open, TypeOK, history
<1>2. CASE \E i \in Issues : Close(i)
  <2> PICK i \in Issues : Close(i)
    BY <1>2
  <2>1. \A j \in Issues : j # i => (InHand(j) => InHand(j)')
    BY DEF Close, TypeOK, InHand, Given, Active, Sent, agent, locals
  <2> QED
    BY <2>1, CountFrame DEF Close, TypeOK, history
<1>3. CASE \E i \in Issues : Acknowledge(i)
  <2> PICK i \in Issues : Acknowledge(i)
    BY <1>3
  <2>1. \A j \in Issues : InHand(j) => InHand(j)'
    BY DEF Acknowledge, InHand, Given, Active, Sent, agent, locals
  <2> QED
    BY <2>1, CountFrame DEF Acknowledge, history
<1>4. CASE \E i \in Issues : NewComment(i)
  <2> PICK i \in Issues : NewComment(i)
    BY <1>4
  <2>1. \A j \in Issues : InHand(j) => InHand(j)'
    BY DEF NewComment, InHand, Given, Active, Sent, agent, locals
  <2> QED
    BY <2>1, CountFrame DEF NewComment, history
<1>5. CASE \E i \in Issues : InboxAck(i)
  <2> PICK i \in Issues : InboxAck(i)
    BY <1>5
  <2>1. \A j \in Issues : j # i => (InHand(j) => InHand(j)') /\ shown'[j] = shown[j]
    BY DEF InboxAck, TypeOK, InHand, Given, Active, Sent, agent, locals
  <2>2. Given(i)'
    BY DEF InboxAck, TypeOK, Given, Active, agent
  <2>3. shown'[i] = shown[i] \/ (shown[i] = 0 /\ shown'[i] = 1)
    BY DEF InboxAck, TypeOK
  <2>4. UNCHANGED <<issue, lost>> /\ lost[i] \in Nat /\ shown[i] \in Nat
    BY DEF InboxAck, TypeOK
  <2>5. issue[i] # "closed" => Counted(i)'
    BY <2>2, <2>3, <2>4 DEF CountOK, Counted, InHand
  <2>6. \A j \in Issues : j # i /\ issue[j] # "closed" => Counted(j)'
    BY <2>1, <2>4 DEF CountOK, Counted
  <2> QED
    BY <2>4, <2>5, <2>6 DEF CountOK
<1>6. CASE \E i \in Issues : Reclaim(i)
  <2> PICK i \in Issues : Reclaim(i)
    BY <1>6
  <2>1. \A j \in Issues : InHand(j) => InHand(j)'
    BY DEF Reclaim, TypeOK, InHand, Given, Active, Sent, agent, locals
  <2> QED
    BY <2>1, CountFrame DEF Reclaim, history
<1>7. CASE \E t \in Offerers, i \in Issues : Offer(t, i)
  <2> PICK t \in Offerers, i \in Issues : Offer(t, i)
    BY <1>7
  <2>1. \A u \in Tasks : Sent(u) => Sent(u)' /\ want'[u] = want[u]
    BY DEF Offer, Asks, Listed, Sent, TypeOK, locals
  <2>2. \A j \in Issues : InHand(j) => InHand(j)'
    BY <2>1 DEF Offer, InHand, Given, Active, agent
  <2> QED
    BY <2>2, CountFrame DEF Offer, history
<1>8. CASE TurnEnds
  BY <1>8 DEF TurnEnds, TypeOK, SendsOK, ClaimsOK, HeldOK, RowsOK, CountOK, Counted, InHand,
     Sent, Given, Active, Inside, Tasks, agent, locals, history
<1>9. CASE Stop
  BY <1>9 DEF Stop, Mishap, TypeOK, SendsOK, ClaimsOK, HeldOK, RowsOK, CountOK, Counted, InHand,
     Sent, Given, Active, Inside, Tasks, agent, locals, history
<1>10. CASE Resume
  BY <1>10 DEF Resume, TypeOK, SendsOK, ClaimsOK, HeldOK, RowsOK, CountOK, Counted, InHand,
     Sent, Given, Active, Inside, Tasks, agent, locals, history
<1>11. CASE Launch
  BY <1>11 DEF Launch, Nothing, TypeOK, SendsOK, ClaimsOK, HeldOK, RowsOK, CountOK, Counted,
     InHand, Sent, Given, Active, Inside, Tasks, agent, locals, history
<1>12. CASE PendingPass
  <2> PICK i \in Issues : Pending(i)
    BY <1>12 DEF PendingPass
  <2>1. \A u \in Tasks : Sent(u) => Sent(u)' /\ want'[u] = want[u]
    BY DEF Pending, Asks, Listed, Sent, TypeOK, locals
  <2>2. \A j \in Issues : InHand(j) => InHand(j)'
    BY <2>1 DEF Pending, TypeOK, InHand, Given, Active, agent
  <2> QED
    BY <2>2, CountFrame DEF Pending, history
<1>13. CASE RetryPass
  <2> PICK i \in Issues : Retry(i)
    BY <1>13 DEF RetryPass
  <2>1. \A u \in Tasks : Sent(u) => Sent(u)' /\ want'[u] = want[u]
    BY DEF Retry, Asks, Listed, Sent, TypeOK, locals
  <2>2. \A j \in Issues : InHand(j) => InHand(j)'
    BY <2>1 DEF Retry, TypeOK, InHand, Given, Active, agent
  <2> QED
    BY <2>2, CountFrame DEF Retry, history
<1>14. CASE DrainPass
  <2> PICK i \in Issues : Drain(i)
    BY <1>14 DEF DrainPass
  <2>1. \A u \in Tasks : Sent(u) => Sent(u)' /\ want'[u] = want[u]
    BY DEF Drain, Listed, Sent, TypeOK, locals
  <2>2. \A j \in Issues : InHand(j) => InHand(j)'
    BY <2>1 DEF Drain, TypeOK, InHand, Given, Active, agent
  <2> QED
    BY <2>2, CountFrame DEF Drain, history
<1>15. CASE Crash
  <2> DEFINE cut(i) == {t \in Inside : /\ want[t] = i
                                     /\ \/ res[t] = "delivered"
                                        \/ res[t] = "uncertain" /\ pc[t] = "store"}
  <2>1. /\ lost' = [i \in Issues |-> lost[i] + Cardinality(cut(i))]
        /\ UNCHANGED <<issue, shown, slot, conv>>
        /\ \A i \in Issues : queue[i] = "held" => queue'[i] = "held"
    BY <1>15 DEF Crash, agent, TypeOK
  <2> SUFFICES ASSUME NEW i \in Issues, issue[i] # "closed" PROVE Counted(i)'
    BY <2>1 DEF CountOK
  <2>2. Counted(i)
    BY DEF CountOK
  <2>3. lost[i] \in Nat /\ shown[i] \in Nat /\ lost'[i] = lost[i] + Cardinality(cut(i))
    BY <2>1 DEF TypeOK
  <2>4. CASE cut(i) = {}
    <3>1. Cardinality(cut(i)) = 0
      BY <2>4, FS_EmptySet
    <3>2. \A t \in Tasks : ~(Sent(t) /\ want[t] = i)
      BY <2>4 DEF Sent, Inside
    <3>3. InHand(i) => InHand(i)'
      BY <2>1, <3>2 DEF InHand, Given, Active
    <3>4. shown'[i] = shown[i] /\ lost'[i] = lost[i]
      BY <2>1, <2>3, <3>1
    <3> QED
      BY <2>2, <3>3, <3>4 DEF Counted
  <2>5. CASE cut(i) # {}
    <3>1. PICK t \in cut(i) : TRUE
      BY <2>5
    <3>2. cut(i) = {t}
      BY <3>1 DEF SendsOK
    <3>3. Cardinality({t}) = 1
      BY FS_Singleton
    <3>4. lost'[i] = lost[i] + 1
      BY <2>3, <3>2, <3>3
    <3>5. shown'[i] <= lost'[i]
      BY <2>1, <2>2, <2>3, <3>4 DEF Counted
    <3> QED
      BY <3>5 DEF Counted
  <2> QED
    BY <2>4, <2>5
<1>16. CASE \E t \in Tasks : Enter(t)
  BY <1>16 DEF Enter, RowBack, Idle, Drains, TypeOK, SendsOK, ClaimsOK, HeldOK, RowsOK, CountOK,
     Counted, InHand, Sent, Given, Active, Inside, Tasks, agent, locals, history
<1>17. CASE \E t \in Tasks : Blocked(t)
  BY <1>17 DEF Blocked, Outcome, TypeOK, SendsOK, ClaimsOK, HeldOK, RowsOK, CountOK, Counted,
     InHand, Sent, Given, Active, Inside, Tasks, agent, locals, history
<1>18. CASE \E t \in Tasks : Paste(t)
  <2> PICK t \in Tasks : Paste(t)
    BY <1>18
  <2>1. /\ pc[t] = "ready" /\ t \in Inside /\ want[t] \in Issues /\ ~Sent(t)
        /\ UNCHANGED <<issue, slot, conv, queue, want, lost>>
    BY DEF Paste, Inside, SendsOK, Sent
  <2> PICK i \in Issues : want[t] = i
    BY <2>1
  <2>2. \A u \in Tasks : u # t => ~Sent(u)
    BY <2>1 DEF Sent, Inside, SendsOK
  <2>3. \A j \in Issues : InHand(j) => InHand(j)'
    BY <2>1, <2>2 DEF InHand, Given, Active
  <2>4. /\ \A j \in Issues : j # i => shown'[j] = shown[j]
        /\ shown'[i] = shown[i] \/ (shown'[i] = shown[i] + 1 /\ Sent(t)')
    BY <2>1 DEF Paste, Outcome, Sent, TypeOK
  <2>5. ~InHand(i)
    <3>1. ~Given(i) /\ queue[i] # "held"
      BY <2>1 DEF Paste, ClaimsOK
    <3> QED
      BY <2>1, <2>2, <3>1 DEF InHand
  <2>6. Sent(t)' => InHand(i)'
    BY <2>1 DEF InHand
  <2> QED
    BY <2>1, <2>3, <2>4, <2>5, <2>6 DEF CountOK, Counted, TypeOK
<1>19. CASE \E t \in Tasks : Store(t)
  <2> PICK t \in Tasks : Store(t)
    BY <1>19
  <2>1. /\ pc[t] = "store" /\ t \in Inside /\ want[t] \in Issues
        /\ UNCHANGED <<issue, slot, conv, shown>>
    BY DEF Store, Inside, SendsOK, agent
  <2> PICK i \in Issues : want[t] = i
    BY <2>1
  <2>2. \A u \in Tasks : u # t => ~Sent(u)
    BY <2>1 DEF Sent, Inside, SendsOK
  <2>3. \A j \in Issues : j # i => (InHand(j) => InHand(j)') /\ lost'[j] = lost[j]
    <3>1. \A j \in Issues : j # i => queue'[j] = queue[j] /\ lost'[j] = lost[j]
      BY DEF Store, RowBack, LostReceipt, TypeOK
    <3> QED
      BY <2>1, <2>2, <3>1 DEF InHand, Given, Active
  <2>4. \A j \in Issues : j # i /\ issue[j] # "closed" => Counted(j)'
    BY <2>1, <2>3 DEF CountOK, Counted
  <2>5. ASSUME issue[i] # "closed" PROVE Counted(i)'
    <3>1. CASE res[t] = "uncertain" /\ lost' # [lost EXCEPT ![i] = lost[i] + 1]
      <4>1. queue' = [queue EXCEPT ![i] = RowAfter(t, queue[i])] /\ lost' = lost
        BY <3>1 DEF Store, LostReceipt, TypeOK
      <4>2. Drains(t) => queue[i] = "leased"
        BY <2>1, <2>5 DEF RowsOK
      <4>3. queue'[i] = "held"
        BY <2>1, <3>1, <4>1, <4>2 DEF RowAfter, TypeOK
      <4> QED
        BY <2>1, <2>5, <4>1, <4>3 DEF CountOK, Counted, InHand
    <3>2. CASE lost' = [lost EXCEPT ![i] = lost[i] + 1]
      BY <2>1, <2>5, <3>2 DEF CountOK, Counted, TypeOK
    <3>3. CASE res[t] # "uncertain"
      <4>1. ~Sent(t) /\ lost' = lost
        BY <2>1, <3>3 DEF Store, Sent
      <4>2. queue[i] = "held" => queue'[i] = "held"
        BY <2>1, <3>3 DEF Store, RowAfter, RowBack, TypeOK
      <4> QED
        BY <2>1, <2>2, <2>5, <4>1, <4>2 DEF CountOK, Counted, InHand, Given, Active
    <3> QED
      BY <3>1, <3>2, <3>3
  <2> QED
    BY <2>1, <2>4, <2>5 DEF CountOK
<1>20. CASE \E t \in Tasks : Record(t)
  <2> PICK t \in Tasks : Record(t)
    BY <1>20
  <2>1. /\ pc[t] = "record" /\ t \in Inside /\ want[t] \in Issues
        /\ UNCHANGED <<issue, queue, shown, conv>>
    BY DEF Record, Inside, SendsOK, agent
  <2> PICK i \in Issues : want[t] = i
    BY <2>1
  <2>2. \A u \in Tasks : u # t => ~Sent(u)
    BY <2>1 DEF Sent, Inside, SendsOK
  <2>3. \A j \in Issues : j # i => (InHand(j) => InHand(j)') /\ lost'[j] = lost[j]
    BY <2>1, <2>2 DEF Record, LostReceipt, TypeOK, InHand, Given, Active, Sent
  <2>4. \/ lost' = lost
        \/ lost' = [lost EXCEPT ![i] = lost[i] + 1]
    BY Zenon DEF Record, LostReceipt
  <2>5. ASSUME lost' = lost, issue[i] # "closed" PROVE Counted(i)'
    <3>1. CASE res[t] = "delivered"
      <4>1. slot' = [slot EXCEPT ![i].is = "delivered"] /\ slot[i].is = "attempting"
        BY <2>1, <2>5, <3>1 DEF Record, LostReceipt, TypeOK
      <4>2. slot[i].conv = conv
        BY <2>1, <4>1 DEF ClaimsOK
      <4>3. Given(i)'
        BY <2>1, <4>1, <4>2 DEF TypeOK, Given, Active
      <4> QED
        BY <2>1, <2>5, <4>3 DEF CountOK, Counted, InHand
    <3>2. CASE res[t] # "delivered"
      <4>1. ~Given(i) /\ ~Sent(t)
        BY <2>1, <3>2 DEF ClaimsOK, Sent
      <4>2. InHand(i) => InHand(i)'
        BY <2>1, <2>2, <4>1 DEF InHand
      <4> QED
        BY <2>1, <2>5, <4>2 DEF CountOK, Counted
    <3> QED
      BY <3>1, <3>2
  <2>6. ASSUME lost' = [lost EXCEPT ![i] = lost[i] + 1], issue[i] # "closed"
        PROVE  Counted(i)'
    BY <2>1, <2>6 DEF CountOK, Counted, TypeOK
  <2>7. \A j \in Issues : j # i /\ issue[j] # "closed" => Counted(j)'
    BY <2>1, <2>3 DEF CountOK, Counted
  <2>8. issue[i] # "closed" => Counted(i)'
    BY <2>4, <2>5, <2>6
  <2> QED
    BY <2>1, <2>7, <2>8 DEF CountOK
<1>21. CASE \E t \in Tasks : Settle(t)
  BY <1>21 DEF Settle, RowBack, Idle, Drains, TypeOK, SendsOK, ClaimsOK, HeldOK, RowsOK,
     CountOK, Counted, InHand, Sent, Given, Active, Inside, Tasks, agent, locals, history
<1> QED
  BY <1>1, <1>2, <1>3, <1>4, <1>5, <1>6, <1>7, <1>8, <1>9, <1>10, <1>11, <1>12, <1>13, <1>14,
     <1>15, <1>16, <1>17, <1>18, <1>19, <1>20, <1>21
     DEF Next, Send, Tasks

-----------------------------------------------------------------------------
\* The inductive invariant holds throughout, for every value of the constants.
THEOREM GateInvariant == Spec => []IInv
<1>1. IInv /\ [Next]_vars => IInv'
  <2> SUFFICES ASSUME IInv, [Next]_vars PROVE IInv'
    OBVIOUS
  <2>1. CASE Next
    <3>1. TypeOK /\ WorldOK /\ NumbersOK /\ TablesOK /\ TasksOK /\ HistoryOK
      BY TypeParts DEF IInv
    <3>2. (WorldOK /\ NumbersOK /\ TablesOK /\ TasksOK /\ HistoryOK)'
      BY <2>1, <3>1, WorldPreserved, NumbersPreserved, TablesPreserved, TasksPreserved,
         HistoryPreserved DEF IInv
    <3>3. TypeOK'
      BY <3>2 DEF TypeOK, WorldOK, NumbersOK, TablesOK, TasksOK, HistoryOK
    <3>4. (SendsOK /\ ClaimsOK /\ AwaitingOK /\ HeldOK)'
      BY <2>1, SendsPreserved, ClaimsPreserved, AwaitingPreserved, HeldPreserved DEF IInv
    <3>5. (TurnOK /\ RowsOK /\ CountOK)'
      BY <2>1, TurnPreserved, RowsPreserved, CountPreserved DEF IInv
    <3> QED
      BY <3>3, <3>4, <3>5 DEF IInv
  <2>2. CASE UNCHANGED vars
    BY <2>2 DEF IInv, TypeOK, SendsOK, ClaimsOK, AwaitingOK, HeldOK, TurnOK, RowsOK, CountOK,
       Counted, InHand, Alone, Sent, Inside, Given, Active, Drains, vars, agent, locals, history
  <2> QED
    BY <2>1, <2>2
<1> QED
  BY InitInvariant, <1>1, PTL DEF Spec

\* Every variable keeps its range.
THEOREM GateTypeOK == Spec => []TypeOK
  BY GateInvariant, PTL DEF IInv

\* Of two open issues this conversation was given and has not acknowledged, one was given
\* from a listing made before the other was opened, whatever the tasks, restarts and
\* failures (_delivery.py safe_deliver).
THEOREM GateOneAtATime == Spec => []OneAtATime
<1>1. IInv => OneAtATime
  BY DEF IInv, TurnOK, OneAtATime
<1> QED
  BY GateInvariant, <1>1, PTL

\* This conversation is shown an open issue again only after a send that lost its receipt
\* (_delivery_repo.py claim, finalize).
THEOREM GateShownOnce == Spec => []ShownOnce
<1>1. IInv => ShownOnce
  BY DEF IInv, TypeOK, CountOK, Counted, OpenIssues, ShownOnce
<1> QED
  BY GateInvariant, <1>1, PTL
=============================================================================

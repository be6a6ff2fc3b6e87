------------------------- MODULE ContextOfferProofs -------------------------
(***************************************************************************)
(* A batch of events is shown to the agent once and none of its events is  *)
(* lost, whichever of the poll, the drain and the hooks gets to it, for    *)
(* any number of events, rows, hooks, polls and crashes.  The crashes and  *)
(* lease sweeps that cut a delivery off are the exception the property     *)
(* names.                                                                  *)
(***************************************************************************)
EXTENDS ContextOffer, FiniteSetTheorems, WellFoundedInduction, TLAPS

\* The type invariant in parts: the table, the files, the processes, the history.
TableTypes == status \in [Ids -> Status] /\ lines \in [Ids -> SUBSET Lines]

FileTypes == offer \in [Ids -> SUBSET Lines] /\ taken \subseteq Ids

TaskTypes ==
    /\ lock \in {Poll, Drain, NoProc}
    /\ pc \in [{Poll, Drain} ->
                 {"idle", "lock", "held", "ready", "gate", "paste", "unsure", "queue",
                  "settle", "offer", "note", "fail", "next", "claim", "receipt",
                  "clear", "mark", "release"}]

PollTypes ==
    /\ asked \subseteq Lines /\ hold \in BOOLEAN /\ saw \in BOOLEAN
    /\ settle \subseteq Ids /\ offers \subseteq Ids
    /\ polls \in Nat /\ crashes \in Nat

DrainTypes ==
    /\ todo \subseteq Ids /\ mine \subseteq Ids
    /\ cur \in Ids \cup {0} /\ copy \in [Ids -> SUBSET Lines]

HookTypes ==
    /\ tries \in [Hooks -> SUBSET Ids] /\ reads \in [Hooks -> Ids \cup {0}]
    /\ listed \subseteq Ids /\ old \subseteq Ids
    /\ agent \in {"working", "ready", "gone"}

HistoryTypes ==
    /\ byHook \in [Ids -> 0 .. 2] /\ byPaste \in [Ids -> 0 .. 2]
    /\ cutOff \subseteq Ids /\ told \subseteq Lines /\ read \subseteq Lines
    /\ noted \subseteq Lines

\* The places of the poll and of the drain under the session lock, and those where the
\* drain works on the row it has checked.
PollInside == {"held", "ready", "gate", "paste", "unsure", "queue", "settle", "offer"}
AtRow == {"ready", "claim", "paste", "unsure", "receipt"}
DrainInside == AtRow \cup {"held", "clear"}

\* Whoever is inside holds the lock. What the poll still has to settle or to offer, it has
\* only there. The drain's row is one of its batch.
PlacesOK ==
    /\ pc[Poll] \in PollInside => lock = Poll
    /\ pc[Drain] \in DrainInside => lock = Drain
    /\ pc[Poll] \in PollInside \cup {"idle", "lock", "note"}
    /\ pc[Drain] \in DrainInside \cup {"idle", "next", "lock", "mark", "release"}
    /\ settle # {} => pc[Poll] = "settle"
    /\ offers # {} => pc[Poll] \in {"settle", "offer"}
    /\ todo \subseteq mine
    /\ pc[Drain] \in DrainInside \cup {"lock", "mark"} => cur \in mine

\* There is an id left for the rows of a batch that is not queued yet.
RoomOK ==
    pc[Poll] \in {"lock", "held", "ready", "gate", "paste", "unsure", "queue"} =>
        MaxId # 0 /\ status[MaxId] = "free"

\* The text the drain leased is the row's while it is leased.
CopyOK ==
    /\ \A i \in mine : status[i] = "in_progress" => copy[i] = lines[i]
    /\ pc[Drain] \in {"ready", "claim", "paste"} => copy[cur] = lines[cur]

\* What is checked under the lock stays so until it is released: the row is leased, unless a
\* sweep has taken the lease; once its offer is claimed there is none.
RowOK ==
    /\ pc[Drain] \in AtRow => \/ status[cur] = "in_progress"
                              \/ status[cur] = "pending" /\ cur \in cutOff
    /\ pc[Drain] = "clear" => \/ status[cur] \in {"delivered", "free"}
                              \/ status[cur] = "pending" /\ cur \in cutOff
    /\ pc[Drain] \in {"paste", "unsure", "receipt", "clear"} => offer[cur] = {}
    /\ pc[Drain] = "paste" => cur \notin taken
    /\ pc[Drain] = "receipt" => cur \in taken
    /\ pc[Drain] = "mark" /\ status[cur] = "in_progress" =>
          offer[cur] = {} /\ cur \notin offers /\ lines[cur] \subseteq told

\* An offer is of a high batch that waits or is leased; a receipt, of a batch whose lines
\* were told; an id that is free has neither.
OfferOK ==
    \A i \in Ids :
        /\ offer[i] # {} \/ i \in offers =>
              status[i] \in {"pending", "in_progress"} /\ IsHigh(i)
        /\ offer[i] # {} => offer[i] = lines[i] /\ i \notin taken
        /\ i \in settle => status[i] \in {"delivered", "free"}
        /\ i \in taken => status[i] # "free"
        /\ i \in taken /\ Active(i) => byHook[i] > 0 /\ lines[i] \subseteq told /\ IsHigh(i)

\* What the prune job found finished still is; the receipts of those it has listed.
OldOK == \A i \in old : status[i] = "delivered" /\ (i \in taken => i \in listed)

\* How often a batch was shown. One that is to be offered was not, one that waits and was
\* taken by the hook has its receipt, one that was pasted is out of the queue or in the
\* drain's hands.
CountOK ==
    \A i \in Ids :
        /\ status[i] = "free" => byHook[i] = 0 /\ byPaste[i] = 0
        /\ i \notin cutOff =>
              /\ byHook[i] + byPaste[i] <= 1
              /\ offer[i] # {} => byHook[i] = 0 /\ byPaste[i] = 0
              /\ status[i] \in {"pending", "in_progress"} /\ byHook[i] > 0 => i \in taken
              /\ status[i] \in {"pending", "in_progress"} /\ byPaste[i] > 0 =>
                    i = cur /\ pc[Drain] \in {"unsure", "mark"} /\ status[i] = "in_progress"

\* The line reached the agent, was read from the inbox, or waits.
Kept(l) == l \in told \cup read \/ \E i \in Ids : Active(i) /\ l \in lines[i]

\* A batch is completed when it was told or read; what the poll has stored is kept.
KeptOK ==
    /\ \A i \in Ids : status[i] = "delivered" => lines[i] \subseteq told \cup read
    /\ \A l \in noted : Kept(l)
    /\ pc[Poll] \in {"settle", "offer", "note"} => \A l \in asked : Kept(l)

-----------------------------------------------------------------------------
(***************************************************************************)
(* Rows and ids                                                            *)
(***************************************************************************)
\* There is a highest id in use, if any is: the ids above Top are free.
LEMMA TopFree ==
  ASSUME TableTypes
  PROVE  /\ Top \in 0 .. MaxId
         /\ \A i \in Ids : i > Top => status[i] = "free"
         /\ Top # 0 => status[Top] # "free"
<1> DEFINE Used == {i \in Ids : status[i] # "free"}
<1>1. CASE Used = {}
  BY <1>1, OfferAssumption DEF Top, Ids
<1>2. CASE Used # {}
  <2> DEFINE T == {n \in Nat : \E i \in Used : n = MaxId - i}
  <2>1. T \subseteq Nat /\ T # {}
    <3>1. PICK i \in Used : TRUE
      BY <1>2
    <3>2. MaxId - i \in T
      BY OfferAssumption DEF Ids
    <3> QED
      BY <3>2
  <2>2. PICK n \in T : \A m \in T : ~ (<<m, n>> \in OpToRel(<, Nat))
    <3> HIDE DEF T
    <3> QED
      BY <2>1, WFMin, NatLessThanWellFounded
  <2>3. \A m \in T : n <= m
    <3> HIDE DEF T
    <3> SUFFICES ASSUME NEW m \in T, m < n PROVE FALSE
      BY <2>1
    <3>1. <<m, n>> \in Nat \X Nat
      BY <2>1
    <3>2. <<m, n>> \in OpToRel(<, Nat)
      BY <3>1 DEF OpToRel
    <3> QED
      BY <2>2, <3>2
  <2>4. PICK i \in Used : n = MaxId - i
    BY <2>2
  <2>5. \A j \in Used : j <= i
    <3> TAKE j \in Used
    <3>1. MaxId - j \in T
      BY OfferAssumption DEF Ids
    <3> QED
      BY <2>3, <2>4, <3>1, OfferAssumption DEF Ids
  <2>6. \E k \in Ids : status[k] # "free" /\ \A j \in Ids : status[j] # "free" => j <= k
    BY <2>4, <2>5
  <2>7. /\ Top \in Ids /\ status[Top] # "free"
        /\ \A j \in Ids : status[j] # "free" => j <= Top
    BY <1>2, <2>6 DEF Top
  <2> QED
    BY <2>7, OfferAssumption DEF Ids
<1> QED
  BY <1>1, <1>2

\* What the transaction of the poll does to the table and the files: it opens rows of free
\* ids and lets the open batch grow, by lines no row holds; it keeps rows for the inbox, or
\* completes those the hook took; it offers high batches that wait.
Queued(opened, grown, kept, fill) ==
    /\ \A i \in opened : status[i] = "free"
    /\ \A i \in grown : status[i] = "pending" /\ ~IsHigh(i) /\ i \notin kept
    /\ \A i \in kept : hold /\ status[i] \in {"pending", "in_progress", "checkpoint"}
    /\ \A i \in Ids : fill[i] # {} <=> i \in opened \cup grown
    /\ \A i, j \in Ids : i # j => fill[i] \cap fill[j] = {}
    /\ \A i \in Ids : \A l \in fill[i] : l \in asked /\ \A j \in Ids : ~Holds(j, l)
    /\ \A l \in asked : \E i \in Ids : Holds(i, l) \/ l \in fill[i]
    /\ status' = [i \in Ids |-> IF i \in opened \cup grown
                                THEN IF hold THEN "checkpoint" ELSE "pending"
                                ELSE IF i \in kept
                                     THEN IF Claim(i) = "taken" THEN "delivered" ELSE "checkpoint"
                                     ELSE status[i]]
    /\ lines' = [i \in Ids |-> IF i \in opened THEN fill[i] ELSE lines[i] \cup fill[i]]
    /\ settle' = {i \in kept : Claim(i) = "taken"}
    /\ \A i \in offers' : /\ ~hold
                          /\ \/ IsHigh(i) /\ status[i] = "pending"
                             \/ i \in opened /\ asked \subseteq High
    /\ offers' \subseteq Ids /\ asked' \subseteq asked
    /\ offer' = [i \in Ids |-> IF i \in kept THEN {} ELSE offer[i]]

LEMMA QueueFacts ==
  ASSUME TableTypes, FileTypes, PollTypes, PollQueue
  PROVE  \E opened, grown, kept \in SUBSET Ids, fill \in [Ids -> SUBSET Lines] :
            Queued(opened, grown, kept, fill)
<1> DEFINE fresh == {l \in asked : \A i \in Ids : ~Holds(i, l)}
           holders == Holders(asked)
           kept == IF hold THEN {i \in holders : status[i] \in
                                   {"pending", "in_progress", "checkpoint"}} ELSE {}
           claims == Withdraw(kept)
           settled == [i \in Ids |-> IF i \in claims[2] THEN "delivered"
                                     ELSE IF i \in kept THEN "checkpoint" ELSE status[i]]
           again == {i \in holders : IsHigh(i) /\ status[i] = "pending"}
           open == {i \in Ids : Open(i) /\ i \notin kept /\ ~(asked \subseteq High)
                                /\ \A j \in Ids : Open(j) /\ j \notin kept => j <= i}
           new == IF hold THEN "checkpoint" ELSE "pending"
<1>1. PICK into \in [fresh -> open \cup (Top + 1 .. MaxId)] :
        LET filled(i) == {l \in fresh : into[l] = i}
            opened == {i \in Top + 1 .. MaxId : filled(i) # {}}
            grown == {i \in open : filled(i) # {}}
        IN /\ status' = [i \in Ids |-> IF i \in opened \cup grown THEN new ELSE settled[i]]
           /\ lines' = [i \in Ids |-> IF i \in opened THEN filled(i)
                                      ELSE lines[i] \cup filled(i)]
           /\ offers' = IF hold \/ ~saw THEN {}
                        ELSE again \cup (IF asked \subseteq High THEN opened ELSE {})
           /\ settle' = claims[2]
           /\ offer' = Without(claims[1])
           /\ asked' \subseteq asked
  BY DEF PollQueue
<1> DEFINE fill == [i \in Ids |-> {l \in fresh : into[l] = i}]
           opened == {i \in Top + 1 .. MaxId : fill[i] # {}}
           grown == {i \in open : fill[i] # {}}
<1>2. Top + 1 .. MaxId \subseteq Ids /\ \A i \in Top + 1 .. MaxId : status[i] = "free"
  BY TopFree, OfferAssumption DEF Ids
<1>3. opened \in SUBSET Ids /\ grown \in SUBSET Ids /\ kept \in SUBSET Ids
         /\ fill \in [Ids -> SUBSET Lines]
  BY <1>2 DEF PollTypes, Holders
<1>4. /\ \A i \in opened : status[i] = "free"
      /\ \A i \in grown : status[i] = "pending" /\ ~IsHigh(i) /\ i \notin kept
      /\ \A i \in kept : hold /\ status[i] \in {"pending", "in_progress", "checkpoint"}
  BY <1>2 DEF Open
<1>5. \A i \in Ids : fill[i] # {} <=> i \in opened \cup grown
  <2> SUFFICES ASSUME NEW i \in Ids, fill[i] # {} PROVE i \in opened \cup grown
    BY <1>3
  <2>1. i \in open \cup (Top + 1 .. MaxId)
    OBVIOUS
  <2> QED
    BY <2>1
<1>6. \A i, j \in Ids : i # j => fill[i] \cap fill[j] = {}
  OBVIOUS
<1>7. \A i \in Ids : \A l \in fill[i] : l \in asked /\ \A j \in Ids : ~Holds(j, l)
  OBVIOUS
<1>8. \A l \in asked : \E i \in Ids : Holds(i, l) \/ l \in fill[i]
  <2> SUFFICES ASSUME NEW l \in fresh PROVE \E i \in Ids : l \in fill[i]
    OBVIOUS
  <2>1. into[l] \in Ids
    BY <1>2
  <2> QED
    BY <2>1
<1>9. claims[2] = {i \in kept : Claim(i) = "taken"} /\ claims[1] = {i \in kept : offer[i] # {}}
  BY DEF Withdraw, Claim
<1>10. \A i \in Ids : fill[i] = {l \in fresh : into[l] = i}
  OBVIOUS
<1>11. /\ opened = {i \in Top + 1 .. MaxId : {l \in fresh : into[l] = i} # {}}
       /\ grown = {i \in open : {l \in fresh : into[l] = i} # {}}
  BY <1>2
<1> HIDE DEF fresh, holders, kept, claims, again, open, fill, opened, grown
<1>12. status' = [i \in Ids |-> IF i \in opened \cup grown THEN new ELSE settled[i]]
  BY <1>1, <1>11
<1>13. lines' = [i \in Ids |-> IF i \in opened THEN fill[i] ELSE lines[i] \cup fill[i]]
  BY <1>1, <1>10, <1>11
<1>14. offers' \subseteq Ids
         /\ \A i \in offers' : /\ ~hold
                               /\ \/ IsHigh(i) /\ status[i] = "pending"
                                  \/ i \in opened /\ asked \subseteq High
  BY <1>1, <1>3, <1>11 DEF again, holders, Holders
<1>15. offer' = [i \in Ids |-> IF i \in kept THEN {} ELSE offer[i]]
  BY <1>1, <1>9 DEF Without
<1>16. status' = [i \in Ids |-> IF i \in opened \cup grown
                                THEN IF hold THEN "checkpoint" ELSE "pending"
                                ELSE IF i \in kept
                                     THEN IF Claim(i) = "taken" THEN "delivered" ELSE "checkpoint"
                                     ELSE status[i]]
  BY <1>9, <1>12
<1>17. settle' = {i \in kept : Claim(i) = "taken"} /\ asked' \subseteq asked
  BY <1>1, <1>9
<1> HIDE DEF new, settled
<1>18. Queued(opened, grown, kept, fill)
  BY <1>4, <1>5, <1>6, <1>7, <1>8, <1>13, <1>14, <1>15, <1>16, <1>17 DEF Queued
<1> QED
  BY <1>3, <1>18

\* A paste of the poll that is not confirmed opens a row of the lowest id above all others.
LEMMA UnsureFacts ==
  ASSUME TableTypes, RoomOK, PollUnsure
  PROVE  \E i \in Ids : /\ status[i] = "free"
                        /\ status' = [status EXCEPT ![i] = "uncertain"]
                        /\ lines' = [lines EXCEPT ![i] = asked]
                        /\ byPaste' = [byPaste EXCEPT ![i] = 1]
<1>1. MaxId \in Ids /\ status[MaxId] = "free"
  BY OfferAssumption DEF PollUnsure, RoomOK, Ids
<1>2. Top # MaxId
  BY <1>1, TopFree, OfferAssumption DEF Ids
<1>3. Top + 1 \in Ids /\ status[Top + 1] = "free"
  BY <1>2, TopFree, OfferAssumption DEF Ids
<1> QED
  BY <1>3 DEF PollUnsure

\* The prune job deletes completed rows with their history, and receipts of rows that are
\* not active.
LEMMA PruneFacts ==
  ASSUME TableTypes, HistoryTypes, OldOK, PruneRows
  PROVE  /\ \A i \in Ids :
              \/ /\ status'[i] = status[i] /\ lines'[i] = lines[i]
                 /\ byHook'[i] = byHook[i] /\ byPaste'[i] = byPaste[i]
                 /\ i \in cutOff' <=> i \in cutOff
              \/ /\ status[i] = "delivered" /\ status'[i] = "free" /\ i \notin taken'
                 /\ byHook'[i] = 0 /\ byPaste'[i] = 0
         /\ taken' \subseteq taken
         /\ \A i \in taken : Active(i) => i \in taken'
<1>1. PICK gone \in SUBSET {i \in old : status[i] = "delivered" /\ lines[i] \subseteq noted} :
         /\ status' = [i \in Ids |-> IF i \in gone THEN "free" ELSE status[i]]
         /\ lines' = [i \in Ids |-> IF i \in gone THEN {} ELSE lines[i]]
         /\ Forgotten(gone)
  BY DEF PruneRows
<1>2. taken' = PruneReceipts
  BY DEF PruneRows
<1>3. \A i \in gone : i \notin taken'
  BY <1>2 DEF PruneReceipts, OldOK, Active
<1> QED
  BY <1>1, <1>2, <1>3 DEF Forgotten, PruneReceipts, TableTypes, HistoryTypes

\* The drain is inside, or about to complete, with a row of its batch; nothing waits to be
\* offered while it is inside.
LEMMA DrainsRow ==
  ASSUME PlacesOK, DrainTypes, pc[Drain] \in DrainInside \cup {"mark"}
  PROVE  /\ cur \in Ids
         /\ pc[Drain] \in DrainInside => offers = {} /\ settle = {}
BY OfferAssumption DEF PlacesOK, DrainTypes, DrainInside, AtRow, PollInside

-----------------------------------------------------------------------------
(***************************************************************************)
(* The types, through any step                                             *)
(***************************************************************************)
\* The table keeps its types.
LEMMA TableTyped ==
  ASSUME TableTypes, FileTypes, PollTypes, Next
  PROVE  TableTypes'
<1>1. CASE (\E ls \in SUBSET Lines : PollBegin(ls)) \/ PollAcquire \/ PollHeld \/ PollReady
           \/ PollGate \/ PollPaste \/ PollFails \/ PollSettle \/ PollOffer \/ PollNote
           \/ DrainNext \/ DrainAcquire \/ DrainHeld \/ DrainReady \/ DrainClaim \/ DrainClear
           \/ (\E h \in Hooks : HookStart(h)) \/ (\E h \in Hooks : HookRead(h))
           \/ (\E h \in Hooks : HookTake(h)) \/ (\E h \in Hooks : HookDies(h)) \/ AgentMoves
           \/ SessionEnds \/ Launch \/ PruneBegin \/ Crash
  <2>1. UNCHANGED <<status, lines>>
    BY <1>1 DEF PollBegin, PollAcquire, PollHeld, PollReady, PollGate, PollPaste, PollFails,
       PollSettle, PollOffer, PollNote, DrainNext, DrainAcquire, DrainHeld, DrainReady,
       DrainClaim, DrainClear, HookStart, HookRead, HookTake, HookDies, AgentMoves, SessionEnds,
       Launch, PruneBegin, Crash, table
  <2> QED
    BY <2>1 DEF TableTypes
<1>2. CASE PollUnsure
  BY <1>2 DEF PollUnsure, TableTypes, Status, PollTypes
<1>3. CASE PollQueue
  <2> PICK opened \in SUBSET Ids, grown \in SUBSET Ids, kept \in SUBSET Ids,
           fill \in [Ids -> SUBSET Lines] : Queued(opened, grown, kept, fill)
    BY <1>3, QueueFacts
  <2> QED
    BY DEF Queued, TableTypes, Status
<1>4. CASE DrainStart
  BY <1>4 DEF DrainStart, TableTypes, Status
<1>5. CASE DrainPaste
  BY <1>5 DEF DrainPaste, TableTypes, Status
<1>6. CASE DrainUnsure
  BY <1>6 DEF DrainUnsure, TableTypes, Status
<1>7. CASE DrainReceipt
  BY <1>7 DEF DrainReceipt, Completed, TableTypes, Status
<1>8. CASE DrainMark
  BY <1>8 DEF DrainMark, Completed, TableTypes, Status
<1>9. CASE DrainRelease
  BY <1>9 DEF DrainRelease, TableTypes, Status
<1>10. CASE \E i \in Ids : InboxAck(i)
  BY <1>10 DEF InboxAck, TableTypes, Status
<1>11. CASE SweepLeases
  BY <1>11 DEF SweepLeases, TableTypes, Status
<1>12. CASE PruneRows
  BY <1>12 DEF PruneRows, PruneReceipts, Forgotten, TableTypes, Status
<1> QED
  BY <1>1, <1>2, <1>3, <1>4, <1>5, <1>6, <1>7, <1>8, <1>9, <1>10, <1>11, <1>12
     DEF Next, PollStep, DrainStep, HookStep

\* The files keep their types.
LEMMA FilesTyped ==
  ASSUME TableTypes, FileTypes, PollTypes, HookTypes, Next
  PROVE  FileTypes'
<1>1. CASE (\E ls \in SUBSET Lines : PollBegin(ls)) \/ PollAcquire \/ PollHeld \/ PollReady
           \/ PollGate \/ PollPaste \/ PollFails \/ PollUnsure \/ PollNote \/ DrainStart
           \/ DrainNext \/ DrainAcquire \/ DrainHeld \/ DrainReady \/ DrainPaste \/ DrainUnsure
           \/ DrainReceipt \/ DrainMark \/ DrainRelease \/ (\E h \in Hooks : HookStart(h))
           \/ (\E h \in Hooks : HookRead(h)) \/ (\E h \in Hooks : HookDies(h)) \/ AgentMoves
           \/ SessionEnds \/ (\E i \in Ids : InboxAck(i)) \/ SweepLeases \/ PruneBegin \/ Crash
  <2>1. UNCHANGED <<offer, taken>>
    BY <1>1 DEF PollBegin, PollAcquire, PollHeld, PollReady, PollGate, PollPaste, PollFails,
       PollUnsure, PollNote, DrainStart, DrainNext, DrainAcquire, DrainHeld, DrainReady,
       DrainPaste, DrainUnsure, DrainReceipt, DrainMark, DrainRelease, HookStart, HookRead,
       HookDies, AgentMoves, SessionEnds, InboxAck, SweepLeases, PruneBegin, Crash, files
  <2> QED
    BY <2>1 DEF FileTypes
<1>2. CASE PollQueue
  <2> PICK opened \in SUBSET Ids, grown \in SUBSET Ids, kept \in SUBSET Ids,
           fill \in [Ids -> SUBSET Lines] : Queued(opened, grown, kept, fill)
    BY <1>2, QueueFacts
  <2>1. taken' = taken
    BY <1>2 DEF PollQueue
  <2> QED
    BY <2>1 DEF Queued, FileTypes
<1>3. CASE PollSettle
  BY <1>3 DEF PollSettle, Without, files, FileTypes
<1>4. CASE PollOffer
  BY <1>4 DEF PollOffer, TableTypes, FileTypes
<1>5. CASE DrainClaim
  BY <1>5 DEF DrainClaim, Without, FileTypes
<1>6. CASE DrainClear
  BY <1>6 DEF DrainClear, Without, FileTypes
<1>7. CASE \E h \in Hooks : HookTake(h)
  BY <1>7 DEF HookTake, Without, files, FileTypes, HookTypes
<1>8. CASE Launch
  BY <1>8 DEF Launch, ClearAgentContext, Without, FileTypes
<1>9. CASE PruneRows
  BY <1>9 DEF PruneRows, PruneReceipts, Forgotten, TableTypes, FileTypes, PollTypes,
     HookTypes
<1> QED
  BY <1>1, <1>2, <1>3, <1>4, <1>5, <1>6, <1>7, <1>8, <1>9
     DEF Next, PollStep, DrainStep, HookStep

\* The lock and the places keep their types.
LEMMA TasksTyped ==
  ASSUME TaskTypes, Next
  PROVE  TaskTypes'
<1>1. CASE (\E h \in Hooks : HookStart(h)) \/ (\E h \in Hooks : HookRead(h))
           \/ (\E h \in Hooks : HookTake(h)) \/ (\E h \in Hooks : HookDies(h)) \/ AgentMoves
           \/ SessionEnds \/ Launch \/ (\E i \in Ids : InboxAck(i)) \/ SweepLeases \/ PruneBegin
           \/ PruneRows
  <2>1. UNCHANGED <<lock, pc>>
    BY <1>1 DEF HookStart, HookRead, HookTake, HookDies, AgentMoves, SessionEnds, Launch,
       InboxAck, SweepLeases, PruneBegin, PruneRows
  <2> QED
    BY <2>1 DEF TaskTypes
<1>2. CASE \E ls \in SUBSET Lines : PollBegin(ls)
  BY <1>2 DEF PollBegin, Goto, TaskTypes
<1>3. CASE PollAcquire
  BY <1>3 DEF PollAcquire, Acquire, Goto, TaskTypes
<1>4. CASE PollHeld
  BY <1>4 DEF PollHeld, Goto, TaskTypes
<1>5. CASE PollReady
  BY <1>5 DEF PollReady, Goto, TaskTypes
<1>6. CASE PollGate
  BY <1>6 DEF PollGate, Goto, TaskTypes
<1>7. CASE PollPaste
  BY <1>7 DEF PollPaste, Goto, TaskTypes
<1>8. CASE PollFails
  BY <1>8 DEF PollFails, PollDone, Goto, TaskTypes
<1>9. CASE PollUnsure
  BY <1>9 DEF PollUnsure, Goto, TaskTypes
<1>10. CASE PollQueue
  BY <1>10 DEF PollQueue, Goto, TaskTypes
<1>11. CASE PollSettle
  BY <1>11 DEF PollSettle, Goto, TaskTypes
<1>12. CASE PollOffer
  BY <1>12 DEF PollOffer, Goto, TaskTypes
<1>13. CASE PollNote
  BY <1>13 DEF PollNote, PollDone, Goto, TaskTypes
<1>14. CASE DrainStart
  BY <1>14 DEF DrainStart, Goto, TaskTypes
<1>15. CASE DrainNext
  BY <1>15 DEF DrainNext, Goto, TaskTypes
<1>16. CASE DrainAcquire
  BY <1>16 DEF DrainAcquire, Acquire, Goto, TaskTypes
<1>17. CASE DrainHeld
  BY <1>17 DEF DrainHeld, Goto, Stop, TaskTypes
<1>18. CASE DrainReady
  BY <1>18 DEF DrainReady, Goto, Stop, TaskTypes
<1>19. CASE DrainClaim
  BY <1>19 DEF DrainClaim, Goto, TaskTypes
<1>20. CASE DrainPaste
  BY <1>20 DEF DrainPaste, Goto, Stop, TaskTypes
<1>21. CASE DrainUnsure
  BY <1>21 DEF DrainUnsure, Goto, Stop, TaskTypes
<1>22. CASE DrainReceipt
  BY <1>22 DEF DrainReceipt, Goto, TaskTypes
<1>23. CASE DrainClear
  BY <1>23 DEF DrainClear, Goto, TaskTypes
<1>24. CASE DrainMark
  BY <1>24 DEF DrainMark, Goto, TaskTypes
<1>25. CASE DrainRelease
  BY <1>25 DEF DrainRelease, Goto, TaskTypes
<1>26. CASE Crash
  BY <1>26, OfferAssumption DEF Crash, TaskTypes
<1> QED
  BY <1>1, <1>2, <1>3, <1>4, <1>5, <1>6, <1>7, <1>8, <1>9, <1>10, <1>11, <1>12, <1>13,
     <1>14, <1>15, <1>16, <1>17, <1>18, <1>19, <1>20, <1>21, <1>22, <1>23, <1>24, <1>25, <1>26
     DEF Next, PollStep, DrainStep, HookStep

\* What the poll remembers keeps its types.
LEMMA PollTyped ==
  ASSUME TableTypes, FileTypes, PollTypes, Next
  PROVE  PollTypes'
<1>1. CASE PollAcquire \/ PollGate \/ PollUnsure \/ DrainStart \/ DrainNext \/ DrainAcquire
           \/ DrainHeld \/ DrainReady \/ DrainClaim \/ DrainPaste \/ DrainUnsure \/ DrainReceipt
           \/ DrainClear \/ DrainMark \/ DrainRelease \/ (\E h \in Hooks : HookStart(h))
           \/ (\E h \in Hooks : HookRead(h)) \/ (\E h \in Hooks : HookTake(h))
           \/ (\E h \in Hooks : HookDies(h)) \/ AgentMoves \/ SessionEnds \/ Launch
           \/ (\E i \in Ids : InboxAck(i)) \/ SweepLeases \/ PruneBegin \/ PruneRows
  <2>1. UNCHANGED <<asked, hold, saw, settle, offers, polls, crashes>>
    BY <1>1 DEF PollAcquire, PollGate, PollUnsure, DrainStart, DrainNext, DrainAcquire,
       DrainHeld, DrainReady, DrainClaim, DrainPaste, DrainUnsure, DrainReceipt, DrainClear,
       DrainMark, DrainRelease, HookStart, HookRead, HookTake, HookDies, AgentMoves, SessionEnds,
       Launch, InboxAck, SweepLeases, PruneBegin, PruneRows, pollvars, counters
  <2> QED
    BY <2>1 DEF PollTypes
<1>2. CASE \E ls \in SUBSET Lines : PollBegin(ls)
  <2>1. polls' \in Nat /\ crashes' \in Nat
    BY <1>2 DEF PollBegin, PollTypes
  <2>2. asked' \subseteq Lines /\ hold' \in BOOLEAN /\ saw' \in BOOLEAN /\ settle' \subseteq Ids
           /\ offers' \subseteq Ids
    BY <1>2 DEF PollBegin, PollTypes
  <2> QED
    BY <2>1, <2>2 DEF PollTypes
<1>3. CASE PollHeld
  BY <1>3 DEF PollHeld, PollTypes, counters
<1>4. CASE PollReady
  BY <1>4 DEF PollReady, PollTypes, counters
<1>5. CASE PollPaste
  BY <1>5 DEF PollPaste, PollTypes, counters
<1>6. CASE PollFails
  BY <1>6 DEF PollFails, PollDone, PollTypes, counters
<1>7. CASE PollQueue
  <2> PICK opened \in SUBSET Ids, grown \in SUBSET Ids, kept \in SUBSET Ids,
           fill \in [Ids -> SUBSET Lines] : Queued(opened, grown, kept, fill)
    BY <1>7, QueueFacts
  <2>1. UNCHANGED <<hold, saw, polls, crashes>>
    BY <1>7 DEF PollQueue, counters
  <2> QED
    BY <2>1 DEF Queued, PollTypes
<1>8. CASE PollSettle
  BY <1>8 DEF PollSettle, PollTypes, counters
<1>9. CASE PollOffer
  BY <1>9 DEF PollOffer, PollTypes, counters
<1>10. CASE PollNote
  BY <1>10 DEF PollNote, PollDone, PollTypes, counters
<1>11. CASE Crash
  <2>1. polls' \in Nat /\ crashes' \in Nat
    BY <1>11 DEF Crash, PollTypes
  <2>2. asked' \subseteq Lines /\ hold' \in BOOLEAN /\ saw' \in BOOLEAN /\ settle' \subseteq Ids
           /\ offers' \subseteq Ids
    BY <1>11 DEF Crash, PollTypes
  <2> QED
    BY <2>1, <2>2 DEF PollTypes
<1> QED
  BY <1>1, <1>2, <1>3, <1>4, <1>5, <1>6, <1>7, <1>8, <1>9, <1>10, <1>11
     DEF Next, PollStep, DrainStep, HookStep

\* What the drain remembers keeps its types.
LEMMA DrainTyped ==
  ASSUME TableTypes, DrainTypes, Next
  PROVE  DrainTypes'
<1>1. CASE (\E ls \in SUBSET Lines : PollBegin(ls)) \/ PollAcquire \/ PollHeld \/ PollReady
           \/ PollGate \/ PollPaste \/ PollFails \/ PollUnsure \/ PollQueue \/ PollSettle
           \/ PollOffer \/ PollNote \/ DrainAcquire \/ DrainHeld \/ DrainReady \/ DrainClaim
           \/ DrainPaste \/ DrainUnsure \/ DrainReceipt \/ DrainClear \/ DrainMark
           \/ (\E h \in Hooks : HookStart(h)) \/ (\E h \in Hooks : HookRead(h))
           \/ (\E h \in Hooks : HookTake(h)) \/ (\E h \in Hooks : HookDies(h)) \/ AgentMoves
           \/ SessionEnds \/ Launch \/ (\E i \in Ids : InboxAck(i)) \/ SweepLeases \/ PruneBegin
           \/ PruneRows
  <2>1. UNCHANGED <<todo, mine, cur, copy>>
    BY <1>1 DEF PollBegin, PollAcquire, PollHeld, PollReady, PollGate, PollPaste, PollFails,
       PollUnsure, PollQueue, PollSettle, PollOffer, PollNote, DrainAcquire, DrainHeld,
       DrainReady, DrainClaim, DrainPaste, DrainUnsure, DrainReceipt, DrainClear, DrainMark,
       HookStart, HookRead, HookTake, HookDies, AgentMoves, SessionEnds, Launch, InboxAck,
       SweepLeases, PruneBegin, PruneRows, drainvars
  <2> QED
    BY <2>1 DEF DrainTypes
<1>2. CASE DrainStart
  BY <1>2 DEF DrainStart, TableTypes, DrainTypes
<1>3. CASE DrainNext
  BY <1>3 DEF DrainNext, DrainTypes
<1>4. CASE DrainRelease
  BY <1>4 DEF DrainRelease, DrainTypes
<1>5. CASE Crash
  BY <1>5 DEF Crash, TableTypes, DrainTypes
<1> QED
  BY <1>1, <1>2, <1>3, <1>4, <1>5
     DEF Next, PollStep, DrainStep, HookStep

\* The hooks, the session and the prune job keep their types.
LEMMA HooksTyped ==
  ASSUME FileTypes, HookTypes, Next
  PROVE  HookTypes'
<1>1. CASE (\E ls \in SUBSET Lines : PollBegin(ls)) \/ PollAcquire \/ PollHeld \/ PollReady
           \/ PollGate \/ PollFails \/ PollUnsure \/ PollQueue \/ PollSettle \/ PollOffer
           \/ PollNote \/ DrainStart \/ DrainNext \/ DrainAcquire \/ DrainHeld \/ DrainReady
           \/ DrainClaim \/ DrainUnsure \/ DrainReceipt \/ DrainClear \/ DrainMark \/ DrainRelease
           \/ (\E i \in Ids : InboxAck(i)) \/ SweepLeases
  <2>1. UNCHANGED <<tries, reads, listed, old, agent>>
    BY <1>1 DEF PollBegin, PollAcquire, PollHeld, PollReady, PollGate, PollFails, PollUnsure,
       PollQueue, PollSettle, PollOffer, PollNote, DrainStart, DrainNext, DrainAcquire,
       DrainHeld, DrainReady, DrainClaim, DrainUnsure, DrainReceipt, DrainClear, DrainMark,
       DrainRelease, InboxAck, SweepLeases, hookvars, prunevars
  <2> QED
    BY <2>1 DEF HookTypes
<1>2. CASE PollPaste
  BY <1>2 DEF PollPaste, HookTypes, hookvars, prunevars
<1>3. CASE DrainPaste
  BY <1>3 DEF DrainPaste, HookTypes, hookvars, prunevars
<1>4. CASE \E h \in Hooks : HookStart(h)
  BY <1>4 DEF HookStart, HookTypes, prunevars
<1>5. CASE \E h \in Hooks : HookRead(h)
  BY <1>5 DEF HookRead, HookTypes, prunevars
<1>6. CASE \E h \in Hooks : HookTake(h)
  BY <1>6 DEF HookTake, HookTypes, prunevars
<1>7. CASE \E h \in Hooks : HookDies(h)
  BY <1>7 DEF HookDies, HookTypes, prunevars
<1>8. CASE AgentMoves
  BY <1>8 DEF AgentMoves, HookTypes, hookvars, prunevars
<1>9. CASE SessionEnds
  BY <1>9 DEF SessionEnds, HookTypes, prunevars
<1>10. CASE Launch
  BY <1>10 DEF Launch, HookTypes, hookvars, prunevars
<1>11. CASE PruneBegin
  BY <1>11 DEF PruneBegin, FileTypes, HookTypes, hookvars
<1>12. CASE PruneRows
  BY <1>12 DEF PruneRows, HookTypes, hookvars
<1>13. CASE Crash
  BY <1>13 DEF Crash, FileTypes, HookTypes, hookvars
<1> QED
  BY <1>1, <1>2, <1>3, <1>4, <1>5, <1>6, <1>7, <1>8, <1>9, <1>10, <1>11, <1>12, <1>13
     DEF Next, PollStep, DrainStep, HookStep

\* The history keeps its types.
LEMMA HistoryTyped ==
  ASSUME TableTypes, FileTypes, PollTypes, DrainTypes, HookTypes, HistoryTypes, PlacesOK, Next
  PROVE  HistoryTypes'
<1>1. CASE (\E ls \in SUBSET Lines : PollBegin(ls)) \/ PollAcquire \/ PollHeld \/ PollReady
           \/ PollGate \/ PollFails \/ PollQueue \/ PollSettle \/ PollOffer \/ DrainStart
           \/ DrainNext \/ DrainAcquire \/ DrainHeld \/ DrainReady \/ DrainClaim \/ DrainUnsure
           \/ DrainReceipt \/ DrainClear \/ DrainMark \/ DrainRelease
           \/ (\E h \in Hooks : HookStart(h)) \/ (\E h \in Hooks : HookRead(h))
           \/ (\E h \in Hooks : HookDies(h)) \/ AgentMoves \/ SessionEnds \/ Launch \/ PruneBegin
  <2>1. UNCHANGED <<byHook, byPaste, cutOff, told, read, noted>>
    BY <1>1 DEF PollBegin, PollAcquire, PollHeld, PollReady, PollGate, PollFails, PollQueue,
       PollSettle, PollOffer, DrainStart, DrainNext, DrainAcquire, DrainHeld, DrainReady,
       DrainClaim, DrainUnsure, DrainReceipt, DrainClear, DrainMark, DrainRelease, HookStart,
       HookRead, HookDies, AgentMoves, SessionEnds, Launch, PruneBegin, history
  <2> QED
    BY <2>1 DEF HistoryTypes
<1>2. CASE PollPaste
  BY <1>2 DEF PollPaste, PollTypes, HistoryTypes
<1>3. CASE PollUnsure
  <2>1. byPaste' \in [Ids -> 0 .. 2]
    <3>1. 1 \in 0 .. 2
      OBVIOUS
    <3> QED
      BY <1>3, <3>1 DEF PollUnsure, HistoryTypes
  <2> QED
    BY <1>3, <2>1 DEF PollUnsure, HistoryTypes
<1>4. CASE PollNote
  BY <1>4 DEF PollNote, PollTypes, HistoryTypes, history
<1>5. CASE DrainPaste
  <2>1. cur \in Ids /\ copy[cur] \subseteq Lines
    BY <1>5 DEF DrainPaste, PlacesOK, DrainTypes, DrainInside, AtRow
  <2>2. byPaste' \in [Ids -> 0 .. 2]
    BY <1>5 DEF DrainPaste, Seen, HistoryTypes
  <2>3. told' \subseteq Lines
    BY <1>5, <2>1 DEF DrainPaste, HistoryTypes
  <2> QED
    BY <1>5, <2>2, <2>3 DEF DrainPaste, HistoryTypes
<1>6. CASE \E h \in Hooks : HookTake(h)
  BY <1>6 DEF HookTake, Seen, FileTypes, HookTypes, HistoryTypes
<1>7. CASE \E i \in Ids : InboxAck(i)
  BY <1>7 DEF InboxAck, TableTypes, HistoryTypes
<1>8. CASE SweepLeases
  <2>1. cutOff' \subseteq Ids
    BY <1>8 DEF SweepLeases, PlacesOK, DrainInside, AtRow, DrainTypes, HistoryTypes
  <2> QED
    BY <1>8, <2>1 DEF SweepLeases, HistoryTypes
<1>9. CASE PruneRows
  BY <1>9 DEF PruneRows, Forgotten, HistoryTypes
<1>10. CASE Crash
  <2>1. cutOff' \subseteq Ids
    BY <1>10 DEF Crash, PlacesOK, DrainInside, AtRow, DrainTypes, HistoryTypes
  <2> QED
    BY <1>10, <2>1 DEF Crash, HistoryTypes
<1> QED
  BY <1>1, <1>2, <1>3, <1>4, <1>5, <1>6, <1>7, <1>8, <1>9, <1>10
     DEF Next, PollStep, DrainStep, HookStep

-----------------------------------------------------------------------------
(***************************************************************************)
(* The places and the drain's row, through any step                        *)
(***************************************************************************)
\* Who is inside holds the lock, through any step.
LEMMA PlacesKept ==
  ASSUME TaskTypes, PollTypes, DrainTypes, PlacesOK, Next
  PROVE  PlacesOK'
<1>1. CASE (\E h \in Hooks : HookStart(h)) \/ (\E h \in Hooks : HookRead(h))
           \/ (\E h \in Hooks : HookTake(h)) \/ (\E h \in Hooks : HookDies(h)) \/ AgentMoves
           \/ SessionEnds \/ Launch \/ (\E i \in Ids : InboxAck(i)) \/ SweepLeases \/ PruneBegin
           \/ PruneRows
  <2>1. UNCHANGED <<lock, pc, settle, offers, todo, mine, cur>>
    BY <1>1 DEF HookStart, HookRead, HookTake, HookDies, AgentMoves, SessionEnds, Launch,
       InboxAck, SweepLeases, PruneBegin, PruneRows, pollvars, drainvars
  <2> QED
    BY <2>1 DEF PlacesOK
<1>2. CASE \E ls \in SUBSET Lines : PollBegin(ls)
  BY <1>2, OfferAssumption DEF PollBegin, Goto, PlacesOK, PollInside, drainvars
<1>3. CASE PollAcquire
  BY <1>3, OfferAssumption DEF PollAcquire, Acquire, Goto, PlacesOK, PollInside, pollvars,
     drainvars
<1>4. CASE PollHeld
  BY <1>4, OfferAssumption DEF PollHeld, Goto, PlacesOK, PollInside, drainvars
<1>5. CASE PollReady
  BY <1>5, OfferAssumption DEF PollReady, Goto, PlacesOK, PollInside, drainvars
<1>6. CASE PollGate
  BY <1>6 DEF PollGate, Goto, PlacesOK, PollInside, DrainInside, AtRow, pollvars, drainvars
<1>7. CASE PollPaste
  BY <1>7, OfferAssumption DEF PollPaste, Goto, TaskTypes, PlacesOK, PollInside, drainvars
<1>8. CASE PollFails
  BY <1>8 DEF PollFails, PollDone, Goto, TaskTypes, PlacesOK, PollInside, DrainInside,
     AtRow, drainvars
<1>9. CASE PollUnsure
  BY <1>9, OfferAssumption DEF PollUnsure, Goto, TaskTypes, PlacesOK, PollInside, pollvars,
     drainvars
<1>10. CASE PollQueue
  <2>1. /\ pc[Poll] = "queue" /\ pc' = [pc EXCEPT ![Poll] = "settle"]
        /\ UNCHANGED <<lock, todo, mine, cur>>
    BY <1>10 DEF PollQueue, Goto, drainvars
  <2> QED
    BY <2>1, OfferAssumption DEF PlacesOK, TaskTypes, PollInside, DrainInside, AtRow
<1>11. CASE PollSettle
  BY <1>11 DEF PollSettle, Goto, TaskTypes, PlacesOK, PollInside, DrainInside, AtRow,
     drainvars
<1>12. CASE PollOffer
  BY <1>12 DEF PollOffer, Goto, TaskTypes, PlacesOK, PollInside, DrainInside, AtRow,
     drainvars
<1>13. CASE PollNote
  BY <1>13 DEF PollNote, PollDone, Goto, PlacesOK, PollInside, drainvars
<1>14. CASE DrainStart
  BY <1>14, OfferAssumption DEF DrainStart, Goto, PlacesOK, DrainInside, AtRow, pollvars
<1>15. CASE DrainNext
  BY <1>15 DEF DrainNext, Goto, TaskTypes, PlacesOK, PollInside, DrainInside, AtRow,
     pollvars
<1>16. CASE DrainAcquire
  BY <1>16, OfferAssumption DEF DrainAcquire, Acquire, Goto, PlacesOK, DrainInside,
     pollvars, drainvars
<1>17. CASE DrainHeld
  BY <1>17, OfferAssumption DEF DrainHeld, Goto, Stop, TaskTypes, PlacesOK, DrainInside,
     AtRow, pollvars, drainvars
<1>18. CASE DrainReady
  BY <1>18, OfferAssumption DEF DrainReady, Goto, Stop, TaskTypes, PlacesOK, DrainInside,
     AtRow, pollvars, drainvars
<1>19. CASE DrainClaim
  BY <1>19 DEF DrainClaim, Goto, PlacesOK, PollInside, DrainInside, AtRow, pollvars,
     drainvars
<1>20. CASE DrainPaste
  BY <1>20, OfferAssumption DEF DrainPaste, Goto, Stop, TaskTypes, PlacesOK, DrainInside,
     AtRow, pollvars, drainvars
<1>21. CASE DrainUnsure
  BY <1>21, OfferAssumption DEF DrainUnsure, Goto, Stop, TaskTypes, PlacesOK, DrainInside,
     AtRow, pollvars, drainvars
<1>22. CASE DrainReceipt
  BY <1>22 DEF DrainReceipt, Goto, PlacesOK, PollInside, DrainInside, pollvars, drainvars
<1>23. CASE DrainClear
  BY <1>23 DEF DrainClear, Goto, TaskTypes, PlacesOK, PollInside, DrainInside, AtRow,
     pollvars, drainvars
<1>24. CASE DrainMark
  BY <1>24 DEF DrainMark, Goto, PlacesOK, PollInside, DrainInside, AtRow, pollvars,
     drainvars
<1>25. CASE DrainRelease
  BY <1>25 DEF DrainRelease, Goto, PlacesOK, DrainInside, AtRow, pollvars
<1>26. CASE Crash
  BY <1>26, OfferAssumption DEF Crash, TaskTypes, PollTypes, DrainTypes, PlacesOK,
     PollInside, DrainInside, AtRow
<1> QED
  BY <1>1, <1>2, <1>3, <1>4, <1>5, <1>6, <1>7, <1>8, <1>9, <1>10, <1>11, <1>12, <1>13,
     <1>14, <1>15, <1>16, <1>17, <1>18, <1>19, <1>20, <1>21, <1>22, <1>23, <1>24, <1>25, <1>26
     DEF Next, PollStep, DrainStep, HookStep

\* There is room for the batch, through any step.
LEMMA RoomKept ==
  ASSUME TableTypes, TaskTypes, RoomOK, Next
  PROVE  RoomOK'
<1>1. CASE (\E h \in Hooks : HookStart(h)) \/ (\E h \in Hooks : HookRead(h))
           \/ (\E h \in Hooks : HookTake(h)) \/ (\E h \in Hooks : HookDies(h)) \/ AgentMoves
           \/ SessionEnds \/ Launch \/ PruneBegin
  <2>1. UNCHANGED <<status, pc>>
    BY <1>1 DEF HookStart, HookRead, HookTake, HookDies, AgentMoves, SessionEnds, Launch,
       PruneBegin, table
  <2> QED
    BY <2>1 DEF RoomOK, Ids
<1>2. CASE \E ls \in SUBSET Lines : PollBegin(ls)
  <2> PICK ls \in SUBSET Lines : PollBegin(ls)
    BY <1>2
  <2>1. ls # {} /\ Cardinality(ls) <= MaxId - Top /\ UNCHANGED status
    BY DEF PollBegin, table
  <2>2. Cardinality(ls) \in Nat /\ Cardinality(ls) # 0
    BY <2>1, OfferAssumption, FS_Subset, FS_CardinalityType, FS_EmptySet
  <2>3. MaxId # 0 /\ MaxId > Top /\ MaxId \in Ids
    BY <2>1, <2>2, TopFree, OfferAssumption DEF Ids
  <2> QED
    BY <2>1, <2>3, TopFree DEF RoomOK
<1>3. CASE PollAcquire
  BY <1>3, OfferAssumption DEF PollAcquire, Acquire, RoomOK, table
<1>4. CASE PollHeld
  BY <1>4, OfferAssumption DEF PollHeld, RoomOK, table
<1>5. CASE PollReady
  BY <1>5, OfferAssumption DEF PollReady, RoomOK, table
<1>6. CASE PollGate
  BY <1>6, OfferAssumption DEF PollGate, RoomOK, table
<1>7. CASE PollPaste
  BY <1>7, OfferAssumption DEF PollPaste, RoomOK, table
<1>8. CASE PollFails
  BY <1>8, OfferAssumption DEF PollFails, RoomOK, table
<1>9. CASE PollUnsure
  <2>1. pc'[Poll] = "note"
    BY <1>9 DEF PollUnsure, Goto, TaskTypes
  <2> QED
    BY <2>1 DEF RoomOK
<1>10. CASE PollQueue
  <2>1. pc'[Poll] = "settle"
    BY <1>10 DEF PollQueue, Goto, TaskTypes
  <2> QED
    BY <2>1 DEF RoomOK
<1>11. CASE PollSettle
  BY <1>11, OfferAssumption DEF PollSettle, Goto, TaskTypes, RoomOK
<1>12. CASE PollOffer
  BY <1>12, OfferAssumption DEF PollOffer, Goto, TaskTypes, RoomOK
<1>13. CASE PollNote
  BY <1>13, OfferAssumption DEF PollNote, PollDone, Goto, RoomOK
<1>14. CASE DrainStart
  BY <1>14, OfferAssumption DEF DrainStart, Goto, RoomOK, Ids
<1>15. CASE DrainNext
  BY <1>15, OfferAssumption DEF DrainNext, Goto, TaskTypes, RoomOK, table
<1>16. CASE DrainAcquire
  BY <1>16, OfferAssumption DEF DrainAcquire, Acquire, Goto, RoomOK, table
<1>17. CASE DrainHeld
  BY <1>17, OfferAssumption DEF DrainHeld, Goto, Stop, TaskTypes, RoomOK, table
<1>18. CASE DrainReady
  BY <1>18, OfferAssumption DEF DrainReady, Goto, Stop, TaskTypes, RoomOK, table
<1>19. CASE DrainClaim
  BY <1>19, OfferAssumption DEF DrainClaim, Goto, RoomOK, table
<1>20. CASE DrainPaste
  BY <1>20, OfferAssumption DEF DrainPaste, Goto, Stop, TableTypes, TaskTypes, RoomOK, Ids
<1>21. CASE DrainUnsure
  BY <1>21, OfferAssumption DEF DrainUnsure, Goto, Stop, RoomOK
<1>22. CASE DrainReceipt
  BY <1>22, OfferAssumption DEF DrainReceipt, Completed, Goto, RoomOK
<1>23. CASE DrainClear
  BY <1>23, OfferAssumption DEF DrainClear, Goto, RoomOK, table
<1>24. CASE DrainMark
  BY <1>24, OfferAssumption DEF DrainMark, Completed, Goto, RoomOK
<1>25. CASE DrainRelease
  BY <1>25, OfferAssumption DEF DrainRelease, Goto, RoomOK, Ids
<1>26. CASE \E i \in Ids : InboxAck(i)
  BY <1>26, OfferAssumption DEF InboxAck, Held, RoomOK
<1>27. CASE SweepLeases
  BY <1>27, OfferAssumption DEF SweepLeases, RoomOK, Ids
<1>28. CASE PruneRows
  BY <1>28, OfferAssumption DEF PruneRows, RoomOK, Ids
<1>29. CASE Crash
  BY <1>29, OfferAssumption DEF Crash, TableTypes, TaskTypes, RoomOK, Ids, table
<1> QED
  BY <1>1, <1>2, <1>3, <1>4, <1>5, <1>6, <1>7, <1>8, <1>9, <1>10, <1>11, <1>12, <1>13,
     <1>14, <1>15, <1>16, <1>17, <1>18, <1>19, <1>20, <1>21, <1>22, <1>23, <1>24, <1>25, <1>26,
     <1>27, <1>28, <1>29
     DEF Next, PollStep, DrainStep, HookStep

\* The text of the drain, through any step.
LEMMA CopyKept ==
  ASSUME TableTypes, FileTypes, TaskTypes, PollTypes, DrainTypes, PlacesOK, RoomOK, RowOK,
         CopyOK, Next
  PROVE  CopyOK'
<1>1. CASE (\E h \in Hooks : HookStart(h)) \/ (\E h \in Hooks : HookRead(h))
           \/ (\E h \in Hooks : HookTake(h)) \/ (\E h \in Hooks : HookDies(h)) \/ AgentMoves
           \/ SessionEnds \/ Launch \/ PruneBegin
  <2>1. UNCHANGED <<status, lines, pc, mine, cur, copy>>
    BY <1>1 DEF HookStart, HookRead, HookTake, HookDies, AgentMoves, SessionEnds, Launch,
       PruneBegin, table, drainvars
  <2> QED
    BY <2>1 DEF CopyOK
<1>2. CASE \E ls \in SUBSET Lines : PollBegin(ls)
  BY <1>2 DEF PollBegin, Goto, PlacesOK, CopyOK, table, drainvars
<1>3. CASE PollAcquire
  BY <1>3 DEF PollAcquire, Acquire, Goto, PlacesOK, CopyOK, table, drainvars
<1>4. CASE PollHeld
  BY <1>4, OfferAssumption DEF PollHeld, Goto, PlacesOK, CopyOK, table, drainvars
<1>5. CASE PollReady
  BY <1>5 DEF PollReady, Goto, PlacesOK, CopyOK, table, drainvars
<1>6. CASE PollGate
  BY <1>6 DEF PollGate, Goto, PlacesOK, CopyOK, DrainInside, AtRow, table, drainvars
<1>7. CASE PollPaste
  BY <1>7 DEF PollPaste, Goto, TaskTypes, PlacesOK, CopyOK, table, drainvars
<1>8. CASE PollFails
  BY <1>8 DEF PollFails, PollDone, Goto, PlacesOK, CopyOK, table, drainvars
<1>9. CASE PollUnsure
  BY <1>9 DEF PollUnsure, Goto, TableTypes, PlacesOK, CopyOK, drainvars
<1>10. CASE PollQueue
  <2> PICK opened \in SUBSET Ids, grown \in SUBSET Ids, kept \in SUBSET Ids,
           fill \in [Ids -> SUBSET Lines] : Queued(opened, grown, kept, fill)
    BY <1>10, QueueFacts
  <2>1. /\ pc[Poll] = "queue" /\ pc' = [pc EXCEPT ![Poll] = "settle"]
        /\ UNCHANGED <<mine, cur, copy>>
    BY <1>10 DEF PollQueue, Goto, drainvars
  <2>2. \A i \in Ids : status[i] \notin {"free", "pending"} => lines'[i] = lines[i]
    BY DEF Queued, TableTypes
  <2>3. \A i \in Ids : status'[i] = "in_progress" => status[i] = "in_progress"
    BY DEF Queued
  <2>4. pc[Drain] \notin {"ready", "claim", "paste"}
    BY <2>1, OfferAssumption DEF PlacesOK, PollInside, DrainInside, AtRow
  <2> QED
    BY <2>1, <2>2, <2>3, <2>4, OfferAssumption DEF CopyOK, TaskTypes, DrainTypes
<1>11. CASE PollSettle
  BY <1>11 DEF PollSettle, Goto, TaskTypes, PlacesOK, CopyOK, table, drainvars
<1>12. CASE PollOffer
  BY <1>12 DEF PollOffer, Goto, TaskTypes, PlacesOK, CopyOK, table, drainvars
<1>13. CASE PollNote
  BY <1>13 DEF PollNote, PollDone, Goto, PlacesOK, CopyOK, table, drainvars
<1>14. CASE DrainStart
  BY <1>14 DEF DrainStart, Goto, PlacesOK, CopyOK
<1>15. CASE DrainNext
  BY <1>15 DEF DrainNext, Goto, TaskTypes, PlacesOK, CopyOK, table
<1>16. CASE DrainAcquire
  BY <1>16 DEF DrainAcquire, Acquire, Goto, PlacesOK, CopyOK, table, drainvars
<1>17. CASE DrainHeld
  BY <1>17 DEF DrainHeld, Goto, Stop, TaskTypes, PlacesOK, CopyOK, table, drainvars
<1>18. CASE DrainReady
  BY <1>18 DEF DrainReady, PlacesOK, CopyOK, table, drainvars
<1>19. CASE DrainClaim
  BY <1>19 DEF DrainClaim, PlacesOK, CopyOK, table, drainvars
<1>20. CASE DrainPaste
  BY <1>20 DEF DrainPaste, TableTypes, DrainTypes, PlacesOK, CopyOK, drainvars
<1>21. CASE DrainUnsure
  BY <1>21 DEF DrainUnsure, Goto, Stop, PlacesOK, CopyOK, drainvars
<1>22. CASE DrainReceipt
  BY <1>22 DEF DrainReceipt, Completed, Goto, PlacesOK, CopyOK, drainvars
<1>23. CASE DrainClear
  BY <1>23 DEF DrainClear, Goto, PlacesOK, CopyOK, table, drainvars
<1>24. CASE DrainMark
  BY <1>24 DEF DrainMark, Completed, Goto, PlacesOK, CopyOK, drainvars
<1>25. CASE DrainRelease
  BY <1>25 DEF DrainRelease, Goto, PlacesOK, CopyOK
<1>26. CASE \E i \in Ids : InboxAck(i)
  BY <1>26 DEF InboxAck, PlacesOK, CopyOK, drainvars
<1>27. CASE SweepLeases
  BY <1>27 DEF SweepLeases, DrainTypes, PlacesOK, CopyOK, drainvars
<1>28. CASE PruneRows
  <2>1. UNCHANGED <<pc, mine, cur, copy>>
    BY <1>28 DEF PruneRows, drainvars
  <2>2. \A i \in Ids : \/ status'[i] = status[i] /\ lines'[i] = lines[i]
                       \/ status[i] = "delivered" /\ status'[i] = "free"
    BY <1>28 DEF PruneRows, TableTypes
  <2> QED
    BY <2>1, <2>2 DEF CopyOK, RowOK, PlacesOK, DrainInside, AtRow, DrainTypes
<1>29. CASE Crash
  BY <1>29 DEF Crash, TableTypes, TaskTypes, DrainTypes, PlacesOK, CopyOK, PollInside,
     DrainInside, AtRow, table
<1> QED
  BY <1>1, <1>2, <1>3, <1>4, <1>5, <1>6, <1>7, <1>8, <1>9, <1>10, <1>11, <1>12, <1>13,
     <1>14, <1>15, <1>16, <1>17, <1>18, <1>19, <1>20, <1>21, <1>22, <1>23, <1>24, <1>25, <1>26,
     <1>27, <1>28, <1>29
     DEF Next, PollStep, DrainStep, HookStep

\* The drain's row, through any step.
LEMMA RowKept ==
  ASSUME TableTypes, FileTypes, TaskTypes, PollTypes, DrainTypes, HookTypes, HistoryTypes,
         PlacesOK, CopyOK, OfferOK, RowOK, Next
  PROVE  RowOK'
<1>1. CASE (\E h \in Hooks : HookStart(h)) \/ (\E h \in Hooks : HookRead(h))
           \/ (\E h \in Hooks : HookDies(h)) \/ AgentMoves \/ SessionEnds \/ PruneBegin
  <2>1. UNCHANGED <<status, lines, offer, taken, offers, pc, mine, cur, cutOff, told>>
    BY <1>1 DEF HookStart, HookRead, HookDies, AgentMoves, SessionEnds, PruneBegin, table,
       files, pollvars, drainvars, history
  <2> QED
    BY <2>1 DEF RowOK
<1>2. CASE \E ls \in SUBSET Lines : PollBegin(ls)
  BY <1>2 DEF PollBegin, Goto, PlacesOK, RowOK, AtRow, table, files, drainvars, history
<1>3. CASE PollAcquire
  BY <1>3 DEF PollAcquire, Acquire, Goto, PlacesOK, RowOK, AtRow, table, files, pollvars,
     drainvars, history
<1>4. CASE PollHeld
  BY <1>4, OfferAssumption DEF PollHeld, Goto, PlacesOK, RowOK, table, files, drainvars,
     history
<1>5. CASE PollReady
  BY <1>5 DEF PollReady, Goto, PlacesOK, RowOK, AtRow, table, files, drainvars, history
<1>6. CASE PollGate
  BY <1>6 DEF PollGate, Goto, PlacesOK, RowOK, DrainInside, AtRow, table, files, pollvars,
     drainvars, history
<1>7. CASE PollPaste
  BY <1>7 DEF PollPaste, Goto, TaskTypes, PlacesOK, RowOK, AtRow, table, files, drainvars
<1>8. CASE PollFails
  BY <1>8 DEF PollFails, PollDone, Goto, PlacesOK, RowOK, AtRow, table, files, drainvars,
     history
<1>9. CASE PollUnsure
  BY <1>9 DEF PollUnsure, Goto, TableTypes, TaskTypes, PlacesOK, RowOK, AtRow, files,
     pollvars, drainvars
<1>10. CASE PollQueue
  <2> PICK opened \in SUBSET Ids, grown \in SUBSET Ids, kept \in SUBSET Ids,
           fill \in [Ids -> SUBSET Lines] : Queued(opened, grown, kept, fill)
    BY <1>10, QueueFacts
  <2>1. pc[Poll] = "queue" /\ pc' = [pc EXCEPT ![Poll] = "settle"] /\ UNCHANGED <<cur, told>>
    BY <1>10 DEF PollQueue, Goto, drainvars, history
  <2>2. pc[Drain] \notin DrainInside /\ pc'[Drain] = pc[Drain]
    BY <2>1, OfferAssumption DEF PlacesOK, PollInside, TaskTypes
  <2>3. \A i \in Ids : status'[i] = "in_progress" =>
           /\ status[i] = "in_progress" /\ lines'[i] = lines[i]
           /\ offer[i] = {} => offer'[i] = {}
           /\ i \notin offers'
    BY DEF Queued, TableTypes
  <2>4. pc[Drain] = "mark" => cur \in Ids
    BY DEF PlacesOK, DrainTypes
  <2> QED
    BY <2>1, <2>2, <2>3, <2>4 DEF RowOK, DrainInside, AtRow
<1>11. CASE PollSettle
  BY <1>11 DEF PollSettle, Goto, Without, files, TaskTypes, DrainTypes, PlacesOK, RowOK,
     AtRow, table, drainvars, history
<1>12. CASE PollOffer
  BY <1>12 DEF PollOffer, Goto, FileTypes, TaskTypes, DrainTypes, PlacesOK, RowOK, AtRow,
     table, drainvars, history
<1>13. CASE PollNote
  BY <1>13 DEF PollNote, PollDone, Goto, PlacesOK, RowOK, AtRow, table, files, drainvars,
     history
<1>14. CASE DrainStart
  BY <1>14 DEF DrainStart, Goto, PlacesOK, RowOK, AtRow
<1>15. CASE DrainNext
  BY <1>15 DEF DrainNext, Goto, TaskTypes, PlacesOK, RowOK, AtRow
<1>16. CASE DrainAcquire
  BY <1>16 DEF DrainAcquire, Acquire, Goto, PlacesOK, RowOK, AtRow
<1>17. CASE DrainHeld
  BY <1>17 DEF DrainHeld, Goto, Stop, TaskTypes, PlacesOK, RowOK, AtRow, table, drainvars
<1>18. CASE DrainReady
  BY <1>18 DEF DrainReady, Goto, Stop, TaskTypes, PlacesOK, RowOK, AtRow, table, drainvars,
     history
<1>19. CASE DrainClaim
  <2>1. /\ pc[Drain] = "claim" /\ offer' = Without({cur})
        /\ pc' = [pc EXCEPT ![Drain] = IF Claim(cur) = "taken" THEN "receipt" ELSE "paste"]
        /\ UNCHANGED <<status, taken, cur, cutOff>>
    BY <1>19 DEF DrainClaim, Goto, table, drainvars, history
  <2>2. cur \in Ids
    BY <2>1 DEF PlacesOK, DrainInside, AtRow, DrainTypes
  <2>3. Claim(cur) = "taken" <=> cur \in taken
    BY <2>2 DEF Claim, OfferOK
  <2>4. offer'[cur] = {}
    BY <2>1, <2>2 DEF Without
  <2> QED
    BY <2>1, <2>3, <2>4 DEF RowOK, TaskTypes, AtRow
<1>20. CASE DrainPaste
  <2>1. /\ pc[Drain] = "paste" /\ UNCHANGED <<lines, offer, taken, offers, cur, cutOff>>
        /\ pc'[Drain] \in {"mark", "unsure", "release"}
    BY <1>20 DEF DrainPaste, Goto, Stop, files, pollvars, drainvars, TaskTypes
  <2>2. cur \in Ids
    BY <2>1 DEF PlacesOK, DrainInside, AtRow, DrainTypes
  <2>3. pc'[Drain] = "unsure" => UNCHANGED status
    BY <1>20 DEF DrainPaste, Goto, Stop, TaskTypes
  <2>4. pc'[Drain] = "mark" => told' = told \cup copy[cur]
    BY <1>20 DEF DrainPaste, Goto, Stop, TaskTypes
  <2>5. offers = {}
    BY <2>1, OfferAssumption DEF PlacesOK, DrainInside, AtRow, PollInside
  <2>6. copy[cur] = lines[cur] /\ offer[cur] = {}
    BY <2>1 DEF CopyOK, RowOK
  <2> QED
    BY <2>1, <2>3, <2>4, <2>5, <2>6 DEF RowOK, AtRow
<1>21. CASE DrainUnsure
  BY <1>21 DEF DrainUnsure, Goto, Stop, TaskTypes, PlacesOK, RowOK, AtRow
<1>22. CASE DrainReceipt
  BY <1>22 DEF DrainReceipt, Completed, Goto, TableTypes, TaskTypes, DrainTypes, PlacesOK,
     RowOK, AtRow, files, drainvars, history
<1>23. CASE DrainClear
  BY <1>23 DEF DrainClear, Goto, TaskTypes, PlacesOK, RowOK, AtRow, table, drainvars
<1>24. CASE DrainMark
  BY <1>24 DEF DrainMark, Completed, Goto, PlacesOK, RowOK, AtRow, files, pollvars,
     drainvars, history
<1>25. CASE DrainRelease
  BY <1>25 DEF DrainRelease, Goto, PlacesOK, RowOK, AtRow
<1>26. CASE \E h \in Hooks : HookTake(h)
  BY <1>26 DEF HookTake, Without, files, DrainTypes, PlacesOK, RowOK, table, pollvars,
     drainvars
<1>27. CASE Launch
  BY <1>27 DEF Launch, ClearAgentContext, Without, DrainTypes, PlacesOK, RowOK, table,
     pollvars, drainvars, history
<1>28. CASE \E i \in Ids : InboxAck(i)
  BY <1>28 DEF InboxAck, Held, PlacesOK, RowOK, files, pollvars, drainvars
<1>29. CASE SweepLeases
  BY <1>29 DEF SweepLeases, DrainTypes, PlacesOK, RowOK, AtRow, files, drainvars
<1>30. CASE PruneRows
  <2>1. UNCHANGED <<pc, cur, offer, offers, told>>
    BY <1>30 DEF PruneRows, drainvars, pollvars
  <2>2. \A i \in Ids : \/ status'[i] = status[i] /\ lines'[i] = lines[i]
                          /\ (i \in cutOff => i \in cutOff')
                       \/ status[i] = "delivered" /\ status'[i] = "free"
    BY <1>30 DEF PruneRows, Forgotten, TableTypes
  <2>3. taken' \subseteq taken /\ \A i \in taken : Active(i) => i \in taken'
    BY <1>30 DEF PruneRows, PruneReceipts
  <2>4. pc[Drain] \in DrainInside \cup {"mark"} => cur \in Ids
    BY DEF PlacesOK, DrainTypes
  <2> QED
    BY <2>1, <2>2, <2>3, <2>4 DEF RowOK, AtRow, DrainInside, Active
<1>31. CASE Crash
  BY <1>31 DEF Crash, TableTypes, FileTypes, TaskTypes, DrainTypes, HookTypes, HistoryTypes,
     PlacesOK, RowOK, PollInside, DrainInside, AtRow, table, files
<1> QED
  BY <1>1, <1>2, <1>3, <1>4, <1>5, <1>6, <1>7, <1>8, <1>9, <1>10, <1>11, <1>12, <1>13,
     <1>14, <1>15, <1>16, <1>17, <1>18, <1>19, <1>20, <1>21, <1>22, <1>23, <1>24, <1>25, <1>26,
     <1>27, <1>28, <1>29, <1>30, <1>31
     DEF Next, PollStep, DrainStep, HookStep

-----------------------------------------------------------------------------
(***************************************************************************)
(* The files and the history, through any step                             *)
(***************************************************************************)
\* Offers and receipts, through any step.
LEMMA OfferKept ==
  ASSUME TableTypes, FileTypes, TaskTypes, PollTypes, DrainTypes, HookTypes, HistoryTypes,
         PlacesOK, RoomOK, RowOK, OldOK, OfferOK, Next
  PROVE  OfferOK'
<1>1. CASE (\E ls \in SUBSET Lines : PollBegin(ls)) \/ PollAcquire \/ PollHeld \/ PollReady
           \/ PollGate \/ DrainNext \/ DrainAcquire \/ DrainHeld \/ DrainReady
           \/ (\E h \in Hooks : HookStart(h)) \/ (\E h \in Hooks : HookRead(h))
           \/ (\E h \in Hooks : HookDies(h)) \/ AgentMoves \/ SessionEnds \/ PruneBegin
  <2>1. UNCHANGED <<status, lines, offer, taken, offers, settle, byHook, told>>
    BY <1>1 DEF PollBegin, PollAcquire, PollHeld, PollReady, PollGate, DrainNext,
       DrainAcquire, DrainHeld, DrainReady, HookStart, HookRead, HookDies, AgentMoves,
       SessionEnds, PruneBegin, table, files, pollvars, history
  <2> QED
    BY <2>1 DEF OfferOK, IsHigh, Active
<1>2. CASE PollPaste
  BY <1>2 DEF PollPaste, OfferOK, IsHigh, Active, table, files
<1>3. CASE PollFails
  BY <1>3 DEF PollFails, PollDone, OfferOK, IsHigh, Active, table, files, history
<1>4. CASE PollUnsure
  <2> PICK i \in Ids : /\ status[i] = "free"
                        /\ status' = [status EXCEPT ![i] = "uncertain"]
                        /\ lines' = [lines EXCEPT ![i] = asked]
                        /\ byPaste' = [byPaste EXCEPT ![i] = 1]
    BY <1>4, UnsureFacts
  <2>1. UNCHANGED <<offer, taken, settle, offers, byHook, told>> /\ settle = {}
    BY <1>4 DEF PollUnsure, files, pollvars, PlacesOK
  <2> QED
    BY <2>1 DEF OfferOK, IsHigh, Active, TableTypes
<1>5. CASE PollQueue
  <2> PICK opened \in SUBSET Ids, grown \in SUBSET Ids, kept \in SUBSET Ids,
           fill \in [Ids -> SUBSET Lines] : Queued(opened, grown, kept, fill)
    BY <1>5, QueueFacts
  <2>1. UNCHANGED <<taken, byHook, told>>
    BY <1>5 DEF PollQueue, history
  <2>2. ASSUME NEW i \in offers'
        PROVE  status'[i] = "pending" /\ IsHigh(i)'
    BY <2>2 DEF Queued, IsHigh, TableTypes
  <2>3. ASSUME NEW i \in Ids, offer'[i] # {}
        PROVE  offer'[i] = offer[i] /\ status'[i] = status[i] /\ lines'[i] = lines[i]
    BY <2>3 DEF Queued, OfferOK, TableTypes
  <2>4. \A i \in settle' : status'[i] = "delivered"
    BY DEF Queued
  <2>5. ASSUME NEW i \in taken
        PROVE  /\ status'[i] # "free"
               /\ Active(i)' => Active(i) /\ lines'[i] = lines[i]
    BY <2>5 DEF Queued, OfferOK, TableTypes, FileTypes, Active
  <2> QED
    BY <2>1, <2>2, <2>3, <2>4, <2>5 DEF OfferOK, IsHigh
<1>6. CASE PollSettle
  BY <1>6 DEF PollSettle, Without, files, OfferOK, IsHigh, Active, table, history
<1>7. CASE PollOffer
  BY <1>7 DEF PollOffer, FileTypes, OfferOK, IsHigh, Active, table, history
<1>8. CASE PollNote
  BY <1>8 DEF PollNote, PollDone, OfferOK, IsHigh, Active, table, files, history
<1>9. CASE DrainStart
  BY <1>9 DEF DrainStart, OfferOK, IsHigh, Active, files, pollvars, history
<1>10. CASE DrainClaim
  BY <1>10 DEF DrainClaim, Without, OfferOK, IsHigh, Active, table, pollvars, history
<1>11. CASE DrainPaste
  <2>1. /\ pc[Drain] = "paste" /\ UNCHANGED <<lines, offer, taken, offers, settle, byHook>>
        /\ told \subseteq told'
        /\ \/ UNCHANGED status
           \/ status' = [status EXCEPT ![cur] =
                           IF status[cur] \in {"pending", "in_progress"}
                           THEN "checkpoint" ELSE status[cur]]
    BY <1>11 DEF DrainPaste, files, pollvars
  <2>2. cur \in Ids /\ offers = {} /\ settle = {} /\ offer[cur] = {}
    BY <2>1, DrainsRow DEF DrainInside, AtRow, RowOK
  <2> QED
    BY <2>1, <2>2 DEF OfferOK, IsHigh, Active, TableTypes
<1>12. CASE DrainUnsure
  <2>1. /\ pc[Drain] = "unsure" /\ UNCHANGED <<lines, offer, taken, offers, settle, byHook, told>>
        /\ status' = [status EXCEPT ![cur] =
                        IF status[cur] \in {"pending", "in_progress"}
                        THEN "uncertain" ELSE status[cur]]
    BY <1>12 DEF DrainUnsure, files, pollvars, history
  <2>2. cur \in Ids /\ offers = {} /\ settle = {} /\ offer[cur] = {}
    BY <2>1, DrainsRow DEF DrainInside, AtRow, RowOK
  <2> QED
    BY <2>1, <2>2 DEF OfferOK, IsHigh, Active, TableTypes
<1>13. CASE DrainReceipt
  <2>1. /\ pc[Drain] = "receipt" /\ UNCHANGED <<lines, offer, taken, offers, settle, byHook, told>>
        /\ status' = Completed
    BY <1>13 DEF DrainReceipt, files, pollvars, history
  <2>2. cur \in Ids /\ (status[cur] = "in_progress" => offer[cur] = {} /\ cur \notin offers)
    BY <2>1, DrainsRow DEF DrainInside, AtRow, RowOK
  <2> QED
    BY <2>1, <2>2 DEF OfferOK, IsHigh, Active, TableTypes, Completed
<1>14. CASE DrainClear
  BY <1>14 DEF DrainClear, Without, OfferOK, IsHigh, Active, table, pollvars, history
<1>15. CASE DrainMark
  <2>1. /\ pc[Drain] = "mark" /\ UNCHANGED <<lines, offer, taken, offers, settle, byHook, told>>
        /\ status' = Completed
    BY <1>15 DEF DrainMark, files, pollvars, history
  <2>2. cur \in Ids /\ (status[cur] = "in_progress" => offer[cur] = {} /\ cur \notin offers)
    BY <2>1, DrainsRow DEF RowOK
  <2> QED
    BY <2>1, <2>2 DEF OfferOK, IsHigh, Active, TableTypes, Completed
<1>16. CASE DrainRelease
  BY <1>16 DEF DrainRelease, OfferOK, IsHigh, Active, files, pollvars, history
<1>17. CASE \E h \in Hooks : HookTake(h)
  BY <1>17 DEF HookTake, Without, Seen, files, HistoryTypes, OfferOK, IsHigh, Active, table,
     pollvars
<1>18. CASE Launch
  BY <1>18 DEF Launch, ClearAgentContext, Without, OfferOK, IsHigh, Active, table, pollvars,
     history
<1>19. CASE \E i \in Ids : InboxAck(i)
  BY <1>19 DEF InboxAck, Held, OfferOK, IsHigh, Active, files, pollvars
<1>20. CASE SweepLeases
  BY <1>20 DEF SweepLeases, OfferOK, IsHigh, Active, files, pollvars
<1>21. CASE PruneRows
  <2>1. UNCHANGED <<offer, offers, settle, told>>
    BY <1>21 DEF PruneRows, pollvars
  <2> QED
    BY <1>21, <2>1, PruneFacts DEF OfferOK, IsHigh, Active, FileTypes
<1>22. CASE Crash
  BY <1>22 DEF Crash, TableTypes, FileTypes, PollTypes, TaskTypes, DrainTypes, HookTypes,
     HistoryTypes, OfferOK, IsHigh, Active, table, files
<1> QED
  BY <1>1, <1>2, <1>3, <1>4, <1>5, <1>6, <1>7, <1>8, <1>9, <1>10, <1>11, <1>12, <1>13,
     <1>14, <1>15, <1>16, <1>17, <1>18, <1>19, <1>20, <1>21, <1>22
     DEF Next, PollStep, DrainStep, HookStep

\* What the prune job found, through any step.
LEMMA OldKept ==
  ASSUME TableTypes, FileTypes, TaskTypes, PollTypes, DrainTypes, HookTypes, RoomOK, OfferOK,
         OldOK, Next
  PROVE  OldOK'
<1>1. CASE (\E ls \in SUBSET Lines : PollBegin(ls)) \/ PollAcquire \/ PollHeld \/ PollReady
           \/ PollGate \/ PollPaste \/ PollFails \/ PollOffer \/ PollNote \/ DrainNext
           \/ DrainAcquire \/ DrainHeld \/ DrainReady \/ DrainClaim
           \/ (\E h \in Hooks : HookStart(h)) \/ (\E h \in Hooks : HookRead(h))
           \/ (\E h \in Hooks : HookDies(h)) \/ AgentMoves \/ SessionEnds
  <2>1. UNCHANGED <<status, taken, old, listed>>
    BY <1>1 DEF PollBegin, PollAcquire, PollHeld, PollReady, PollGate, PollPaste, PollFails,
       PollOffer, PollNote, DrainNext, DrainAcquire, DrainHeld, DrainReady, DrainClaim,
       HookStart, HookRead, HookDies, AgentMoves, SessionEnds, table, files, prunevars
  <2> QED
    BY <2>1 DEF OldOK
<1>2. CASE PollUnsure
  <2> PICK i \in Ids : /\ status[i] = "free"
                        /\ status' = [status EXCEPT ![i] = "uncertain"]
                        /\ lines' = [lines EXCEPT ![i] = asked]
                        /\ byPaste' = [byPaste EXCEPT ![i] = 1]
    BY <1>2, UnsureFacts
  <2>1. UNCHANGED <<old, listed, taken>>
    BY <1>2 DEF PollUnsure, files, prunevars
  <2> QED
    BY <2>1 DEF OldOK, TableTypes
<1>3. CASE PollQueue
  <2> PICK opened \in SUBSET Ids, grown \in SUBSET Ids, kept \in SUBSET Ids,
           fill \in [Ids -> SUBSET Lines] : Queued(opened, grown, kept, fill)
    BY <1>3, QueueFacts
  <2>1. UNCHANGED <<old, listed, taken>>
    BY <1>3 DEF PollQueue, prunevars
  <2> QED
    BY <2>1 DEF Queued, OldOK, HookTypes
<1>4. CASE PollSettle
  BY <1>4 DEF PollSettle, files, OldOK, table, prunevars
<1>5. CASE DrainStart
  BY <1>5 DEF DrainStart, HookTypes, OldOK, files, prunevars
<1>6. CASE DrainPaste
  BY <1>6 DEF DrainPaste, TableTypes, HookTypes, OldOK, files, prunevars
<1>7. CASE DrainUnsure
  BY <1>7 DEF DrainUnsure, OldOK, files, prunevars
<1>8. CASE DrainReceipt
  BY <1>8 DEF DrainReceipt, Completed, OldOK, files, prunevars
<1>9. CASE DrainClear
  BY <1>9 DEF DrainClear, OldOK, table, prunevars
<1>10. CASE DrainMark
  BY <1>10 DEF DrainMark, Completed, OldOK, files, prunevars
<1>11. CASE DrainRelease
  BY <1>11 DEF DrainRelease, HookTypes, OldOK, files, prunevars
<1>12. CASE \E h \in Hooks : HookTake(h)
  BY <1>12 DEF HookTake, files, HookTypes, OfferOK, OldOK, table, prunevars
<1>13. CASE Launch
  BY <1>13 DEF Launch, ClearAgentContext, OldOK, table, prunevars
<1>14. CASE \E i \in Ids : InboxAck(i)
  BY <1>14 DEF InboxAck, OldOK, files, prunevars
<1>15. CASE SweepLeases
  BY <1>15 DEF SweepLeases, HookTypes, OldOK, files, prunevars
<1>16. CASE PruneBegin
  BY <1>16 DEF PruneBegin, OldOK, table, files
<1>17. CASE PruneRows
  BY <1>17 DEF PruneRows, OldOK
<1>18. CASE Crash
  BY <1>18 DEF Crash, TableTypes, FileTypes, HookTypes, OfferOK, OldOK, table, files
<1> QED
  BY <1>1, <1>2, <1>3, <1>4, <1>5, <1>6, <1>7, <1>8, <1>9, <1>10, <1>11, <1>12, <1>13,
     <1>14, <1>15, <1>16, <1>17, <1>18
     DEF Next, PollStep, DrainStep, HookStep

\* How often a batch was shown, through any step.
LEMMA CountKept ==
  ASSUME TableTypes, FileTypes, TaskTypes, PollTypes, DrainTypes, HookTypes, HistoryTypes,
         PlacesOK, RoomOK, RowOK, OfferOK, OldOK, CountOK, Next
  PROVE  CountOK'
<1>1. CASE (\E h \in Hooks : HookStart(h)) \/ (\E h \in Hooks : HookRead(h))
           \/ (\E h \in Hooks : HookDies(h)) \/ AgentMoves \/ SessionEnds \/ PruneBegin
  <2>1. UNCHANGED <<status, offer, taken, byHook, byPaste, cutOff, cur, pc>>
    BY <1>1 DEF HookStart, HookRead, HookDies, AgentMoves, SessionEnds, PruneBegin, table,
       files, drainvars, history
  <2> QED
    BY <2>1 DEF CountOK
<1>2. CASE \E ls \in SUBSET Lines : PollBegin(ls)
  BY <1>2 DEF PollBegin, Goto, CountOK, table, files, drainvars, history
<1>3. CASE PollAcquire
  BY <1>3 DEF PollAcquire, Acquire, Goto, CountOK, table, files, drainvars, history
<1>4. CASE PollHeld
  BY <1>4 DEF PollHeld, Goto, CountOK, table, files, drainvars, history
<1>5. CASE PollReady
  BY <1>5 DEF PollReady, Goto, CountOK, table, files, drainvars, history
<1>6. CASE PollGate
  BY <1>6 DEF PollGate, Goto, CountOK, table, files, drainvars, history
<1>7. CASE PollPaste
  BY <1>7 DEF PollPaste, Goto, TaskTypes, CountOK, table, files, drainvars
<1>8. CASE PollFails
  BY <1>8 DEF PollFails, PollDone, Goto, CountOK, table, files, drainvars, history
<1>9. CASE PollUnsure
  <2> PICK i \in Ids : /\ status[i] = "free"
                        /\ status' = [status EXCEPT ![i] = "uncertain"]
                        /\ lines' = [lines EXCEPT ![i] = asked]
                        /\ byPaste' = [byPaste EXCEPT ![i] = 1]
    BY <1>9, UnsureFacts
  <2>1. UNCHANGED <<offer, taken, byHook, cutOff, cur>> /\ pc'[Drain] = pc[Drain]
    BY <1>9, OfferAssumption DEF PollUnsure, Goto, files, drainvars, TaskTypes
  <2>2. offer[i] = {}
    BY DEF OfferOK
  <2> QED
    BY <2>1, <2>2 DEF CountOK, TableTypes, HistoryTypes
<1>10. CASE PollQueue
  <2> PICK opened \in SUBSET Ids, grown \in SUBSET Ids, kept \in SUBSET Ids,
           fill \in [Ids -> SUBSET Lines] : Queued(opened, grown, kept, fill)
    BY <1>10, QueueFacts
  <2>1. UNCHANGED <<taken, byHook, byPaste, cutOff, cur>> /\ pc'[Drain] = pc[Drain]
    BY <1>10, OfferAssumption DEF PollQueue, Goto, drainvars, history, TaskTypes
  <2>2. \A i \in Ids :
           /\ status'[i] = "free" => status[i] = "free"
           /\ status'[i] = "pending" => status[i] \in {"free", "pending"}
           /\ status'[i] = "in_progress" => status[i] = "in_progress"
           /\ offer'[i] # {} => offer[i] # {}
    BY DEF Queued
  <2> SUFFICES ASSUME NEW i \in Ids
               PROVE  /\ status'[i] = "free" => byHook[i] = 0 /\ byPaste[i] = 0
                      /\ i \notin cutOff =>
                            /\ byHook[i] + byPaste[i] <= 1
                            /\ offer'[i] # {} => byHook[i] = 0 /\ byPaste[i] = 0
                            /\ status'[i] \in {"pending", "in_progress"} /\ byHook[i] > 0
                                  => i \in taken
                            /\ status'[i] \in {"pending", "in_progress"} /\ byPaste[i] > 0 =>
                                  i = cur /\ pc[Drain] \in {"unsure", "mark"}
                                  /\ status'[i] = "in_progress"
    BY <2>1 DEF CountOK
  <2>3. /\ status'[i] = "free" => byHook[i] = 0 /\ byPaste[i] = 0
        /\ i \notin cutOff =>
              /\ byHook[i] + byPaste[i] <= 1
              /\ offer'[i] # {} => byHook[i] = 0 /\ byPaste[i] = 0
    BY <2>2 DEF CountOK
  <2>4. CASE status[i] = "free"
    <3>1. byHook[i] = 0 /\ byPaste[i] = 0
      BY <2>4 DEF CountOK
    <3> QED
      BY <2>3, <3>1
  <2>5. CASE status[i] \in {"pending", "in_progress"} /\ status'[i] = status[i]
    BY <2>3, <2>5 DEF CountOK
  <2>6. CASE status'[i] # "pending" /\ status'[i] # "in_progress"
    BY <2>3, <2>6
  <2>7. CASE status[i] = "pending" /\ status'[i] = "in_progress"
    BY <2>2, <2>7
  <2> QED
    BY <2>2, <2>4, <2>5, <2>6, <2>7
<1>11. CASE PollSettle
  BY <1>11 DEF PollSettle, Goto, Without, files, TaskTypes, OfferOK, CountOK, table,
     drainvars, history
<1>12. CASE PollOffer
  <2>1. UNCHANGED <<status, taken, byHook, byPaste, cutOff, cur>> /\ pc'[Drain] = pc[Drain]
    BY <1>12, OfferAssumption DEF PollOffer, Goto, table, drainvars, history, TaskTypes
  <2>2. \A i \in Ids : offer'[i] # {} => offer[i] # {} \/ (i \in offers /\ i \notin taken)
    <3>1. CASE UNCHANGED offer
      BY <3>1
    <3>2. ASSUME NEW j \in offers,
                 offer' = [offer EXCEPT ![j] =
                             IF offer[j] = {} /\ j \notin taken THEN lines[j] ELSE offer[j]]
          PROVE  \A i \in Ids : offer'[i] # {} => offer[i] # {} \/ (i \in offers /\ i \notin taken)
      BY <3>2 DEF FileTypes, PollTypes
    <3> QED
      BY <1>12, <3>1, <3>2 DEF PollOffer
  <2>3. ASSUME NEW i \in offers, i \notin taken, i \notin cutOff
        PROVE  byHook[i] = 0 /\ byPaste[i] = 0
    <3>1. i \in Ids /\ status[i] \in {"pending", "in_progress"}
      BY <2>3 DEF OfferOK, PollTypes
    <3>2. ~(i = cur /\ pc[Drain] \in {"unsure", "mark"} /\ status[i] = "in_progress")
      BY <2>3, DrainsRow DEF RowOK, DrainInside, AtRow
    <3> QED
      BY <2>3, <3>1, <3>2 DEF CountOK, HistoryTypes
  <2> QED
    BY <2>1, <2>2, <2>3 DEF CountOK
<1>13. CASE PollNote
  BY <1>13 DEF PollNote, PollDone, Goto, CountOK, table, files, drainvars, history
<1>14. CASE DrainStart
  BY <1>14 DEF DrainStart, CountOK, files, history
<1>15. CASE DrainNext
  BY <1>15 DEF DrainNext, CountOK, table, files, history
<1>16. CASE DrainAcquire
  BY <1>16 DEF DrainAcquire, Acquire, CountOK, table, files, history
<1>17. CASE DrainHeld
  BY <1>17 DEF DrainHeld, CountOK, table, files, history
<1>18. CASE DrainReady
  BY <1>18 DEF DrainReady, CountOK, table, files, history
<1>19. CASE DrainClaim
  BY <1>19 DEF DrainClaim, Without, CountOK, table, history
<1>20. CASE DrainPaste
  <2>1. /\ pc[Drain] = "paste" /\ UNCHANGED <<offer, taken, byHook, cutOff, cur>>
        /\ \/ pc'[Drain] \in {"mark", "unsure"} /\ UNCHANGED status /\ byPaste' = Seen(byPaste, cur)
           \/ UNCHANGED <<status, byPaste>>
           \/ /\ UNCHANGED byPaste
              /\ status' = [status EXCEPT ![cur] =
                              IF status[cur] \in {"pending", "in_progress"}
                              THEN "checkpoint" ELSE status[cur]]
    BY <1>20 DEF DrainPaste, Goto, Stop, files, drainvars, TaskTypes
  <2>2. cur \in Ids /\ cur \notin taken /\ offer[cur] = {} /\ status[cur] # "free"
           /\ (cur \notin cutOff => status[cur] = "in_progress")
    BY <2>1, DrainsRow DEF DrainInside, AtRow, RowOK
  <2>3. \A i \in Ids \ cutOff : status[i] \in {"pending", "in_progress"} => byPaste[i] = 0
    BY <2>1 DEF CountOK, HistoryTypes
  <2>4. cur \notin cutOff => byHook[cur] = 0 /\ byPaste[cur] = 0
    BY <2>2, <2>3 DEF CountOK, HistoryTypes
  <2>5. CASE pc'[Drain] \in {"mark", "unsure"} /\ UNCHANGED status /\ byPaste' = Seen(byPaste, cur)
    <3>1. \A i \in Ids \ {cur} : byPaste'[i] = byPaste[i]
      BY <2>5 DEF Seen, HistoryTypes
    <3>2. byPaste[cur] = 0 => byPaste'[cur] = 1
      BY <2>2, <2>5 DEF Seen, HistoryTypes
    <3> QED
      BY <2>1, <2>2, <2>3, <2>4, <2>5, <3>1, <3>2 DEF CountOK, HistoryTypes
  <2>6. CASE UNCHANGED <<status, byPaste>>
    BY <2>1, <2>3, <2>6 DEF CountOK, HistoryTypes
  <2>7. CASE /\ UNCHANGED byPaste
             /\ status' = [status EXCEPT ![cur] =
                             IF status[cur] \in {"pending", "in_progress"}
                             THEN "checkpoint" ELSE status[cur]]
    BY <2>1, <2>2, <2>3, <2>7 DEF CountOK, HistoryTypes, TableTypes
  <2> QED
    BY <2>1, <2>5, <2>6, <2>7
<1>21. CASE DrainUnsure
  BY <1>21 DEF DrainUnsure, TableTypes, CountOK, files, history
<1>22. CASE DrainReceipt
  BY <1>22 DEF DrainReceipt, Completed, CountOK, files, history
<1>23. CASE DrainClear
  <2>1. /\ pc[Drain] = "clear" /\ pc'[Drain] = "mark"
        /\ UNCHANGED <<status, byHook, byPaste, cutOff, cur>>
        /\ taken' = taken \ {cur} /\ offer' = Without({cur})
    BY <1>23 DEF DrainClear, Goto, table, drainvars, history, TaskTypes
  <2>2. status[cur] \in {"pending", "in_progress"} => cur \in cutOff
    BY <2>1 DEF RowOK
  <2>3. \A i \in Ids : offer'[i] # {} => offer[i] # {}
    BY <2>1 DEF Without
  <2> QED
    BY <2>1, <2>2, <2>3 DEF CountOK
<1>24. CASE DrainMark
  BY <1>24 DEF DrainMark, Completed, TableTypes, CountOK, files, history
<1>25. CASE DrainRelease
  BY <1>25 DEF DrainRelease, CountOK, files, history
<1>26. CASE \E h \in Hooks : HookTake(h)
  BY <1>26 DEF HookTake, Without, Seen, files, HistoryTypes, OfferOK, CountOK, table,
     drainvars
<1>27. CASE Launch
  BY <1>27 DEF Launch, ClearAgentContext, Without, CountOK, table, drainvars, history
<1>28. CASE \E i \in Ids : InboxAck(i)
  BY <1>28 DEF InboxAck, CountOK, files, drainvars
<1>29. CASE SweepLeases
  BY <1>29 DEF SweepLeases, CountOK, files
<1>30. CASE PruneRows
  <2>1. UNCHANGED <<offer, pc, cur>>
    BY <1>30 DEF PruneRows, drainvars
  <2> QED
    BY <1>30, <2>1, PruneFacts DEF OfferOK, CountOK, Active
<1>31. CASE Crash
  BY <1>31 DEF Crash, TableTypes, FileTypes, TaskTypes, DrainTypes, HookTypes, HistoryTypes,
     OfferOK, CountOK, table, files
<1> QED
  BY <1>1, <1>2, <1>3, <1>4, <1>5, <1>6, <1>7, <1>8, <1>9, <1>10, <1>11, <1>12, <1>13,
     <1>14, <1>15, <1>16, <1>17, <1>18, <1>19, <1>20, <1>21, <1>22, <1>23, <1>24, <1>25, <1>26,
     <1>27, <1>28, <1>29, <1>30, <1>31
     DEF Next, PollStep, DrainStep, HookStep

\* What was noted, through any step.
LEMMA KeptKept ==
  ASSUME TableTypes, FileTypes, TaskTypes, PollTypes, DrainTypes, HookTypes, HistoryTypes,
         PlacesOK, RoomOK, RowOK, OfferOK, KeptOK, Next
  PROVE  KeptOK'
<1>1. CASE (\E h \in Hooks : HookStart(h)) \/ (\E h \in Hooks : HookRead(h))
           \/ (\E h \in Hooks : HookDies(h)) \/ AgentMoves \/ SessionEnds \/ Launch \/ PruneBegin
  <2>1. UNCHANGED <<status, lines, noted, told, read, asked, pc>>
    BY <1>1 DEF HookStart, HookRead, HookDies, AgentMoves, SessionEnds, Launch, PruneBegin,
       table, pollvars, history
  <2> QED
    BY <2>1 DEF KeptOK, Kept, Active
<1>2. CASE \E ls \in SUBSET Lines : PollBegin(ls)
  BY <1>2 DEF PollBegin, Goto, KeptOK, Kept, Active, table, history
<1>3. CASE PollAcquire
  BY <1>3 DEF PollAcquire, Acquire, Goto, KeptOK, Kept, Active, table, history
<1>4. CASE PollHeld
  BY <1>4 DEF PollHeld, Goto, KeptOK, Kept, Active, table, history
<1>5. CASE PollReady
  BY <1>5 DEF PollReady, Goto, KeptOK, Kept, Active, table, history
<1>6. CASE PollGate
  BY <1>6 DEF PollGate, Goto, KeptOK, Kept, Active, table, history
<1>7. CASE PollPaste
  BY <1>7 DEF PollPaste, Goto, TaskTypes, KeptOK, Kept, Active, table
<1>8. CASE PollFails
  BY <1>8 DEF PollFails, PollDone, KeptOK, Kept, Active, table, history
<1>9. CASE PollUnsure
  <2> PICK i \in Ids : /\ status[i] = "free"
                        /\ status' = [status EXCEPT ![i] = "uncertain"]
                        /\ lines' = [lines EXCEPT ![i] = asked]
                        /\ byPaste' = [byPaste EXCEPT ![i] = 1]
    BY <1>9, UnsureFacts
  <2>1. UNCHANGED <<told, read, noted, asked>>
    BY <1>9 DEF PollUnsure, pollvars
  <2>2. Active(i)' /\ lines'[i] = asked
    BY DEF TableTypes, Active
  <2>3. ASSUME NEW l, Kept(l) PROVE Kept(l)'
    BY <2>1, <2>3 DEF Kept, Active, TableTypes
  <2>4. \A l \in asked : Kept(l)'
    BY <2>1, <2>2 DEF Kept
  <2>5. \A j \in Ids : status'[j] = "delivered" => status[j] = "delivered" /\ lines'[j] = lines[j]
    BY DEF TableTypes
  <2> QED
    BY <2>1, <2>3, <2>4, <2>5 DEF KeptOK
<1>10. CASE PollQueue
  <2> PICK opened \in SUBSET Ids, grown \in SUBSET Ids, kept \in SUBSET Ids,
           fill \in [Ids -> SUBSET Lines] : Queued(opened, grown, kept, fill)
    BY <1>10, QueueFacts
  <2>1. UNCHANGED <<told, read, noted>>
    BY <1>10 DEF PollQueue, history
  <2>2. ASSUME NEW i \in Ids, status[i] # "free"
        PROVE  /\ lines[i] \subseteq lines'[i]
               /\ status'[i] = "delivered" => lines'[i] = lines[i]
               /\ Active(i) => Active(i)' \/ (status'[i] = "delivered" /\ i \in taken)
               /\ status'[i] = "delivered" => status[i] = "delivered" \/ (i \in taken /\ Active(i))
    <3>1. i \notin opened
      BY <2>2 DEF Queued
    <3>2. lines'[i] = lines[i] \cup fill[i] /\ (i \notin grown => fill[i] = {})
      BY <3>1 DEF Queued, TableTypes
    <3>3. CASE i \in grown
      BY <3>2, <3>3 DEF Queued, Active
    <3>4. CASE i \in kept \ grown
      BY <3>1, <3>2, <3>4 DEF Queued, Claim, Active
    <3>5. CASE i \notin kept \cup grown
      <4>1. lines'[i] = lines[i]
        BY <3>2, <3>5
      <4>2. status'[i] = status[i]
        BY <3>1, <3>5 DEF Queued
      <4> QED
        BY <4>1, <4>2 DEF Active
    <3> QED
      BY <3>3, <3>4, <3>5
  <2>3. ASSUME NEW i \in Ids, status'[i] = "delivered"
        PROVE  lines'[i] \subseteq told \cup read
    <3>1. status[i] # "free"
      BY <2>3 DEF Queued
    <3> QED
      BY <3>1, <2>2, <2>3 DEF KeptOK, OfferOK
  <2>4. ASSUME NEW l, NEW i \in Ids, Active(i), l \in lines[i] PROVE Kept(l)'
    <3>1. status[i] # "free"
      BY <2>4 DEF Active
    <3> QED
      BY <3>1, <2>1, <2>2, <2>3, <2>4 DEF Kept
  <2>5. ASSUME NEW l, Kept(l) PROVE Kept(l)'
    BY <2>1, <2>4, <2>5 DEF Kept
  <2>6. ASSUME NEW l \in asked PROVE Kept(l)'
    <3>1. PICK i \in Ids : Holds(i, l) \/ l \in fill[i]
      BY <2>6 DEF Queued
    <3>2. CASE Holds(i, l)
      BY <3>2, <2>5 DEF Holds, KeptOK, Kept, Active, TableTypes, Status
    <3>3. CASE l \in fill[i]
      <4>1. i \in opened \cup grown /\ l \in lines'[i]
        BY <3>3 DEF Queued, TableTypes
      <4> QED
        BY <4>1 DEF Queued, Kept, Active
    <3> QED
      BY <3>1, <3>2, <3>3
  <2>7. asked' \subseteq asked
    BY DEF Queued
  <2> QED
    BY <2>1, <2>3, <2>5, <2>6, <2>7 DEF KeptOK
<1>11. CASE PollSettle
  BY <1>11 DEF PollSettle, KeptOK, Kept, Active, table, history
<1>12. CASE PollOffer
  BY <1>12 DEF PollOffer, KeptOK, Kept, Active, table, history
<1>13. CASE PollNote
  BY <1>13 DEF PollNote, PollDone, KeptOK, Kept, Active, table, history
<1>14. CASE DrainStart
  BY <1>14 DEF DrainStart, Goto, KeptOK, Kept, Active, pollvars, history
<1>15. CASE DrainNext
  BY <1>15 DEF DrainNext, Goto, TaskTypes, KeptOK, Kept, Active, table, pollvars, history
<1>16. CASE DrainAcquire
  BY <1>16 DEF DrainAcquire, Acquire, Goto, KeptOK, Kept, Active, table, pollvars, history
<1>17. CASE DrainHeld
  BY <1>17 DEF DrainHeld, Goto, Stop, TaskTypes, KeptOK, Kept, Active, table, pollvars,
     history
<1>18. CASE DrainReady
  BY <1>18 DEF DrainReady, Goto, Stop, TaskTypes, KeptOK, Kept, Active, table, pollvars,
     history
<1>19. CASE DrainClaim
  BY <1>19 DEF DrainClaim, Goto, KeptOK, Kept, Active, table, pollvars, history
<1>20. CASE DrainPaste
  BY <1>20 DEF DrainPaste, Goto, Stop, TableTypes, TaskTypes, KeptOK, Kept, Active, pollvars
<1>21. CASE DrainUnsure
  BY <1>21 DEF DrainUnsure, Goto, Stop, KeptOK, Kept, Active, pollvars, history
<1>22. CASE DrainReceipt
  <2>1. /\ pc[Drain] = "receipt" /\ UNCHANGED <<lines, told, read, noted, asked>>
        /\ status' = Completed /\ pc'[Poll] = pc[Poll]
    BY <1>22, OfferAssumption DEF DrainReceipt, Goto, pollvars, history, TaskTypes
  <2>2. cur \in Ids /\ (status[cur] = "in_progress" => lines[cur] \subseteq told)
    BY <2>1, DrainsRow DEF DrainInside, AtRow, RowOK, OfferOK, Active
  <2>3. ASSUME NEW l, Kept(l) PROVE Kept(l)'
    BY <2>1, <2>2, <2>3 DEF Kept, Active, Completed, TableTypes
  <2> QED
    BY <2>1, <2>2, <2>3 DEF KeptOK, Completed, TableTypes
<1>23. CASE DrainClear
  BY <1>23 DEF DrainClear, Goto, KeptOK, Kept, Active, table, pollvars, history
<1>24. CASE DrainMark
  <2>1. /\ pc[Drain] = "mark" /\ UNCHANGED <<lines, told, read, noted, asked>>
        /\ status' = Completed /\ pc'[Poll] = pc[Poll]
    BY <1>24, OfferAssumption DEF DrainMark, Goto, pollvars, history, TaskTypes
  <2>2. cur \in Ids /\ (status[cur] = "in_progress" => lines[cur] \subseteq told)
    BY <2>1, DrainsRow DEF RowOK
  <2>3. ASSUME NEW l, Kept(l) PROVE Kept(l)'
    BY <2>1, <2>2, <2>3 DEF Kept, Active, Completed, TableTypes
  <2> QED
    BY <2>1, <2>2, <2>3 DEF KeptOK, Completed, TableTypes
<1>25. CASE DrainRelease
  BY <1>25 DEF DrainRelease, Goto, KeptOK, Kept, Active, pollvars, history
<1>26. CASE \E h \in Hooks : HookTake(h)
  BY <1>26 DEF HookTake, KeptOK, Kept, Active, table, pollvars
<1>27. CASE \E i \in Ids : InboxAck(i)
  BY <1>27 DEF InboxAck, KeptOK, Kept, Active, pollvars
<1>28. CASE SweepLeases
  BY <1>28 DEF SweepLeases, KeptOK, Kept, Active, pollvars
<1>29. CASE PruneRows
  BY <1>29 DEF PruneRows, KeptOK, Kept, Active, pollvars
<1>30. CASE Crash
  BY <1>30 DEF Crash, TableTypes, FileTypes, TaskTypes, DrainTypes, HookTypes, HistoryTypes,
     KeptOK, Kept, Active, table
<1> QED
  BY <1>1, <1>2, <1>3, <1>4, <1>5, <1>6, <1>7, <1>8, <1>9, <1>10, <1>11, <1>12, <1>13,
     <1>14, <1>15, <1>16, <1>17, <1>18, <1>19, <1>20, <1>21, <1>22, <1>23, <1>24, <1>25, <1>26,
     <1>27, <1>28, <1>29, <1>30
     DEF Next, PollStep, DrainStep, HookStep

\* No two waiting batches list an event, through any step.
LEMMA OneBatchKept ==
  ASSUME TableTypes, FileTypes, PollTypes, EventInOneBatch, Next
  PROVE  EventInOneBatch'
<1>1. CASE (\E ls \in SUBSET Lines : PollBegin(ls)) \/ PollAcquire \/ PollHeld \/ PollReady
           \/ PollGate \/ PollPaste \/ PollFails \/ PollSettle \/ PollOffer \/ PollNote
           \/ DrainNext \/ DrainAcquire \/ DrainHeld \/ DrainReady \/ DrainClaim \/ DrainClear
           \/ (\E h \in Hooks : HookStart(h)) \/ (\E h \in Hooks : HookRead(h))
           \/ (\E h \in Hooks : HookTake(h)) \/ (\E h \in Hooks : HookDies(h)) \/ AgentMoves
           \/ SessionEnds \/ Launch \/ PruneBegin \/ Crash
  <2>1. UNCHANGED <<status, lines>>
    BY <1>1 DEF PollBegin, PollAcquire, PollHeld, PollReady, PollGate, PollPaste, PollFails,
       PollSettle, PollOffer, PollNote, DrainNext, DrainAcquire, DrainHeld, DrainReady,
       DrainClaim, DrainClear, HookStart, HookRead, HookTake, HookDies, AgentMoves, SessionEnds,
       Launch, PruneBegin, Crash, table
  <2> QED
    BY <2>1 DEF EventInOneBatch, Active
<1>2. CASE PollUnsure
  BY <1>2 DEF PollUnsure, TableTypes, EventInOneBatch, Active
<1>3. CASE PollQueue
  <2> PICK opened \in SUBSET Ids, grown \in SUBSET Ids, kept \in SUBSET Ids,
           fill \in [Ids -> SUBSET Lines] : Queued(opened, grown, kept, fill)
    BY <1>3, QueueFacts
  <2>1. ASSUME NEW i \in Ids, Active(i)', status'[i] # "uncertain"
        PROVE  \/ Active(i) /\ status[i] # "uncertain" /\ lines'[i] = lines[i] \cup fill[i]
               \/ status[i] = "free" /\ lines'[i] = fill[i]
    BY <2>1 DEF Queued, Active, TableTypes
  <2>2. ASSUME NEW i \in Ids, NEW j \in Ids, i # j, Active(i)', status'[i] # "uncertain",
               Active(j)', status'[j] # "uncertain"
        PROVE  lines'[i] \cap lines'[j] = {}
    <3>1. fill[i] \cap fill[j] = {}
      BY <2>2 DEF Queued
    <3>2. Active(j) => fill[i] \cap lines[j] = {}
      BY DEF Queued, Holds, Active
    <3>3. Active(i) => fill[j] \cap lines[i] = {}
      BY DEF Queued, Holds, Active
    <3>4. Active(i) /\ status[i] # "uncertain" /\ Active(j) /\ status[j] # "uncertain"
             => lines[i] \cap lines[j] = {}
      BY <2>2 DEF EventInOneBatch
    <3> QED
      BY <2>1, <2>2, <3>1, <3>2, <3>3, <3>4 DEF Active
  <2> QED
    BY <2>2 DEF EventInOneBatch, Active
<1>4. CASE DrainStart
  BY <1>4 DEF DrainStart, EventInOneBatch, Active
<1>5. CASE DrainPaste
  BY <1>5 DEF DrainPaste, TableTypes, EventInOneBatch, Active
<1>6. CASE DrainUnsure
  BY <1>6 DEF DrainUnsure, EventInOneBatch, Active
<1>7. CASE DrainReceipt
  BY <1>7 DEF DrainReceipt, Completed, EventInOneBatch, Active
<1>8. CASE DrainMark
  BY <1>8 DEF DrainMark, Completed, EventInOneBatch, Active
<1>9. CASE DrainRelease
  BY <1>9 DEF DrainRelease, EventInOneBatch, Active
<1>10. CASE \E i \in Ids : InboxAck(i)
  BY <1>10 DEF InboxAck, EventInOneBatch, Active
<1>11. CASE SweepLeases
  BY <1>11 DEF SweepLeases, EventInOneBatch, Active
<1>12. CASE PruneRows
  BY <1>12 DEF PruneRows, PruneReceipts, Forgotten, TableTypes, EventInOneBatch, Active
<1> QED
  BY <1>1, <1>2, <1>3, <1>4, <1>5, <1>6, <1>7, <1>8, <1>9, <1>10, <1>11, <1>12
     DEF Next, PollStep, DrainStep, HookStep

-----------------------------------------------------------------------------
(***************************************************************************)
(* The inductive invariant                                                 *)
(***************************************************************************)
Types ==
    /\ TableTypes /\ FileTypes /\ TaskTypes
    /\ PollTypes /\ DrainTypes /\ HookTypes /\ HistoryTypes

OfferInv ==
    /\ Types
    /\ PlacesOK /\ RoomOK /\ CopyOK /\ RowOK
    /\ OfferOK /\ OldOK /\ CountOK /\ KeptOK
    /\ EventInOneBatch

\* The parts of the types are the type invariant.
LEMMA TypeParts == Types <=> TypeOK
BY DEF Types, TypeOK, TableTypes, FileTypes, TaskTypes, PollTypes, DrainTypes, HookTypes,
       HistoryTypes

\* The service starts with an empty table and no files.
LEMMA Start == Init => OfferInv
<1> SUFFICES ASSUME Init PROVE OfferInv
  OBVIOUS
<1>1. TableTypes /\ FileTypes /\ DrainTypes
  BY DEF Init, TableTypes, FileTypes, DrainTypes, Status
<1>2. TaskTypes /\ PollTypes /\ HookTypes
  BY DEF Init, TaskTypes, PollTypes, HookTypes
<1>3. HistoryTypes
  <2>1. 0 \in 0 .. 2
    OBVIOUS
  <2> QED
    BY <2>1 DEF Init, HistoryTypes
<1>4. PlacesOK /\ RoomOK /\ CopyOK /\ RowOK
  BY DEF Init, PlacesOK, RoomOK, CopyOK, RowOK, PollInside, DrainInside, AtRow
<1>5. OfferOK /\ OldOK /\ KeptOK /\ EventInOneBatch
  BY DEF Init, OfferOK, OldOK, KeptOK, EventInOneBatch, Active
<1>6. CountOK
  BY DEF Init, CountOK
<1> QED
  BY <1>1, <1>2, <1>3, <1>4, <1>5, <1>6 DEF OfferInv, Types

\* A step that changes nothing.
LEMMA Still == ASSUME OfferInv, UNCHANGED vars PROVE OfferInv'
<1>1. TableTypes' /\ FileTypes' /\ TaskTypes' /\ PollTypes'
  BY DEF OfferInv, Types, TableTypes, FileTypes, TaskTypes, PollTypes, vars, table, files,
         pollvars, counters
<1>2. DrainTypes' /\ HookTypes' /\ HistoryTypes'
  BY DEF OfferInv, Types, DrainTypes, HookTypes, HistoryTypes, vars, drainvars, hookvars,
         prunevars, history
<1>3. PlacesOK' /\ RoomOK' /\ CopyOK' /\ RowOK'
  BY DEF OfferInv, PlacesOK, RoomOK, CopyOK, RowOK, vars, table, files, pollvars, drainvars,
         history
<1>4. OfferOK' /\ OldOK' /\ EventInOneBatch'
  BY DEF OfferInv, OfferOK, OldOK, EventInOneBatch, IsHigh, Active, vars, table, files, pollvars,
         prunevars, history
<1>5. CountOK' /\ KeptOK'
  BY DEF OfferInv, CountOK, KeptOK, Kept, Active, vars, table, files, pollvars, drainvars, history
<1> QED
  BY <1>1, <1>2, <1>3, <1>4, <1>5 DEF OfferInv, Types

\* Every step keeps the invariant.
LEMMA InvStep == OfferInv /\ [Next]_vars => OfferInv'
<1> SUFFICES ASSUME OfferInv, Next PROVE OfferInv'
  BY Still
<1>1. Types'
  BY TableTyped, FilesTyped, TasksTyped, PollTyped, DrainTyped, HooksTyped, HistoryTyped
     DEF OfferInv, Types
<1>2. PlacesOK' /\ RoomOK' /\ CopyOK' /\ RowOK'
  BY PlacesKept, RoomKept, CopyKept, RowKept DEF OfferInv, Types
<1>3. OfferOK' /\ OldOK' /\ CountOK' /\ KeptOK' /\ EventInOneBatch'
  BY OfferKept, OldKept, CountKept, KeptKept, OneBatchKept DEF OfferInv, Types
<1> QED
  BY <1>1, <1>2, <1>3 DEF OfferInv

\* The inductive invariant of the offers, for any number of lines, rows, hooks, polls and
\* crashes.
THEOREM OfferInvariant == Spec => []OfferInv
BY Start, InvStep, PTL DEF Spec

\* The variables keep their types.
THEOREM OfferTypeOK == Spec => []TypeOK
<1>1. OfferInv => TypeOK
  BY TypeParts DEF OfferInv
<1> QED
  BY OfferInvariant, <1>1, PTL

\* A queued batch is shown to the agent once, as hook context or as a paste, unless a crash or
\* a lease sweep cut its delivery off (claim_context, take_context, mark_delivered).
THEOREM OfferArrivesOnce == Spec => []BatchArrivesOnce
<1>1. OfferInv => BatchArrivesOnce
  BY DEF OfferInv, CountOK, BatchArrivesOnce
<1> QED
  BY OfferInvariant, <1>1, PTL

\* An event noted as held by the agent was told or read, or it waits (enqueue_subscription,
\* mark_processed).
THEOREM OfferKeepsNoted == Spec => []NotedEventIsKept
<1>1. OfferInv => NotedEventIsKept
  BY DEF OfferInv, KeptOK, Kept, NotedEventIsKept
<1> QED
  BY OfferInvariant, <1>1, PTL

\* No two waiting batches list the same event (enqueue_subscription).
THEOREM OfferInOneBatch == Spec => []EventInOneBatch
<1>1. OfferInv => EventInOneBatch
  BY DEF OfferInv
<1> QED
  BY OfferInvariant, <1>1, PTL

\* An offer is the whole of a batch that waits or is leased, and a receipt that can settle a
\* batch was left by the hook that took it (offer_context, prune_context_receipts).
THEOREM OfferFilesMatch == Spec => []FilesOfTheirBatch
<1>1. OfferInv => FilesOfTheirBatch
  BY DEF OfferInv, OfferOK, FilesOfTheirBatch
<1> QED
  BY OfferInvariant, <1>1, PTL
=============================================================================

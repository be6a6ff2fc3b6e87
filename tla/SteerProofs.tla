---------------------------- MODULE SteerProofs ----------------------------
(***************************************************************************)
(* A steer is taken in the turn it names and reported as what it became,   *)
(* for any number of requests, turns, sessions and mishaps; a confirmed    *)
(* one is taken once, has its receipt and is not offered after the reset   *)
(* of its key, if a claim is not taken over between its check and the row  *)
(* (LateTakeover = FALSE).                                                 *)
(***************************************************************************)
EXTENDS Steer, FiniteSetTheorems, TLAPS

\* The type invariant in parts: the session, the files, the tables, the requests, the history.
SessionTypes ==
    /\ scene \in Scenes
    /\ launch \in 1 .. scene.launches /\ turn \in 0 .. scene.turns
    /\ phase \in {"idle", "working", "failed"}
    /\ record \in Records
    /\ hook \in {"off", "take", "retire"}
    /\ mishaps \in 0 .. scene.mishaps

FileTypes == file \in Files /\ listed \in Files \cup {<<>>}

RowTypes ==
    /\ row \in [Requests -> {"none", "offered", "handed_off", "not_taken", "failed", "cancelled"}]
    /\ reset \in BOOLEAN

ReceiptTypes ==
    receipt \in [status : {"none", "admitted", "revoked"},
                 offer : {"none", "claiming", "offered", "failed"},
                 holder : Requests \cup {NoOne}, stale : BOOLEAN,
                 last : Requests \cup {NoOne}]

TaskTypes ==
    /\ pc \in [Requests -> {"admit", "claim", "turn", "profile", "guard", "holds", "record",
                            "place", "check", "mark", "discard", "done"}]
    /\ aim \in [Requests -> Records]
    /\ dir \in [Requests -> 0 .. scene.launches]
    /\ guard \in Requests \cup {NoOne}

HistoryTypes ==
    /\ takenIn \in [Requests -> NotTaken .. scene.turns]
    /\ answer \in [Requests -> {"none", "offered", "refused", "failed", "known"}]
    /\ overlooked \subseteq Requests

\* A record names the session it was written in and, once that had a prompt, its last one.
RecordOK ==
    /\ record.launch <= launch
    /\ record.turn # 0 => record.launch # 0 /\ (record.launch = launch => record.turn = turn)
    /\ phase = "working" => record.launch = launch /\ record.turn = turn /\ turn # 0
    /\ hook = "take" => record.launch = launch /\ (record.turn # 0 => phase = "working")

\* A request read a record of this session or an earlier one; a session that had a turn then
\* has one now.
AimOK ==
    \A i \in Requests :
        /\ aim[i].launch <= record.launch
        /\ aim[i].turn # 0 =>
              aim[i].launch # 0 /\ (aim[i].launch = record.launch => record.turn # 0)

\* The places of a request before its file is there.
Before == {"admit", "claim", "turn", "profile", "guard", "holds", "record", "place"}

\* A file comes once, from its own request, and is taken once; what was refused has none.
FilesOK ==
    \A i \in Requests :
        /\ pc[i] \in Before =>
              file[i] = "none" /\ ~Taken(i) /\ answer[i] = "none"
              /\ row[i] = (IF pc[i] = "place" THEN "offered" ELSE "none")
        /\ file[i] \in {"offered", "missed"} => ~Taken(i)
        /\ file[i] = "taken" => Taken(i)
        /\ answer[i] \in {"refused", "failed", "known"} =>
              file[i] = "none" /\ ~Taken(i) /\ pc[i] \in {"discard", "done"}
        /\ pc[i] = "discard" => answer[i] \in {"refused", "failed"}

\* What a settler listed is still so, or settled.
ListedOK ==
    listed # <<>> =>
        \A i \in Requests :
            /\ pc[i] \in Before => listed[i] = "none"
            /\ listed[i] = "taken" => Taken(i)
            /\ listed[i] = "missed" => ~Taken(i) /\ file[i] # "offered"

\* A row says what became of its file.
RowsOK ==
    \A i \in Requests :
        /\ row[i] \in {"not_taken", "failed"} => ~Taken(i) /\ file[i] = "none"
        /\ row[i] = "handed_off" => Taken(i)
        /\ row[i] = "offered" /\ Taken(i) => file[i] = "taken"
        /\ row[i] = "cancelled" /\ i \notin overlooked => ~Taken(i) /\ file[i] = "none"

\* The confirmed steer reached its agent, or still may.
Live(i) ==
    Taken(i) \/ file[i] \in {"offered", "taken"} \/ pc[i] \in {"place", "check", "mark"}

\* The receipt knows the request that holds the claim, and the one that recorded an attempt.
ClaimOK ==
    /\ receipt.holder # NoOne => receipt.status # "none"
    /\ receipt.last # NoOne => receipt.last \in confirmed
    /\ \A i \in confirmed : pc[i] = "record" => receipt.holder = i
    /\ \A i \in confirmed : Live(i) => receipt.last = i /\ receipt.holder = i

\* The guard is held from the check of the revocation to the file; an authority that outlives
\* a reset is that of a steer known to be handed over.
GuardOK ==
    /\ \A i \in confirmed : pc[i] \in {"holds", "record", "place"} => guard = i
    /\ \A i \in confirmed : pc[i] = "holds" => receipt.status # "revoked"
    /\ \A i \in confirmed : pc[i] \in {"record", "place"} => ~reset
    /\ reset /\ receipt.status = "admitted" =>
          receipt.last # NoOne /\ row[receipt.last] = "handed_off"

\* The bounds are numbers.
LEMMA Bounds ==
  ASSUME scene \in Scenes
  PROVE  /\ scene.turns \in Nat /\ scene.launches \in Nat \ {0} /\ scene.mishaps \in Nat
         /\ confirmed \subseteq Requests
  BY SteerAssumption DEF confirmed

-----------------------------------------------------------------------------
(***************************************************************************)
(* Types                                                                   *)
(***************************************************************************)
\* The session keeps its types.
LEMMA SessionTyped ==
  ASSUME SessionTypes, RecordOK, Next
  PROVE  SessionTypes'
<1>1. CASE (\E i \in Requests : Admit(i)) \/ (\E i \in Requests : Claim(i))
           \/ (\E i \in Requests : ReadTurn(i)) \/ (\E i \in Requests : Profile(i))
           \/ (\E i \in Requests : TakeGuard(i)) \/ (\E i \in Requests : CheckClaim(i))
           \/ (\E i \in Requests : Record(i)) \/ (\E i \in Requests : CheckTurn(i))
           \/ (\E i \in Requests : Mark(i)) \/ (\E i \in Requests : Discard(i)) \/ TickBegin
           \/ (\E old \in SUBSET Waiting, slow \in BOOLEAN : TickEnd(old, slow)) \/ KeyReset
           \/ ClaimAges
  <2>1. UNCHANGED <<scene, launch, turn, phase, record, hook, mishaps>>
    BY <1>1 DEF Admit, Claim, ReadTurn, Profile, TakeGuard, CheckClaim, Record, CheckTurn, Mark,
       Discard, TickBegin, TickEnd, KeyReset, ClaimAges, session
  <2> QED
    BY <2>1 DEF SessionTypes, RecordOK, Records
<1>2. CASE \E i \in Requests : Place(i)
  BY <1>2, Bounds DEF Place, Goto, Settle, Refused, Answer, LetGo, Mishap, SessionTypes,
     RecordOK, Records, session
<1>3. CASE HookStart
  BY <1>3, Bounds DEF HookStart, SessionTypes, RecordOK, Records, session
<1>4. CASE HookTake
  BY <1>4, Bounds DEF HookTake, Offered, SessionTypes, RecordOK, Records, session
<1>5. CASE HookRetire
  BY <1>5, Bounds DEF HookRetire, Offered, SessionTypes, RecordOK, Records, session
<1>6. CASE HookDies
  BY <1>6, Bounds DEF HookDies, Mishap, SessionTypes, RecordOK, Records, session
<1>7. CASE Crash
  BY <1>7, Bounds DEF Crash, Mishap, SessionTypes, RecordOK, Records, session
<1>8. CASE Prompt
  BY <1>8, Bounds DEF Prompt, SessionTypes, RecordOK, Records
<1>9. CASE TurnEnds
  BY <1>9, Bounds DEF TurnEnds, SessionTypes, RecordOK, Records
<1>10. CASE TurnCutShort
  BY <1>10, Bounds DEF TurnCutShort, SessionTypes, RecordOK, Records
<1>11. CASE Launch
  BY <1>11, Bounds DEF Launch, SessionTypes, RecordOK, Records
<1> QED
  BY <1>1, <1>2, <1>3, <1>4, <1>5, <1>6, <1>7, <1>8, <1>9, <1>10, <1>11
     DEF Next, Step, Tick

\* The files keep their types.
LEMMA FilesTyped ==
  ASSUME FileTypes, Next
  PROVE  FileTypes'
<1>1. CASE (\E i \in Requests : Admit(i)) \/ (\E i \in Requests : Claim(i))
           \/ (\E i \in Requests : ReadTurn(i)) \/ (\E i \in Requests : Profile(i))
           \/ (\E i \in Requests : TakeGuard(i)) \/ (\E i \in Requests : CheckClaim(i))
           \/ (\E i \in Requests : Record(i)) \/ (\E i \in Requests : Mark(i))
           \/ (\E i \in Requests : Discard(i)) \/ HookStart \/ HookDies \/ KeyReset \/ ClaimAges
           \/ Prompt \/ TurnEnds \/ TurnCutShort
  <2>1. UNCHANGED <<file, listed>>
    BY <1>1 DEF Admit, Claim, ReadTurn, Profile, TakeGuard, CheckClaim, Record, Mark, Discard,
       HookStart, HookDies, KeyReset, ClaimAges, Prompt, TurnEnds, TurnCutShort
  <2> QED
    BY <2>1 DEF FileTypes, Files
<1>2. CASE \E i \in Requests : Place(i)
  BY <1>2 DEF Place, Goto, Settle, Refused, Answer, LetGo, Mishap, FileTypes, Files
<1>3. CASE \E i \in Requests : CheckTurn(i)
  BY <1>3 DEF CheckTurn, Goto, Settle, Clear, Refused, Published, Answer, FileTypes, Files
<1>4. CASE TickBegin
  BY <1>4 DEF TickBegin, FileTypes, Files
<1>5. CASE \E old \in SUBSET Waiting, slow \in BOOLEAN : TickEnd(old, slow)
  BY <1>5 DEF TickEnd, Settle, Clear, Unlisted, FileTypes, Files
<1>6. CASE HookTake
  BY <1>6 DEF HookTake, Offered, FileTypes, Files
<1>7. CASE HookRetire
  BY <1>7 DEF HookRetire, Offered, FileTypes, Files
<1>8. CASE Crash
  BY <1>8 DEF Crash, Mishap, FileTypes, Files
<1>9. CASE Launch
  BY <1>9 DEF Launch, FileTypes, Files
<1> QED
  BY <1>1, <1>2, <1>3, <1>4, <1>5, <1>6, <1>7, <1>8, <1>9
     DEF Next, Step, Tick

\* The rows keep their types.
LEMMA RowsTyped ==
  ASSUME RowTypes, Next
  PROVE  RowTypes'
<1>1. CASE (\E i \in Requests : Admit(i)) \/ (\E i \in Requests : Claim(i))
           \/ (\E i \in Requests : ReadTurn(i)) \/ (\E i \in Requests : Profile(i))
           \/ (\E i \in Requests : TakeGuard(i)) \/ (\E i \in Requests : CheckClaim(i))
           \/ (\E i \in Requests : Mark(i)) \/ (\E i \in Requests : Discard(i)) \/ TickBegin
           \/ HookStart \/ HookTake \/ HookRetire \/ HookDies \/ ClaimAges \/ Crash \/ Prompt
           \/ TurnEnds \/ TurnCutShort \/ Launch
  <2>1. UNCHANGED <<row, reset>>
    BY <1>1 DEF Admit, Claim, ReadTurn, Profile, TakeGuard, CheckClaim, Mark, Discard, TickBegin,
       HookStart, HookTake, HookRetire, HookDies, ClaimAges, Crash, Prompt, TurnEnds, TurnCutShort,
       Launch
  <2> QED
    BY <2>1 DEF RowTypes
<1>2. CASE \E i \in Requests : Record(i)
  BY <1>2 DEF Record, Goto, RowTypes
<1>3. CASE \E i \in Requests : Place(i)
  BY <1>3 DEF Place, Goto, Settle, Refused, Answer, LetGo, Mishap, RowTypes
<1>4. CASE \E i \in Requests : CheckTurn(i)
  BY <1>4 DEF CheckTurn, Goto, Settle, Clear, Refused, Published, Answer, RowTypes
<1>5. CASE \E old \in SUBSET Waiting, slow \in BOOLEAN : TickEnd(old, slow)
  BY <1>5 DEF TickEnd, Settle, Clear, Unlisted, RowTypes
<1>6. CASE KeyReset
  BY <1>6 DEF KeyReset, RowTypes
<1> QED
  BY <1>1, <1>2, <1>3, <1>4, <1>5, <1>6
     DEF Next, Step, Tick

\* The receipt keeps its type.
LEMMA ReceiptTyped ==
  ASSUME ReceiptTypes, Next
  PROVE  ReceiptTypes'
<1>1. CASE (\E i \in Requests : ReadTurn(i)) \/ (\E i \in Requests : Profile(i))
           \/ (\E i \in Requests : TakeGuard(i)) \/ (\E i \in Requests : CheckClaim(i))
           \/ (\E i \in Requests : Place(i)) \/ (\E i \in Requests : CheckTurn(i)) \/ TickBegin
           \/ (\E old \in SUBSET Waiting, slow \in BOOLEAN : TickEnd(old, slow)) \/ HookStart
           \/ HookTake \/ HookRetire \/ HookDies \/ Crash \/ Prompt \/ TurnEnds \/ TurnCutShort
           \/ Launch
  <2>1. UNCHANGED <<receipt>>
    BY <1>1 DEF ReadTurn, Profile, TakeGuard, CheckClaim, Place, CheckTurn, TickBegin, TickEnd,
       HookStart, HookTake, HookRetire, HookDies, Crash, Prompt, TurnEnds, TurnCutShort, Launch
  <2> QED
    BY <2>1 DEF ReceiptTypes, NoReceipt
<1>2. CASE \E i \in Requests : Admit(i)
  BY <1>2 DEF Admit, Goto, Answer, ReceiptTypes, NoReceipt
<1>3. CASE \E i \in Requests : Claim(i)
  <2> PICK i \in Requests : Claim(i)
    BY <1>3
  <2>1. receipt' \in {receipt,
                   [receipt EXCEPT !.offer = "claiming", !.holder = i, !.stale = FALSE],
                   [receipt EXCEPT !.offer = "offered"], [receipt EXCEPT !.offer = "failed"]}
    BY DEF Claim
  <2> QED
    BY <2>1 DEF ReceiptTypes
<1>4. CASE \E i \in Requests : Record(i)
  BY <1>4 DEF Record, Goto, ReceiptTypes, NoReceipt
<1>5. CASE \E i \in Requests : Mark(i)
  BY <1>5 DEF Mark, Goto, ReceiptTypes, NoReceipt
<1>6. CASE \E i \in Requests : Discard(i)
  BY <1>6 DEF Discard, Goto, ReceiptTypes, NoReceipt
<1>7. CASE KeyReset
  BY <1>7 DEF KeyReset, ReceiptTypes, NoReceipt
<1>8. CASE ClaimAges
  BY <1>8 DEF ClaimAges, ReceiptTypes, NoReceipt
<1> QED
  BY <1>1, <1>2, <1>3, <1>4, <1>5, <1>6, <1>7, <1>8
     DEF Next, Step, Tick

\* What a request remembers keeps its type.
LEMMA TasksTyped ==
  ASSUME SessionTypes, TaskTypes, Next
  PROVE  TaskTypes'
<1>1. CASE TickBegin \/ (\E old \in SUBSET Waiting, slow \in BOOLEAN : TickEnd(old, slow))
           \/ HookStart \/ HookTake \/ HookRetire \/ HookDies \/ KeyReset \/ ClaimAges \/ Prompt
           \/ TurnEnds \/ TurnCutShort \/ Launch
  <2>1. UNCHANGED <<scene, pc, aim, dir, guard>>
    BY <1>1 DEF TickBegin, TickEnd, HookStart, HookTake, HookRetire, HookDies, KeyReset,
       ClaimAges, Prompt, TurnEnds, TurnCutShort, Launch, locals
  <2> QED
    BY <2>1 DEF SessionTypes, TaskTypes, Records
<1>2. CASE \E i \in Requests : Admit(i)
  BY <1>2, Bounds DEF Admit, Goto, Answer, SessionTypes, TaskTypes, Records
<1>3. CASE \E i \in Requests : Claim(i)
  BY <1>3, Bounds DEF Claim, Goto, Answer, SessionTypes, TaskTypes, Records
<1>4. CASE \E i \in Requests : ReadTurn(i)
  BY <1>4, Bounds DEF ReadTurn, Goto, SessionTypes, TaskTypes, Records
<1>5. CASE \E i \in Requests : Profile(i)
  BY <1>5, Bounds DEF Profile, Goto, Refused, Answer, SessionTypes, TaskTypes, Records
<1>6. CASE \E i \in Requests : TakeGuard(i)
  BY <1>6, Bounds DEF TakeGuard, Goto, Refused, Answer, SessionTypes, TaskTypes, Records
<1>7. CASE \E i \in Requests : CheckClaim(i)
  BY <1>7, Bounds DEF CheckClaim, Goto, Answer, LetGo, SessionTypes, TaskTypes, Records
<1>8. CASE \E i \in Requests : Record(i)
  BY <1>8, Bounds DEF Record, Goto, SessionTypes, TaskTypes, Records
<1>9. CASE \E i \in Requests : Place(i)
  BY <1>9, Bounds DEF Place, Goto, Settle, Refused, Answer, LetGo, Mishap, SessionTypes,
     TaskTypes, Records
<1>10. CASE \E i \in Requests : CheckTurn(i)
  BY <1>10, Bounds DEF CheckTurn, Goto, Settle, Clear, Refused, Published, Answer, SessionTypes,
     TaskTypes, Records
<1>11. CASE \E i \in Requests : Mark(i)
  BY <1>11, Bounds DEF Mark, Goto, SessionTypes, TaskTypes, Records
<1>12. CASE \E i \in Requests : Discard(i)
  BY <1>12, Bounds DEF Discard, Goto, SessionTypes, TaskTypes, Records
<1>13. CASE Crash
  BY <1>13, Bounds DEF Crash, Mishap, SessionTypes, TaskTypes, Records
<1> QED
  BY <1>1, <1>2, <1>3, <1>4, <1>5, <1>6, <1>7, <1>8, <1>9, <1>10, <1>11, <1>12, <1>13
     DEF Next, Step, Tick

\* The history keeps its types.
LEMMA HistoryTyped ==
  ASSUME SessionTypes, HistoryTypes, Next
  PROVE  HistoryTypes'
<1>1. CASE (\E i \in Requests : ReadTurn(i)) \/ (\E i \in Requests : Record(i))
           \/ (\E i \in Requests : Mark(i)) \/ (\E i \in Requests : Discard(i)) \/ TickBegin
           \/ HookStart \/ HookRetire \/ HookDies \/ KeyReset \/ ClaimAges \/ Crash \/ Prompt
           \/ TurnEnds \/ TurnCutShort \/ Launch
  <2>1. UNCHANGED <<scene, takenIn, answer, overlooked>>
    BY <1>1 DEF ReadTurn, Record, Mark, Discard, TickBegin, HookStart, HookRetire, HookDies,
       KeyReset, ClaimAges, Crash, Prompt, TurnEnds, TurnCutShort, Launch, history
  <2> QED
    BY <2>1 DEF SessionTypes, HistoryTypes, NotTaken
<1>2. CASE \E i \in Requests : Admit(i)
  BY <1>2, Bounds DEF Admit, Goto, Answer, SessionTypes, HistoryTypes, NotTaken
<1>3. CASE \E i \in Requests : Claim(i)
  BY <1>3, Bounds DEF Claim, Goto, Answer, SessionTypes, HistoryTypes, NotTaken
<1>4. CASE \E i \in Requests : Profile(i)
  BY <1>4, Bounds DEF Profile, Goto, Refused, Answer, SessionTypes, HistoryTypes, NotTaken
<1>5. CASE \E i \in Requests : TakeGuard(i)
  BY <1>5, Bounds DEF TakeGuard, Goto, Refused, Answer, SessionTypes, HistoryTypes, NotTaken
<1>6. CASE \E i \in Requests : CheckClaim(i)
  BY <1>6, Bounds DEF CheckClaim, Goto, Answer, LetGo, SessionTypes, HistoryTypes, NotTaken
<1>7. CASE \E i \in Requests : Place(i)
  BY <1>7, Bounds DEF Place, Goto, Settle, Refused, Answer, LetGo, Mishap, SessionTypes,
     HistoryTypes, NotTaken
<1>8. CASE \E i \in Requests : CheckTurn(i)
  BY <1>8, Bounds DEF CheckTurn, Goto, Settle, Clear, Refused, Published, Answer, SessionTypes,
     HistoryTypes, NotTaken
<1>9. CASE \E old \in SUBSET Waiting, slow \in BOOLEAN : TickEnd(old, slow)
  BY <1>9, Bounds DEF TickEnd, Settle, Clear, Unlisted, SessionTypes, HistoryTypes, NotTaken
<1>10. CASE HookTake
  BY <1>10, Bounds DEF HookTake, Offered, SessionTypes, HistoryTypes, NotTaken
<1> QED
  BY <1>1, <1>2, <1>3, <1>4, <1>5, <1>6, <1>7, <1>8, <1>9, <1>10
     DEF Next, Step, Tick

-----------------------------------------------------------------------------
(***************************************************************************)
(* Every steer                                                             *)
(***************************************************************************)
\* The record of the hook, through any step.
LEMMA RecordKept ==
  ASSUME SessionTypes, RecordOK, Next
  PROVE  RecordOK'
<1>1. CASE (\E i \in Requests : Admit(i)) \/ (\E i \in Requests : Claim(i))
           \/ (\E i \in Requests : ReadTurn(i)) \/ (\E i \in Requests : Profile(i))
           \/ (\E i \in Requests : TakeGuard(i)) \/ (\E i \in Requests : CheckClaim(i))
           \/ (\E i \in Requests : Record(i)) \/ (\E i \in Requests : Place(i))
           \/ (\E i \in Requests : CheckTurn(i)) \/ (\E i \in Requests : Mark(i))
           \/ (\E i \in Requests : Discard(i)) \/ TickBegin
           \/ (\E old \in SUBSET Waiting, slow \in BOOLEAN : TickEnd(old, slow)) \/ KeyReset
           \/ ClaimAges \/ Crash
  <2>1. UNCHANGED <<launch, turn, phase, record, hook>>
    BY <1>1 DEF Admit, Claim, ReadTurn, Profile, TakeGuard, CheckClaim, Record, Place, CheckTurn,
       Mark, Discard, TickBegin, TickEnd, KeyReset, ClaimAges, Crash, session
  <2> QED
    BY <2>1 DEF SessionTypes, RecordOK, Records
<1>2. CASE HookStart
  BY <1>2, Bounds DEF HookStart, SessionTypes, RecordOK, Records, session
<1>3. CASE HookTake
  BY <1>3, Bounds DEF HookTake, Offered, SessionTypes, RecordOK, Records, session
<1>4. CASE HookRetire
  BY <1>4, Bounds DEF HookRetire, Offered, SessionTypes, RecordOK, Records, session
<1>5. CASE HookDies
  BY <1>5, Bounds DEF HookDies, Mishap, SessionTypes, RecordOK, Records, session
<1>6. CASE Prompt
  BY <1>6, Bounds DEF Prompt, SessionTypes, RecordOK, Records
<1>7. CASE TurnEnds
  BY <1>7, Bounds DEF TurnEnds, SessionTypes, RecordOK, Records
<1>8. CASE TurnCutShort
  BY <1>8, Bounds DEF TurnCutShort, SessionTypes, RecordOK, Records
<1>9. CASE Launch
  BY <1>9, Bounds DEF Launch, SessionTypes, RecordOK, Records
<1> QED
  BY <1>1, <1>2, <1>3, <1>4, <1>5, <1>6, <1>7, <1>8, <1>9
     DEF Next, Step, Tick

\* The turns that requests are for, through any step.
LEMMA AimKept ==
  ASSUME SessionTypes, TaskTypes, RecordOK, AimOK, Next
  PROVE  AimOK'
<1>1. CASE (\E i \in Requests : Admit(i)) \/ (\E i \in Requests : Claim(i))
           \/ (\E i \in Requests : Profile(i)) \/ (\E i \in Requests : TakeGuard(i))
           \/ (\E i \in Requests : CheckClaim(i)) \/ (\E i \in Requests : Record(i))
           \/ (\E i \in Requests : Place(i)) \/ (\E i \in Requests : CheckTurn(i))
           \/ (\E i \in Requests : Mark(i)) \/ (\E i \in Requests : Discard(i)) \/ TickBegin
           \/ (\E old \in SUBSET Waiting, slow \in BOOLEAN : TickEnd(old, slow)) \/ HookTake
           \/ HookRetire \/ HookDies \/ KeyReset \/ ClaimAges \/ Crash \/ TurnCutShort \/ Launch
  <2>1. UNCHANGED <<aim, record>>
    BY <1>1 DEF Admit, Claim, Profile, TakeGuard, CheckClaim, Record, Place, CheckTurn, Mark,
       Discard, TickBegin, TickEnd, HookTake, HookRetire, HookDies, KeyReset, ClaimAges, Crash,
       TurnCutShort, Launch, locals
  <2> QED
    BY <2>1 DEF SessionTypes, TaskTypes, RecordOK, AimOK, Records
<1>2. CASE \E i \in Requests : ReadTurn(i)
  BY <1>2, Bounds DEF ReadTurn, Goto, SessionTypes, TaskTypes, RecordOK, AimOK, Records
<1>3. CASE HookStart
  BY <1>3, Bounds DEF HookStart, SessionTypes, TaskTypes, RecordOK, AimOK, Records
<1>4. CASE Prompt
  BY <1>4, Bounds DEF Prompt, SessionTypes, TaskTypes, RecordOK, AimOK, Records
<1>5. CASE TurnEnds
  BY <1>5, Bounds DEF TurnEnds, SessionTypes, TaskTypes, RecordOK, AimOK, Records
<1> QED
  BY <1>1, <1>2, <1>3, <1>4, <1>5
     DEF Next, Step, Tick

\* The files and the answers, through any step.
LEMMA FilesKept ==
  ASSUME FileTypes, RowTypes, TaskTypes, HistoryTypes, SessionTypes, FilesOK, ListedOK, Next
  PROVE  FilesOK'
<1>1. CASE TickBegin \/ HookStart \/ HookDies \/ KeyReset \/ ClaimAges \/ Prompt \/ TurnEnds
           \/ TurnCutShort
  <2>1. UNCHANGED <<pc, file, row, takenIn, answer>>
    BY <1>1 DEF TickBegin, HookStart, HookDies, KeyReset, ClaimAges, Prompt, TurnEnds,
       TurnCutShort, locals, history
  <2> QED
    BY <2>1 DEF FileTypes, Files, RowTypes, TaskTypes, HistoryTypes, FilesOK, Before, Taken
<1>2. CASE \E i \in Requests : Admit(i)
  BY <1>2 DEF Admit, Goto, Answer, FileTypes, Files, RowTypes, TaskTypes, HistoryTypes, FilesOK,
     Before, Taken
<1>3. CASE \E i \in Requests : Claim(i)
  BY <1>3 DEF Claim, Goto, Answer, FileTypes, Files, RowTypes, TaskTypes, HistoryTypes, FilesOK,
     Before, Taken
<1>4. CASE \E i \in Requests : ReadTurn(i)
  BY <1>4 DEF ReadTurn, Goto, FileTypes, Files, RowTypes, TaskTypes, HistoryTypes, FilesOK,
     Before, Taken, history
<1>5. CASE \E i \in Requests : Profile(i)
  BY <1>5 DEF Profile, Goto, Refused, Answer, FileTypes, Files, RowTypes, TaskTypes,
     HistoryTypes, FilesOK, Before, Taken
<1>6. CASE \E i \in Requests : TakeGuard(i)
  BY <1>6 DEF TakeGuard, Goto, Refused, Answer, FileTypes, Files, RowTypes, TaskTypes,
     HistoryTypes, FilesOK, Before, Taken
<1>7. CASE \E i \in Requests : CheckClaim(i)
  BY <1>7 DEF CheckClaim, Goto, Answer, LetGo, FileTypes, Files, RowTypes, TaskTypes,
     HistoryTypes, FilesOK, Before, Taken
<1>8. CASE \E i \in Requests : Record(i)
  BY <1>8 DEF Record, Goto, FileTypes, Files, RowTypes, TaskTypes, HistoryTypes, FilesOK,
     Before, Taken, history
<1>9. CASE \E i \in Requests : Place(i)
  BY <1>9 DEF Place, Goto, Settle, Refused, Answer, LetGo, Mishap, FileTypes, Files, RowTypes,
     TaskTypes, HistoryTypes, FilesOK, Before, Taken
<1>10. CASE \E i \in Requests : CheckTurn(i)
  BY <1>10 DEF CheckTurn, Goto, Settle, Clear, Refused, Published, Answer, FileTypes, Files,
     RowTypes, TaskTypes, HistoryTypes, FilesOK, Before, Taken
<1>11. CASE \E i \in Requests : Mark(i)
  BY <1>11 DEF Mark, Goto, FileTypes, Files, RowTypes, TaskTypes, HistoryTypes, FilesOK, Before,
     Taken, history
<1>12. CASE \E i \in Requests : Discard(i)
  BY <1>12 DEF Discard, Goto, FileTypes, Files, RowTypes, TaskTypes, HistoryTypes, FilesOK,
     Before, Taken, history
<1>13. CASE \E old \in SUBSET Waiting, slow \in BOOLEAN : TickEnd(old, slow)
  <2> PICK old \in SUBSET Waiting, slow \in BOOLEAN : TickEnd(old, slow)
    BY <1>13
  <2>1. UNCHANGED <<pc, takenIn, answer>> /\ listed # <<>>
    BY DEF TickEnd, locals
  <2>2. \A i \in Requests : file'[i] = file[i] \/ file'[i] = "none"
    BY DEF TickEnd, Clear
  <2>3. \A i \in Requests : pc[i] \in Before => row'[i] = row[i]
    BY <2>1 DEF TickEnd, Settle, Unlisted, FilesOK, ListedOK
  <2> QED
    BY <2>1, <2>2, <2>3 DEF FilesOK, Taken
<1>14. CASE HookTake
  <2>1. UNCHANGED <<pc, row, answer>>
    BY <1>14 DEF HookTake, locals
  <2>2. \A i \in Requests :
           \/ file'[i] = "taken" /\ file[i] = "offered" /\ takenIn'[i] # NotTaken
           \/ file'[i] = "missed" /\ file[i] = "offered" /\ takenIn'[i] = takenIn[i]
           \/ file'[i] = file[i] /\ takenIn'[i] = takenIn[i]
    BY <1>14, Bounds DEF HookTake, Offered, SessionTypes, NotTaken
  <2> QED
    BY <2>1, <2>2 DEF FilesOK, Taken, Before
<1>15. CASE HookRetire
  BY <1>15 DEF HookRetire, Offered, FileTypes, Files, RowTypes, TaskTypes, HistoryTypes,
     FilesOK, Before, Taken, locals, history
<1>16. CASE Crash
  BY <1>16 DEF Crash, Mishap, FileTypes, Files, RowTypes, TaskTypes, HistoryTypes, FilesOK,
     Before, Taken, history
<1>17. CASE Launch
  BY <1>17 DEF Launch, FileTypes, Files, RowTypes, TaskTypes, HistoryTypes, FilesOK, Before,
     Taken, locals, history
<1> QED
  BY <1>1, <1>2, <1>3, <1>4, <1>5, <1>6, <1>7, <1>8, <1>9, <1>10, <1>11, <1>12, <1>13, <1>14,
     <1>15, <1>16, <1>17
     DEF Next, Step, Tick

\* What a settler listed, through any step.
LEMMA ListedKept ==
  ASSUME FileTypes, RowTypes, TaskTypes, HistoryTypes, SessionTypes, FilesOK, ListedOK, Next
  PROVE  ListedOK'
<1>1. CASE HookStart \/ HookDies \/ KeyReset \/ ClaimAges \/ Prompt \/ TurnEnds \/ TurnCutShort
  <2>1. UNCHANGED <<pc, file, listed, takenIn>>
    BY <1>1 DEF HookStart, HookDies, KeyReset, ClaimAges, Prompt, TurnEnds, TurnCutShort, locals,
       history
  <2> QED
    BY <2>1 DEF FileTypes, Files, TaskTypes, HistoryTypes, FilesOK, ListedOK, Before, Taken
<1>2. CASE \E i \in Requests : Admit(i)
  BY <1>2 DEF Admit, Goto, Answer, FileTypes, Files, TaskTypes, HistoryTypes, FilesOK, ListedOK,
     Before, Taken
<1>3. CASE \E i \in Requests : Claim(i)
  BY <1>3 DEF Claim, Goto, Answer, FileTypes, Files, TaskTypes, HistoryTypes, FilesOK, ListedOK,
     Before, Taken
<1>4. CASE \E i \in Requests : ReadTurn(i)
  BY <1>4 DEF ReadTurn, Goto, FileTypes, Files, TaskTypes, HistoryTypes, FilesOK, ListedOK,
     Before, Taken, history
<1>5. CASE \E i \in Requests : Profile(i)
  BY <1>5 DEF Profile, Goto, Refused, Answer, FileTypes, Files, TaskTypes, HistoryTypes,
     FilesOK, ListedOK, Before, Taken
<1>6. CASE \E i \in Requests : TakeGuard(i)
  BY <1>6 DEF TakeGuard, Goto, Refused, Answer, FileTypes, Files, TaskTypes, HistoryTypes,
     FilesOK, ListedOK, Before, Taken
<1>7. CASE \E i \in Requests : CheckClaim(i)
  BY <1>7 DEF CheckClaim, Goto, Answer, LetGo, FileTypes, Files, TaskTypes, HistoryTypes,
     FilesOK, ListedOK, Before, Taken
<1>8. CASE \E i \in Requests : Record(i)
  BY <1>8 DEF Record, Goto, FileTypes, Files, TaskTypes, HistoryTypes, FilesOK, ListedOK,
     Before, Taken, history
<1>9. CASE \E i \in Requests : Place(i)
  BY <1>9 DEF Place, Goto, Settle, Refused, Answer, LetGo, Mishap, FileTypes, Files, TaskTypes,
     HistoryTypes, FilesOK, ListedOK, Before, Taken
<1>10. CASE \E i \in Requests : CheckTurn(i)
  BY <1>10 DEF CheckTurn, Goto, Settle, Clear, Refused, Published, Answer, FileTypes, Files,
     TaskTypes, HistoryTypes, FilesOK, ListedOK, Before, Taken
<1>11. CASE \E i \in Requests : Mark(i)
  BY <1>11 DEF Mark, Goto, FileTypes, Files, TaskTypes, HistoryTypes, FilesOK, ListedOK, Before,
     Taken, history
<1>12. CASE \E i \in Requests : Discard(i)
  BY <1>12 DEF Discard, Goto, FileTypes, Files, TaskTypes, HistoryTypes, FilesOK, ListedOK,
     Before, Taken, history
<1>13. CASE TickBegin
  BY <1>13 DEF TickBegin, FileTypes, Files, TaskTypes, HistoryTypes, FilesOK, ListedOK, Before,
     Taken, locals, history
<1>14. CASE \E old \in SUBSET Waiting, slow \in BOOLEAN : TickEnd(old, slow)
  BY <1>14 DEF TickEnd, Settle, Clear, Unlisted, FileTypes, Files, TaskTypes, HistoryTypes,
     FilesOK, ListedOK, Before, Taken, locals
<1>15. CASE HookTake
  BY <1>15 DEF HookTake, Offered, FileTypes, Files, TaskTypes, HistoryTypes, FilesOK, ListedOK,
     Before, Taken, locals
<1>16. CASE HookRetire
  BY <1>16 DEF HookRetire, Offered, FileTypes, Files, TaskTypes, HistoryTypes, FilesOK,
     ListedOK, Before, Taken, locals, history
<1>17. CASE Crash
  BY <1>17 DEF Crash, Mishap, FileTypes, Files, TaskTypes, HistoryTypes, FilesOK, ListedOK,
     Before, Taken, history
<1>18. CASE Launch
  BY <1>18 DEF Launch, FileTypes, Files, TaskTypes, HistoryTypes, FilesOK, ListedOK, Before,
     Taken, locals, history
<1> QED
  BY <1>1, <1>2, <1>3, <1>4, <1>5, <1>6, <1>7, <1>8, <1>9, <1>10, <1>11, <1>12, <1>13, <1>14,
     <1>15, <1>16, <1>17, <1>18
     DEF Next, Step, Tick

\* The rows, through any step.
LEMMA RowsKept ==
  ASSUME FileTypes, RowTypes, TaskTypes, HistoryTypes, SessionTypes, FilesOK, ListedOK, RowsOK, Next
  PROVE  RowsOK'
<1>1. CASE TickBegin \/ HookStart \/ HookDies \/ KeyReset \/ ClaimAges \/ Prompt \/ TurnEnds
           \/ TurnCutShort
  <2>1. UNCHANGED <<pc, file, row, takenIn, overlooked>>
    BY <1>1 DEF TickBegin, HookStart, HookDies, KeyReset, ClaimAges, Prompt, TurnEnds,
       TurnCutShort, locals, history
  <2> QED
    BY <2>1 DEF FileTypes, Files, RowTypes, TaskTypes, HistoryTypes, FilesOK, ListedOK, RowsOK,
       Before, Taken
<1>2. CASE \E i \in Requests : Admit(i)
  BY <1>2 DEF Admit, Goto, Answer, FileTypes, Files, RowTypes, TaskTypes, HistoryTypes, FilesOK,
     ListedOK, RowsOK, Before, Taken
<1>3. CASE \E i \in Requests : Claim(i)
  BY <1>3 DEF Claim, Goto, Answer, FileTypes, Files, RowTypes, TaskTypes, HistoryTypes, FilesOK,
     ListedOK, RowsOK, Before, Taken
<1>4. CASE \E i \in Requests : ReadTurn(i)
  BY <1>4 DEF ReadTurn, Goto, FileTypes, Files, RowTypes, TaskTypes, HistoryTypes, FilesOK,
     ListedOK, RowsOK, Before, Taken, history
<1>5. CASE \E i \in Requests : Profile(i)
  BY <1>5 DEF Profile, Goto, Refused, Answer, FileTypes, Files, RowTypes, TaskTypes,
     HistoryTypes, FilesOK, ListedOK, RowsOK, Before, Taken
<1>6. CASE \E i \in Requests : TakeGuard(i)
  BY <1>6 DEF TakeGuard, Goto, Refused, Answer, FileTypes, Files, RowTypes, TaskTypes,
     HistoryTypes, FilesOK, ListedOK, RowsOK, Before, Taken
<1>7. CASE \E i \in Requests : CheckClaim(i)
  BY <1>7 DEF CheckClaim, Goto, Answer, LetGo, FileTypes, Files, RowTypes, TaskTypes,
     HistoryTypes, FilesOK, ListedOK, RowsOK, Before, Taken
<1>8. CASE \E i \in Requests : Record(i)
  BY <1>8 DEF Record, Goto, FileTypes, Files, RowTypes, TaskTypes, HistoryTypes, FilesOK,
     ListedOK, RowsOK, Before, Taken, history
<1>9. CASE \E i \in Requests : Place(i)
  BY <1>9 DEF Place, Goto, Settle, Refused, Answer, LetGo, Mishap, FileTypes, Files, RowTypes,
     TaskTypes, HistoryTypes, FilesOK, ListedOK, RowsOK, Before, Taken
<1>10. CASE \E i \in Requests : CheckTurn(i)
  BY <1>10 DEF CheckTurn, Goto, Settle, Clear, Refused, Published, Answer, FileTypes, Files,
     RowTypes, TaskTypes, HistoryTypes, FilesOK, ListedOK, RowsOK, Before, Taken
<1>11. CASE \E i \in Requests : Mark(i)
  BY <1>11 DEF Mark, Goto, FileTypes, Files, RowTypes, TaskTypes, HistoryTypes, FilesOK,
     ListedOK, RowsOK, Before, Taken, history
<1>12. CASE \E i \in Requests : Discard(i)
  BY <1>12 DEF Discard, Goto, FileTypes, Files, RowTypes, TaskTypes, HistoryTypes, FilesOK,
     ListedOK, RowsOK, Before, Taken, history
<1>13. CASE \E old \in SUBSET Waiting, slow \in BOOLEAN : TickEnd(old, slow)
  BY <1>13 DEF TickEnd, Settle, Clear, Unlisted, FileTypes, Files, RowTypes, TaskTypes,
     HistoryTypes, FilesOK, ListedOK, RowsOK, Before, Taken, locals
<1>14. CASE HookTake
  BY <1>14 DEF HookTake, Offered, FileTypes, Files, RowTypes, TaskTypes, HistoryTypes, FilesOK,
     ListedOK, RowsOK, Before, Taken, locals
<1>15. CASE HookRetire
  BY <1>15 DEF HookRetire, Offered, FileTypes, Files, RowTypes, TaskTypes, HistoryTypes,
     FilesOK, ListedOK, RowsOK, Before, Taken, locals, history
<1>16. CASE Crash
  BY <1>16 DEF Crash, Mishap, FileTypes, Files, RowTypes, TaskTypes, HistoryTypes, FilesOK,
     ListedOK, RowsOK, Before, Taken, history
<1>17. CASE Launch
  BY <1>17 DEF Launch, FileTypes, Files, RowTypes, TaskTypes, HistoryTypes, FilesOK, ListedOK,
     RowsOK, Before, Taken, locals, history
<1> QED
  BY <1>1, <1>2, <1>3, <1>4, <1>5, <1>6, <1>7, <1>8, <1>9, <1>10, <1>11, <1>12, <1>13, <1>14,
     <1>15, <1>16, <1>17
     DEF Next, Step, Tick

\* A steer is taken in its turn: the hook that takes offers runs in the turn it recorded.
LEMMA TurnKept ==
  ASSUME TaskTypes, HistoryTypes, RecordOK, AimOK, FilesOK, InItsTurn, Next
  PROVE  InItsTurn'
<1>1. CASE (\E i \in Requests : Admit(i)) \/ (\E i \in Requests : Claim(i))
           \/ (\E i \in Requests : Profile(i)) \/ (\E i \in Requests : TakeGuard(i))
           \/ (\E i \in Requests : CheckClaim(i)) \/ (\E i \in Requests : Record(i))
           \/ (\E i \in Requests : Place(i)) \/ (\E i \in Requests : CheckTurn(i))
           \/ (\E i \in Requests : Mark(i)) \/ (\E i \in Requests : Discard(i)) \/ TickBegin
           \/ (\E old \in SUBSET Waiting, slow \in BOOLEAN : TickEnd(old, slow)) \/ HookStart
           \/ HookRetire \/ HookDies \/ KeyReset \/ ClaimAges \/ Crash \/ Prompt \/ TurnEnds
           \/ TurnCutShort \/ Launch
  <2>1. UNCHANGED <<aim, takenIn>>
    BY <1>1 DEF Admit, Claim, Profile, TakeGuard, CheckClaim, Record, Place, CheckTurn, Mark,
       Discard, TickBegin, TickEnd, HookStart, HookRetire, HookDies, KeyReset, ClaimAges, Crash,
       Prompt, TurnEnds, TurnCutShort, Launch, locals, history
  <2> QED
    BY <2>1 DEF TaskTypes, HistoryTypes, FilesOK, InItsTurn, Taken, Before
<1>2. CASE \E i \in Requests : ReadTurn(i)
  BY <1>2 DEF ReadTurn, Goto, TaskTypes, HistoryTypes, FilesOK, InItsTurn, Taken, Before,
     history
<1>3. CASE HookTake
  <2>1. UNCHANGED <<aim, record, turn, phase>>
    BY <1>3 DEF HookTake, session, locals
  <2>2. ASSUME NEW i \in Requests, takenIn'[i] # takenIn[i], aim[i].turn # 0
        PROVE  takenIn'[i] = aim[i].turn
    <3>1. /\ hook = "take" /\ ~ForAnEarlierTurn(i)
          /\ takenIn'[i] = IF phase = "working" THEN turn ELSE 0
      BY <1>3, <2>2 DEF HookTake, HistoryTypes
    <3>2. aim[i].launch # 0 /\ (aim[i].launch = record.launch => record.turn # 0)
      BY <2>2 DEF AimOK
    <3>3. record.turn # 0 /\ aim[i].turn = record.turn
      BY <2>2, <3>1, <3>2 DEF ForAnEarlierTurn
    <3> QED
      BY <3>1, <3>3 DEF RecordOK
  <2> QED
    BY <2>1, <2>2 DEF InItsTurn, Taken
<1> QED
  BY <1>1, <1>2, <1>3
     DEF Next, Step, Tick

\* Only the request itself writes the offer of its steer.
LEMMA OfferStep ==
  ASSUME NEW i \in Requests, FileTypes, file[i] = "none", file'[i] = "offered", Next
  PROVE  pc[i] = "place"
<1>1. CASE (\E j \in Requests : Admit(j)) \/ (\E j \in Requests : Claim(j))
           \/ (\E j \in Requests : ReadTurn(j)) \/ (\E j \in Requests : Profile(j))
           \/ (\E j \in Requests : TakeGuard(j)) \/ (\E j \in Requests : CheckClaim(j))
           \/ (\E j \in Requests : Record(j)) \/ (\E j \in Requests : Mark(j))
           \/ (\E j \in Requests : Discard(j)) \/ TickBegin \/ HookStart \/ HookDies \/ KeyReset
           \/ ClaimAges \/ Crash \/ Prompt \/ TurnEnds \/ TurnCutShort
  <2>1. UNCHANGED <<file>>
    BY <1>1 DEF Admit, Claim, ReadTurn, Profile, TakeGuard, CheckClaim, Record, Mark, Discard,
       TickBegin, HookStart, HookDies, KeyReset, ClaimAges, Crash, Prompt, TurnEnds, TurnCutShort
  <2> QED
    BY <2>1 DEF FileTypes, Files
<1>2. CASE \E j \in Requests : Place(j)
  BY <1>2 DEF Place, Goto, Settle, Refused, Answer, LetGo, Mishap, FileTypes, Files
<1>3. CASE \E j \in Requests : CheckTurn(j)
  BY <1>3 DEF CheckTurn, Goto, Settle, Clear, Refused, Published, Answer, FileTypes, Files
<1>4. CASE \E old \in SUBSET Waiting, slow \in BOOLEAN : TickEnd(old, slow)
  BY <1>4 DEF TickEnd, Settle, Clear, Unlisted, FileTypes, Files
<1>5. CASE HookTake
  BY <1>5 DEF HookTake, Offered, FileTypes, Files
<1>6. CASE HookRetire
  BY <1>6 DEF HookRetire, Offered, FileTypes, Files
<1>7. CASE Launch
  BY <1>7 DEF Launch, FileTypes, Files
<1> QED
  BY <1>1, <1>2, <1>3, <1>4, <1>5, <1>6, <1>7
     DEF Next, Step, Tick

-----------------------------------------------------------------------------
(***************************************************************************)
(* The confirmed steer: its claim and the guard                            *)
(***************************************************************************)
\* A confirmed steer comes to life when its request records the attempt.
LEMMA LiveStep ==
  ASSUME NEW i \in confirmed, SessionTypes, FileTypes, TaskTypes, HistoryTypes, Live(i)', Next
  PROVE  Live(i) \/ (pc[i] = "record" /\ Record(i))
<1>1. CASE TickBegin \/ HookStart \/ HookDies \/ KeyReset \/ ClaimAges \/ Prompt \/ TurnEnds
           \/ TurnCutShort
  <2>1. UNCHANGED <<pc, file, takenIn, scene>>
    BY <1>1 DEF TickBegin, HookStart, HookDies, KeyReset, ClaimAges, Prompt, TurnEnds,
       TurnCutShort, locals, history
  <2> QED
    BY <2>1 DEF SessionTypes, FileTypes, Files, TaskTypes, HistoryTypes, Live, Taken, confirmed
<1>2. CASE \E j \in Requests : Admit(j)
  BY <1>2, Bounds DEF Admit, Goto, Answer, SessionTypes, FileTypes, Files, TaskTypes,
     HistoryTypes, Live, Taken, confirmed
<1>3. CASE \E j \in Requests : Claim(j)
  BY <1>3, Bounds DEF Claim, Goto, Answer, SessionTypes, FileTypes, Files, TaskTypes,
     HistoryTypes, Live, Taken, confirmed
<1>4. CASE \E j \in Requests : ReadTurn(j)
  BY <1>4, Bounds DEF ReadTurn, Goto, SessionTypes, FileTypes, Files, TaskTypes, HistoryTypes,
     Live, Taken, confirmed, history
<1>5. CASE \E j \in Requests : Profile(j)
  BY <1>5, Bounds DEF Profile, Goto, Refused, Answer, SessionTypes, FileTypes, Files, TaskTypes,
     HistoryTypes, Live, Taken, confirmed
<1>6. CASE \E j \in Requests : TakeGuard(j)
  BY <1>6, Bounds DEF TakeGuard, Goto, Refused, Answer, SessionTypes, FileTypes, Files,
     TaskTypes, HistoryTypes, Live, Taken, confirmed
<1>7. CASE \E j \in Requests : CheckClaim(j)
  BY <1>7, Bounds DEF CheckClaim, Goto, Answer, LetGo, SessionTypes, FileTypes, Files,
     TaskTypes, HistoryTypes, Live, Taken, confirmed
<1>8. CASE \E j \in Requests : Record(j)
  BY <1>8, Bounds DEF Record, Goto, SessionTypes, FileTypes, Files, TaskTypes, HistoryTypes,
     Live, Taken, confirmed, history
<1>9. CASE \E j \in Requests : Place(j)
  BY <1>9, Bounds DEF Place, Goto, Settle, Refused, Answer, LetGo, Mishap, SessionTypes,
     FileTypes, Files, TaskTypes, HistoryTypes, Live, Taken, confirmed
<1>10. CASE \E j \in Requests : CheckTurn(j)
  BY <1>10, Bounds DEF CheckTurn, Goto, Settle, Clear, Refused, Published, Answer, SessionTypes,
     FileTypes, Files, TaskTypes, HistoryTypes, Live, Taken, confirmed
<1>11. CASE \E j \in Requests : Mark(j)
  BY <1>11, Bounds DEF Mark, Goto, SessionTypes, FileTypes, Files, TaskTypes, HistoryTypes,
     Live, Taken, confirmed, history
<1>12. CASE \E j \in Requests : Discard(j)
  BY <1>12, Bounds DEF Discard, Goto, SessionTypes, FileTypes, Files, TaskTypes, HistoryTypes,
     Live, Taken, confirmed, history
<1>13. CASE \E old \in SUBSET Waiting, slow \in BOOLEAN : TickEnd(old, slow)
  BY <1>13, Bounds DEF TickEnd, Settle, Clear, Unlisted, SessionTypes, FileTypes, Files,
     TaskTypes, HistoryTypes, Live, Taken, confirmed, locals
<1>14. CASE HookTake
  BY <1>14, Bounds DEF HookTake, Offered, SessionTypes, FileTypes, Files, TaskTypes,
     HistoryTypes, Live, Taken, confirmed, locals
<1>15. CASE HookRetire
  BY <1>15, Bounds DEF HookRetire, Offered, SessionTypes, FileTypes, Files, TaskTypes,
     HistoryTypes, Live, Taken, confirmed, locals, history
<1>16. CASE Crash
  BY <1>16, Bounds DEF Crash, Mishap, SessionTypes, FileTypes, Files, TaskTypes, HistoryTypes,
     Live, Taken, confirmed, history
<1>17. CASE Launch
  BY <1>17, Bounds DEF Launch, SessionTypes, FileTypes, Files, TaskTypes, HistoryTypes, Live,
     Taken, confirmed, locals, history
<1> QED
  BY <1>1, <1>2, <1>3, <1>4, <1>5, <1>6, <1>7, <1>8, <1>9, <1>10, <1>11, <1>12, <1>13, <1>14,
     <1>15, <1>16, <1>17
     DEF Next, Step, Tick

\* A confirmed request comes to its attempt from the check of its claim.
LEMMA ToRecord ==
  ASSUME NEW i \in confirmed, SessionTypes, TaskTypes, pc[i] # "record", pc'[i] = "record", Next
  PROVE  pc[i] = "holds" /\ receipt.holder = i /\ receipt.offer = "claiming"
            /\ UNCHANGED <<receipt, reset, guard>>
<1>1. CASE TickBegin \/ (\E old \in SUBSET Waiting, slow \in BOOLEAN : TickEnd(old, slow))
           \/ HookStart \/ HookTake \/ HookRetire \/ HookDies \/ KeyReset \/ ClaimAges \/ Prompt
           \/ TurnEnds \/ TurnCutShort \/ Launch
  <2>1. UNCHANGED <<pc, scene>>
    BY <1>1 DEF TickBegin, TickEnd, HookStart, HookTake, HookRetire, HookDies, KeyReset,
       ClaimAges, Prompt, TurnEnds, TurnCutShort, Launch, locals
  <2> QED
    BY <2>1 DEF SessionTypes, TaskTypes, confirmed
<1>2. CASE \E j \in Requests : Admit(j)
  BY <1>2, Bounds DEF Admit, Goto, Answer, SessionTypes, TaskTypes, confirmed
<1>3. CASE \E j \in Requests : Claim(j)
  BY <1>3, Bounds DEF Claim, Goto, Answer, SessionTypes, TaskTypes, confirmed
<1>4. CASE \E j \in Requests : ReadTurn(j)
  BY <1>4, Bounds DEF ReadTurn, Goto, SessionTypes, TaskTypes, confirmed
<1>5. CASE \E j \in Requests : Profile(j)
  BY <1>5, Bounds DEF Profile, Goto, Refused, Answer, SessionTypes, TaskTypes, confirmed
<1>6. CASE \E j \in Requests : TakeGuard(j)
  BY <1>6, Bounds DEF TakeGuard, Goto, Refused, Answer, SessionTypes, TaskTypes, confirmed
<1>7. CASE \E j \in Requests : CheckClaim(j)
  BY <1>7, Bounds DEF CheckClaim, Goto, Answer, LetGo, SessionTypes, TaskTypes, confirmed
<1>8. CASE \E j \in Requests : Record(j)
  BY <1>8, Bounds DEF Record, Goto, SessionTypes, TaskTypes, confirmed
<1>9. CASE \E j \in Requests : Place(j)
  BY <1>9, Bounds DEF Place, Goto, Settle, Refused, Answer, LetGo, Mishap, SessionTypes,
     TaskTypes, confirmed
<1>10. CASE \E j \in Requests : CheckTurn(j)
  BY <1>10, Bounds DEF CheckTurn, Goto, Settle, Clear, Refused, Published, Answer, SessionTypes,
     TaskTypes, confirmed
<1>11. CASE \E j \in Requests : Mark(j)
  BY <1>11, Bounds DEF Mark, Goto, SessionTypes, TaskTypes, confirmed
<1>12. CASE \E j \in Requests : Discard(j)
  BY <1>12, Bounds DEF Discard, Goto, SessionTypes, TaskTypes, confirmed
<1>13. CASE Crash
  BY <1>13, Bounds DEF Crash, Mishap, SessionTypes, TaskTypes, confirmed
<1> QED
  BY <1>1, <1>2, <1>3, <1>4, <1>5, <1>6, <1>7, <1>8, <1>9, <1>10, <1>11, <1>12, <1>13
     DEF Next, Step, Tick

\* Who carries the confirmation stays fixed.
LEMMA SceneKept ==
  ASSUME SessionTypes, Next
  PROVE  confirmed' = confirmed /\ confirmed \subseteq Requests
<1>1. scene' = scene
  BY DEF Next, Step, Tick, Admit, Claim, ReadTurn, Profile, TakeGuard, CheckClaim, Record,
         Place, CheckTurn, Mark, Discard, TickBegin, TickEnd, HookStart, HookTake, HookRetire,
         HookDies, KeyReset, ClaimAges, Crash, Prompt, TurnEnds, TurnCutShort, Launch
<1> QED
  BY <1>1, Bounds DEF SessionTypes, confirmed

\* The claim, through any step: whoever takes it over finds no attempt recorded, and no
\* request about to record one; who gives it up has not published.
LEMMA ClaimKept ==
  ASSUME LateTakeover = FALSE, SessionTypes, FileTypes, ReceiptTypes, TaskTypes, HistoryTypes,
         FilesOK, ClaimOK, Next
  PROVE  ClaimOK'
<1>1. confirmed' = confirmed /\ confirmed \subseteq Requests
  BY SceneKept
<1>2. ASSUME NEW i \in confirmed, Live(i)'
      PROVE  \/ receipt.last = i /\ receipt.holder = i
             \/ pc[i] = "record" /\ Record(i) /\ receipt.holder = i
  BY <1>2, LiveStep DEF ClaimOK
<1>3. ASSUME NEW i \in confirmed, pc'[i] = "record"
      PROVE  receipt.holder = i /\ (pc[i] = "record" \/ UNCHANGED receipt)
  BY <1>3, ToRecord DEF ClaimOK
<1>4. ASSUME UNCHANGED receipt  PROVE ClaimOK'
  <2>1. ASSUME NEW i \in confirmed, Live(i)'
        PROVE  receipt.last = i /\ receipt.holder = i
    <3>1. CASE Record(i)
      BY <3>1, <2>1, <1>2, <1>4 DEF Record, ReceiptTypes
    <3> QED
      BY <3>1, <2>1, <1>2
  <2> QED
    BY <2>1, <1>1, <1>3, <1>4 DEF ClaimOK
<1>5. ASSUME NEW j \in Requests, Admit(j)  PROVE ClaimOK'
  <2>1. CASE receipt.status = "none" /\ receipt' # receipt
    <3>1. receipt.holder = NoOne
      BY <2>1 DEF ClaimOK
    <3>2. receipt' = [NoReceipt EXCEPT !.status = "admitted"]
      BY <2>1, <1>5 DEF Admit
    <3>3. \A i \in confirmed : ~Live(i)' /\ pc'[i] # "record"
      BY <3>1, <1>1, <1>2, <1>3, SteerAssumption
    <3> QED
      BY <3>2, <3>3, <1>1 DEF ClaimOK, NoReceipt
  <2> QED
    BY <2>1, <1>4, <1>5 DEF Admit
<1>6. ASSUME NEW j \in Requests, Claim(j)  PROVE ClaimOK'
  <2>1. CASE receipt'.holder = receipt.holder /\ receipt'.last = receipt.last
                 /\ receipt'.status = receipt.status
    <3>1. \A i \in confirmed : ~(pc[i] = "record" /\ Record(i)) \/ receipt.last = i
      BY <2>1, <1>1 DEF Record, ReceiptTypes
    <3> QED
      BY <2>1, <3>1, <1>1, <1>2, <1>3 DEF ClaimOK
  <2>2. CASE /\ receipt.status = "admitted" /\ receipt.last = NoOne
             /\ receipt' = [receipt EXCEPT !.offer = "claiming", !.holder = j, !.stale = FALSE]
             /\ \A i \in Requests : pc[i] # "record"
    <3>1. \A i \in confirmed : ~Live(i)' /\ pc'[i] # "record"
      BY <2>2, <1>1, <1>2, <1>3, <1>6, SteerAssumption DEF Claim, Goto, TaskTypes
    <3> QED
      BY <2>2, <3>1, <1>1 DEF ClaimOK, ReceiptTypes
  <2> QED
    BY <2>1, <2>2, <1>6 DEF Claim, ReceiptTypes
<1>7. ASSUME NEW j \in Requests, Record(j)  PROVE ClaimOK'
  <2>1. CASE j \in confirmed
    <3>1. receipt' = [receipt EXCEPT !.last = j] /\ pc[j] = "record" /\ receipt.holder = j
      BY <1>7, <2>1 DEF Record, ClaimOK
    <3>2. \A i \in confirmed : Live(i)' \/ pc'[i] = "record" => i = j
      BY <3>1, <1>1, <1>2, <1>3
    <3> QED
      BY <2>1, <3>1, <3>2, <1>1, SteerAssumption DEF ClaimOK, ReceiptTypes
  <2> QED
    BY <2>1, <1>4, <1>7 DEF Record
<1>8. ASSUME NEW j \in Requests, Discard(j)  PROVE ClaimOK'
  <2>1. CASE receipt.holder = j /\ receipt' = NoReceipt
    <3>1. pc[j] = "discard" /\ pc'[j] = "done" /\ UNCHANGED <<file, takenIn>>
      BY <1>8 DEF Discard, Goto, TaskTypes, history
    <3>2. ~Live(j)'
      BY <3>1 DEF Live, Taken, FilesOK
    <3>3. \A i \in confirmed : ~Live(i)' /\ pc'[i] # "record"
      BY <2>1, <3>1, <3>2, <1>1, <1>2, <1>3
    <3> QED
      BY <2>1, <3>3, <1>1 DEF ClaimOK, NoReceipt
  <2> QED
    BY <2>1, <1>4, <1>8 DEF Discard
<1>9. ASSUME \/ \E j \in Requests : Mark(j)
             \/ KeyReset
             \/ ClaimAges
      PROVE  ClaimOK'
  <2>1. receipt'.holder = receipt.holder /\ receipt'.last = receipt.last
           /\ (receipt.status # "none" => receipt'.status # "none")
    BY <1>9 DEF Mark, KeyReset, ClaimAges, ReceiptTypes
  <2>2. \A i \in confirmed : ~(pc[i] = "record" /\ Record(i)) \/ receipt.last = i
    BY <2>1, <1>1 DEF Record, ReceiptTypes
  <2> QED
    BY <2>1, <2>2, <1>1, <1>2, <1>3 DEF ClaimOK
<1>10. ASSUME \/ \E i \in Requests : \/ ReadTurn(i) \/ Profile(i) \/ TakeGuard(i)
                                     \/ CheckClaim(i) \/ Place(i) \/ CheckTurn(i)
              \/ Tick \/ HookStart \/ HookTake \/ HookRetire \/ HookDies
              \/ Crash \/ Prompt \/ TurnEnds \/ TurnCutShort \/ Launch
       PROVE  ClaimOK'
  <2>1. UNCHANGED receipt
    BY <1>10 DEF ReadTurn, Profile, TakeGuard, CheckClaim, Place, CheckTurn, Tick, TickBegin,
                 TickEnd, HookStart, HookTake, HookRetire, HookDies, Crash, Prompt, TurnEnds,
                 TurnCutShort, Launch
  <2> QED
    BY <2>1, <1>4
<1> QED
  BY <1>5, <1>6, <1>7, <1>8, <1>9, <1>10 DEF Next, Step

\* A confirmed request is at its attempt with the guard in its hands.
LEMMA GuardStep ==
  ASSUME NEW i \in confirmed, SessionTypes, TaskTypes, GuardOK,
         pc'[i] \in {"holds", "record", "place"}, Next
  PROVE  /\ guard' = i
         /\ \/ pc'[i] = pc[i]
            \/ pc[i] = "guard" /\ pc'[i] = "holds" /\ receipt.status # "revoked" /\ UNCHANGED receipt
            \/ pc[i] = "holds" /\ pc'[i] = "record" /\ receipt.holder = i /\ UNCHANGED receipt
            \/ pc[i] = "record" /\ pc'[i] = "place"
<1>1. CASE TickBegin \/ (\E old \in SUBSET Waiting, slow \in BOOLEAN : TickEnd(old, slow))
           \/ HookStart \/ HookTake \/ HookRetire \/ HookDies \/ KeyReset \/ ClaimAges \/ Prompt
           \/ TurnEnds \/ TurnCutShort \/ Launch
  <2>1. UNCHANGED <<pc, guard, scene>>
    BY <1>1 DEF TickBegin, TickEnd, HookStart, HookTake, HookRetire, HookDies, KeyReset,
       ClaimAges, Prompt, TurnEnds, TurnCutShort, Launch, locals
  <2> QED
    BY <2>1 DEF SessionTypes, TaskTypes, GuardOK, confirmed
<1>2. CASE \E j \in Requests : Admit(j)
  BY <1>2, Bounds, SteerAssumption DEF Admit, Goto, Answer, SessionTypes, TaskTypes, GuardOK,
     confirmed
<1>3. CASE \E j \in Requests : Claim(j)
  BY <1>3, Bounds, SteerAssumption DEF Claim, Goto, Answer, SessionTypes, TaskTypes, GuardOK,
     confirmed
<1>4. CASE \E j \in Requests : ReadTurn(j)
  BY <1>4, Bounds, SteerAssumption DEF ReadTurn, Goto, SessionTypes, TaskTypes, GuardOK,
     confirmed
<1>5. CASE \E j \in Requests : Profile(j)
  BY <1>5, Bounds, SteerAssumption DEF Profile, Goto, Refused, Answer, SessionTypes, TaskTypes,
     GuardOK, confirmed
<1>6. CASE \E j \in Requests : TakeGuard(j)
  BY <1>6, Bounds, SteerAssumption DEF TakeGuard, Goto, Refused, Answer, SessionTypes,
     TaskTypes, GuardOK, confirmed
<1>7. CASE \E j \in Requests : CheckClaim(j)
  BY <1>7, Bounds, SteerAssumption DEF CheckClaim, Goto, Answer, LetGo, SessionTypes, TaskTypes,
     GuardOK, confirmed
<1>8. CASE \E j \in Requests : Record(j)
  BY <1>8, Bounds, SteerAssumption DEF Record, Goto, SessionTypes, TaskTypes, GuardOK, confirmed
<1>9. CASE \E j \in Requests : Place(j)
  BY <1>9, Bounds, SteerAssumption DEF Place, Goto, Settle, Refused, Answer, LetGo, Mishap,
     SessionTypes, TaskTypes, GuardOK, confirmed
<1>10. CASE \E j \in Requests : CheckTurn(j)
  BY <1>10, Bounds, SteerAssumption DEF CheckTurn, Goto, Settle, Clear, Refused, Published,
     Answer, SessionTypes, TaskTypes, GuardOK, confirmed
<1>11. CASE \E j \in Requests : Mark(j)
  BY <1>11, Bounds, SteerAssumption DEF Mark, Goto, SessionTypes, TaskTypes, GuardOK, confirmed
<1>12. CASE \E j \in Requests : Discard(j)
  BY <1>12, Bounds, SteerAssumption DEF Discard, Goto, SessionTypes, TaskTypes, GuardOK,
     confirmed
<1>13. CASE Crash
  BY <1>13, Bounds, SteerAssumption DEF Crash, Mishap, SessionTypes, TaskTypes, GuardOK,
     confirmed
<1> QED
  BY <1>1, <1>2, <1>3, <1>4, <1>5, <1>6, <1>7, <1>8, <1>9, <1>10, <1>11, <1>12, <1>13
     DEF Next, Step, Tick

\* What is known to be handed over stays so.
LEMMA HandedOffStays ==
  ASSUME NEW i \in Requests, RowTypes, TaskTypes, FilesOK, row[i] = "handed_off", Next
  PROVE  row'[i] = "handed_off"
<1>1. CASE (\E j \in Requests : Admit(j)) \/ (\E j \in Requests : Claim(j))
           \/ (\E j \in Requests : ReadTurn(j)) \/ (\E j \in Requests : Profile(j))
           \/ (\E j \in Requests : TakeGuard(j)) \/ (\E j \in Requests : CheckClaim(j))
           \/ (\E j \in Requests : Mark(j)) \/ (\E j \in Requests : Discard(j)) \/ TickBegin
           \/ HookStart \/ HookTake \/ HookRetire \/ HookDies \/ KeyReset \/ ClaimAges \/ Crash
           \/ Prompt \/ TurnEnds \/ TurnCutShort \/ Launch
  <2>1. UNCHANGED <<row>>
    BY <1>1 DEF Admit, Claim, ReadTurn, Profile, TakeGuard, CheckClaim, Mark, Discard, TickBegin,
       HookStart, HookTake, HookRetire, HookDies, KeyReset, ClaimAges, Crash, Prompt, TurnEnds,
       TurnCutShort, Launch
  <2> QED
    BY <2>1 DEF RowTypes, FilesOK, Before
<1>2. CASE \E j \in Requests : Record(j)
  BY <1>2 DEF Record, Goto, RowTypes, FilesOK, Before
<1>3. CASE \E j \in Requests : Place(j)
  BY <1>3 DEF Place, Goto, Settle, Refused, Answer, LetGo, Mishap, RowTypes, FilesOK, Before
<1>4. CASE \E j \in Requests : CheckTurn(j)
  BY <1>4 DEF CheckTurn, Goto, Settle, Clear, Refused, Published, Answer, RowTypes, FilesOK,
     Before
<1>5. CASE \E old \in SUBSET Waiting, slow \in BOOLEAN : TickEnd(old, slow)
  BY <1>5 DEF TickEnd, Settle, Clear, Unlisted, RowTypes, FilesOK, Before
<1> QED
  BY <1>1, <1>2, <1>3, <1>4, <1>5
     DEF Next, Step, Tick

\* After a reset nothing is admitted, and only the attempt of a request past its check
\* changes the last one of the receipt.
LEMMA ResetStays ==
  ASSUME ReceiptTypes, ClaimOK, reset, Next
  PROVE  /\ reset'
         /\ receipt'.status = "admitted" =>
               /\ receipt.status = "admitted"
               /\ receipt'.last = receipt.last \/ \E i \in confirmed : pc[i] = "record"
<1>1. CASE (\E i \in Requests : ReadTurn(i)) \/ (\E i \in Requests : Profile(i))
           \/ (\E i \in Requests : TakeGuard(i)) \/ (\E i \in Requests : CheckClaim(i))
           \/ (\E i \in Requests : Place(i)) \/ (\E i \in Requests : CheckTurn(i)) \/ TickBegin
           \/ (\E old \in SUBSET Waiting, slow \in BOOLEAN : TickEnd(old, slow)) \/ HookStart
           \/ HookTake \/ HookRetire \/ HookDies \/ Crash \/ Prompt \/ TurnEnds \/ TurnCutShort
           \/ Launch
  <2>1. UNCHANGED <<receipt, reset>>
    BY <1>1 DEF ReadTurn, Profile, TakeGuard, CheckClaim, Place, CheckTurn, TickBegin, TickEnd,
       HookStart, HookTake, HookRetire, HookDies, Crash, Prompt, TurnEnds, TurnCutShort, Launch
  <2> QED
    BY <2>1 DEF ReceiptTypes, ClaimOK, NoReceipt
<1>2. CASE \E i \in Requests : Admit(i)
  BY <1>2 DEF Admit, Goto, Answer, ReceiptTypes, ClaimOK, NoReceipt
<1>3. CASE \E i \in Requests : Claim(i)
  BY <1>3 DEF Claim, Goto, Answer, ReceiptTypes, ClaimOK, NoReceipt
<1>4. CASE \E i \in Requests : Record(i)
  BY <1>4 DEF Record, Goto, ReceiptTypes, ClaimOK, NoReceipt
<1>5. CASE \E i \in Requests : Mark(i)
  BY <1>5 DEF Mark, Goto, ReceiptTypes, ClaimOK, NoReceipt
<1>6. CASE \E i \in Requests : Discard(i)
  BY <1>6 DEF Discard, Goto, ReceiptTypes, ClaimOK, NoReceipt
<1>7. CASE KeyReset
  BY <1>7 DEF KeyReset, ReceiptTypes, ClaimOK, NoReceipt
<1>8. CASE ClaimAges
  BY <1>8 DEF ClaimAges, ReceiptTypes, ClaimOK, NoReceipt
<1> QED
  BY <1>1, <1>2, <1>3, <1>4, <1>5, <1>6, <1>7, <1>8
     DEF Next, Step, Tick

\* Only the reset of the key revokes.
LEMMA OnlyResetRevokes ==
  ASSUME ReceiptTypes, ~KeyReset, Next
  PROVE  reset' = reset /\ (receipt'.status = "revoked" => receipt.status = "revoked")
<1>1. CASE (\E i \in Requests : ReadTurn(i)) \/ (\E i \in Requests : Profile(i))
           \/ (\E i \in Requests : TakeGuard(i)) \/ (\E i \in Requests : CheckClaim(i))
           \/ (\E i \in Requests : Place(i)) \/ (\E i \in Requests : CheckTurn(i)) \/ TickBegin
           \/ (\E old \in SUBSET Waiting, slow \in BOOLEAN : TickEnd(old, slow)) \/ HookStart
           \/ HookTake \/ HookRetire \/ HookDies \/ Crash \/ Prompt \/ TurnEnds \/ TurnCutShort
           \/ Launch
  <2>1. UNCHANGED <<receipt, reset>>
    BY <1>1 DEF ReadTurn, Profile, TakeGuard, CheckClaim, Place, CheckTurn, TickBegin, TickEnd,
       HookStart, HookTake, HookRetire, HookDies, Crash, Prompt, TurnEnds, TurnCutShort, Launch
  <2> QED
    BY <2>1 DEF ReceiptTypes, NoReceipt
<1>2. CASE \E i \in Requests : Admit(i)
  BY <1>2 DEF Admit, Goto, Answer, ReceiptTypes, NoReceipt
<1>3. CASE \E i \in Requests : Claim(i)
  BY <1>3 DEF Claim, Goto, Answer, ReceiptTypes, NoReceipt
<1>4. CASE \E i \in Requests : Record(i)
  BY <1>4 DEF Record, Goto, ReceiptTypes, NoReceipt
<1>5. CASE \E i \in Requests : Mark(i)
  BY <1>5 DEF Mark, Goto, ReceiptTypes, NoReceipt
<1>6. CASE \E i \in Requests : Discard(i)
  BY <1>6 DEF Discard, Goto, ReceiptTypes, NoReceipt
<1>7. CASE KeyReset
  BY <1>7 DEF KeyReset, ReceiptTypes, NoReceipt
<1>8. CASE ClaimAges
  BY <1>8 DEF ClaimAges, ReceiptTypes, NoReceipt
<1> QED
  BY <1>1, <1>2, <1>3, <1>4, <1>5, <1>6, <1>7, <1>8
     DEF Next, Step, Tick

\* The guard, through any step: a reset waits for it, and after a reset no claim passes its
\* check, since the one authority left is that of a steer that was taken.
LEMMA GuardKept ==
  ASSUME SessionTypes, RowTypes, ReceiptTypes, TaskTypes, FilesOK, RowsOK, ClaimOK, GuardOK, Next
  PROVE  GuardOK'
<1>1. confirmed' = confirmed /\ confirmed \subseteq Requests
  BY SceneKept
<1>2. CASE KeyReset
  <2>1. guard' = NoOne /\ UNCHANGED <<pc, row>> /\ guard = NoOne
    BY <1>2 DEF KeyReset, locals
  <2>2. \A i \in confirmed : pc'[i] \notin {"holds", "record", "place"}
    BY <2>1, <1>1, SteerAssumption DEF GuardOK
  <2>3. receipt'.status = "admitted" => receipt'.last # NoOne /\ row'[receipt'.last] = "handed_off"
    BY <2>1, <1>2 DEF KeyReset, ReceiptTypes
  <2> QED
    BY <2>2, <2>3, <1>1 DEF GuardOK
<1>3. CASE ~KeyReset
  <2>1. reset' = reset /\ (receipt'.status = "revoked" => receipt.status = "revoked")
    BY <1>3, OnlyResetRevokes
  <2>2. ASSUME NEW i \in confirmed, pc'[i] = "holds"
        PROVE  receipt'.status # "revoked"
    BY <2>1, <2>2, GuardStep DEF GuardOK
  <2>3. ASSUME NEW i \in confirmed, reset, pc[i] = "holds", receipt.holder = i
        PROVE  FALSE
    <3>1. receipt.status = "admitted"
      BY <2>3, <1>1, SteerAssumption DEF ClaimOK, GuardOK, ReceiptTypes
    <3>2. receipt.last \in confirmed /\ row[receipt.last] = "handed_off"
      BY <2>3, <3>1 DEF GuardOK, ClaimOK
    <3>3. Taken(receipt.last)
      BY <3>2, <1>1 DEF RowsOK
    <3>4. receipt.last = i
      BY <2>3, <3>2, <3>3 DEF ClaimOK, Live
    <3> QED
      BY <2>3, <3>3, <3>4, <1>1 DEF FilesOK, Before
  <2>4. ASSUME NEW i \in confirmed, pc'[i] \in {"record", "place"}
        PROVE  ~reset'
    BY <2>1, <2>3, <2>4, GuardStep DEF GuardOK
  <2>5. ASSUME reset, receipt'.status = "admitted"
        PROVE  receipt'.last # NoOne /\ row'[receipt'.last] = "handed_off"
    <3>1. receipt.status = "admitted" /\ receipt'.last = receipt.last
      BY <2>5, ResetStays DEF GuardOK
    <3> QED
      BY <2>5, <3>1, <1>1, HandedOffStays DEF GuardOK, ClaimOK
  <2> QED
    BY <2>1, <2>2, <2>4, <2>5, <1>1, GuardStep DEF GuardOK
<1> QED
  BY <1>2, <1>3

-----------------------------------------------------------------------------
Types == SessionTypes /\ FileTypes /\ RowTypes /\ ReceiptTypes /\ TaskTypes /\ HistoryTypes

\* What holds of every steer.
SteerInv == Types /\ RecordOK /\ AimOK /\ FilesOK /\ ListedOK /\ RowsOK /\ InItsTurn

\* What holds of a confirmed one besides, if no claim is taken over late.
ConfirmedInv == SteerInv /\ ClaimOK /\ GuardOK

\* The parts make up the type invariant.
LEMMA TypeParts == TypeOK <=> Types
BY DEF TypeOK, Types, SessionTypes, FileTypes, RowTypes, ReceiptTypes, TaskTypes, HistoryTypes

\* The start: nothing was sent.
LEMMA Start == Init => ConfirmedInv
<1> SUFFICES ASSUME Init PROVE ConfirmedInv
  OBVIOUS
<1>1. confirmed \subseteq Requests /\ scene.turns \in Nat /\ scene.launches \in Nat \ {0}
         /\ scene.mishaps \in Nat
  BY Bounds DEF Init
<1>2. SessionTypes
  BY <1>1 DEF Init, NoRecord, Records, SessionTypes
<1>3. FileTypes /\ RowTypes /\ ReceiptTypes
  BY DEF Init, NoReceipt, Files, FileTypes, RowTypes, ReceiptTypes
<1>4. TaskTypes
  BY <1>1 DEF Init, NoRecord, Records, TaskTypes
<1>5. HistoryTypes
  BY <1>1 DEF Init, HistoryTypes, NotTaken
<1>6. RecordOK /\ AimOK
  BY DEF Init, NoRecord, RecordOK, AimOK
<1>7. \A i \in Requests : ~Taken(i) /\ file[i] = "none" /\ row[i] = "none" /\ answer[i] = "none"
                            /\ pc[i] \in {"admit", "turn", "done"}
  BY DEF Init, Taken, NotTaken
<1>8. FilesOK /\ ListedOK /\ RowsOK /\ InItsTurn
  BY <1>7 DEF Init, FilesOK, ListedOK, RowsOK, InItsTurn, Before
<1>9. ClaimOK /\ GuardOK
  BY <1>1, <1>7 DEF Init, NoReceipt, ClaimOK, GuardOK, Live
<1> QED
  BY <1>2, <1>3, <1>4, <1>5, <1>6, <1>8, <1>9 DEF ConfirmedInv, SteerInv, Types

\* A step that changes nothing.
LEMMA Still ==
  ASSUME UNCHANGED vars
  PROVE  (SteerInv => SteerInv') /\ (ClaimOK /\ GuardOK => ClaimOK' /\ GuardOK')
<1>1. ASSUME SteerInv PROVE Types' /\ RecordOK' /\ AimOK'
  <2>1. SessionTypes' /\ RecordOK' /\ AimOK'
    BY <1>1 DEF SteerInv, Types, SessionTypes, RecordOK, AimOK, Records, vars, session, locals
  <2>2. FileTypes' /\ RowTypes' /\ ReceiptTypes' /\ HistoryTypes'
    BY <1>1 DEF SteerInv, Types, FileTypes, RowTypes, ReceiptTypes, HistoryTypes, vars, history
  <2>3. TaskTypes'
    BY <1>1 DEF SteerInv, Types, TaskTypes, Records, vars, locals
  <2> QED
    BY <2>1, <2>2, <2>3 DEF Types
<1>2. ASSUME SteerInv PROVE FilesOK' /\ ListedOK' /\ RowsOK' /\ InItsTurn'
  BY <1>2 DEF SteerInv, FilesOK, ListedOK, RowsOK, InItsTurn, Taken, vars, session, locals, history
<1>3. ASSUME ClaimOK, GuardOK PROVE ClaimOK' /\ GuardOK'
  BY <1>3 DEF ClaimOK, GuardOK, Live, Taken, confirmed, vars, session, locals, history
<1> QED
  BY <1>1, <1>2, <1>3 DEF SteerInv

\* Every step keeps what holds of every steer, however claims are taken over.
LEMMA SteerStep == SteerInv /\ [Next]_vars => SteerInv'
<1> SUFFICES ASSUME SteerInv, [Next]_vars PROVE SteerInv'
  OBVIOUS
<1>1. CASE Next
  <2>1. Types'
    BY <1>1, SessionTyped, FilesTyped, RowsTyped, ReceiptTyped, TasksTyped, HistoryTyped
       DEF SteerInv, Types
  <2>2. RecordOK' /\ AimOK' /\ InItsTurn'
    BY <1>1, RecordKept, AimKept, TurnKept DEF SteerInv, Types
  <2>3. FilesOK' /\ ListedOK' /\ RowsOK'
    BY <1>1, FilesKept, ListedKept, RowsKept DEF SteerInv, Types
  <2> QED
    BY <2>1, <2>2, <2>3 DEF SteerInv
<1> QED
  BY <1>1, Still

\* The inductive invariant of every steer, for every value of the constants.
THEOREM SteerInvariant == Spec => []SteerInv
<1>1. Init => SteerInv
  BY Start DEF ConfirmedInv
<1> QED
  BY <1>1, SteerStep, PTL DEF Spec

\* The variables keep their types.
THEOREM SteerTypeOK == Spec => []TypeOK
<1>1. SteerInv => TypeOK
  BY TypeParts DEF SteerInv
<1> QED
  BY SteerInvariant, <1>1, PTL

\* A steer that names its turn is taken in that turn only, however the turn ended and
\* whatever claims were taken over (_for_an_earlier_turn, retire_steers, _turn_ended).
THEOREM SteerInItsTurn == Spec => []InItsTurn
<1>1. SteerInv => InItsTurn
  BY DEF SteerInv
<1> QED
  BY SteerInvariant, <1>1, PTL

\* What the sender is told of a steer is so, up to the settler that listed the files before
\* the steer's was there (settle_steers, steer_agent).
THEOREM SteerReportIsTrue == Spec => []ReportIsTrue
<1>1. SteerInv => ReportIsTrue
  BY DEF SteerInv, FilesOK, RowsOK, ReportIsTrue
<1> QED
  BY SteerInvariant, <1>1, PTL

\* The claim and the guard, when a claim is taken over in time to be seen.
THEOREM ConfirmedInvariant == ASSUME LateTakeover = FALSE PROVE Spec => []ConfirmedInv
<1>1. ConfirmedInv /\ [Next]_vars => ConfirmedInv'
  <2> SUFFICES ASSUME ConfirmedInv, Next PROVE ConfirmedInv'
    BY Still DEF ConfirmedInv
  <2>1. SteerInv'
    BY SteerStep DEF ConfirmedInv
  <2>2. ClaimOK' /\ GuardOK'
    BY ClaimKept, GuardKept DEF ConfirmedInv, SteerInv, Types
  <2> QED
    BY <2>1, <2>2 DEF ConfirmedInv
<1> QED
  BY <1>1, Start, PTL DEF Spec

\* One of the requests that carry a confirmation has it taken, at most (claim_offer,
\* holds_claim).
THEOREM SteerTakenOnce == ASSUME LateTakeover = FALSE PROVE Spec => []ConfirmedTakenOnce
<1>1. ConfirmedInv => ConfirmedTakenOnce
  <2> SUFFICES ASSUME ConfirmedInv PROVE ConfirmedTakenOnce
    OBVIOUS
  <2> DEFINE T == {i \in confirmed : Taken(i)}
  <2>1. T \subseteq {receipt.last}
    BY DEF ConfirmedInv, ClaimOK, Live
  <2>2. IsFiniteSet({receipt.last}) /\ Cardinality({receipt.last}) = 1
    BY FS_Singleton
  <2>3. IsFiniteSet(T) /\ Cardinality(T) <= 1
    BY <2>1, <2>2, FS_Subset
  <2> QED
    BY <2>3 DEF ConfirmedTakenOnce
<1> QED
  BY ConfirmedInvariant, <1>1, PTL

\* A confirmed text that reached the agent has its receipt (discard).
THEOREM SteerReceiptKept == ASSUME LateTakeover = FALSE PROVE Spec => []ReceiptKept
<1>1. ConfirmedInv => ReceiptKept
  <2> SUFFICES ASSUME ConfirmedInv, NEW i \in confirmed, Taken(i) PROVE receipt.status # "none"
    BY DEF ReceiptKept
  <2>1. i \in Requests
    BY Bounds DEF ConfirmedInv, SteerInv, Types, SessionTypes
  <2> QED
    BY <2>1, SteerAssumption DEF ConfirmedInv, ClaimOK, Live
<1> QED
  BY ConfirmedInvariant, <1>1, PTL

\* A step that writes the offer of a confirmed steer holds the guard, so the key was not
\* reset (revocation_guard, is_revoked).
THEOREM SteerNotAfterReset == ASSUME LateTakeover = FALSE PROVE Spec => NoOfferAfterReset
<1> DEFINE Guarded == \A i \in confirmed : file[i] = "none" /\ file'[i] = "offered" => ~reset
<1>1. ConfirmedInv /\ [Next]_vars => [Guarded]_vars
  <2> SUFFICES ASSUME ConfirmedInv, Next, NEW i \in confirmed, file[i] = "none",
                      file'[i] = "offered"
               PROVE  ~reset
    OBVIOUS
  <2>1. pc[i] = "place"
    BY OfferStep, Bounds DEF ConfirmedInv, SteerInv, Types, SessionTypes
  <2> QED
    BY <2>1 DEF ConfirmedInv, GuardOK
<1> QED
  BY ConfirmedInvariant, <1>1, PTL DEF Spec, NoOfferAfterReset
=============================================================================

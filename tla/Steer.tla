------------------------------- MODULE Steer -------------------------------
(***************************************************************************)
(* Steering: guidance handed to a working agent for its current turn       *)
(* (_steer.py).  A request writes a row of deliveries and then an offer    *)
(* file; the hook in the agent's runtime renames the file when it takes it *)
(* or when the turn ends; settle_steers reads the files and writes what    *)
(* became of each steer.  An owner-confirmed steer is published by the one *)
(* request that holds its claim (_signing_repo.py), under the guard of the *)
(* key reset.                                                              *)
(*                                                                         *)
(* Each request makes one steer at most, and the two share a name.  A      *)
(* rename decides alone who has a file, so what one process does to the    *)
(* files of several steers is one step.                                    *)
(***************************************************************************)
EXTENDS Integers, FiniteSets

CONSTANTS
    Requests,       \* calls of POST /api/steer for one agent
    NoOne,
    LateTakeover,   \* a claim may be taken over between its check and the row
    Scenes          \* bounds: what happens in a behaviour at most, any of these

ASSUME SteerAssumption ==
    /\ IsFiniteSet(Requests) /\ NoOne \notin Requests
    /\ LateTakeover \in BOOLEAN
    /\ Scenes \subseteq [sent : SUBSET Requests,       \* the requests there are
                       confirmed : SUBSET Requests,  \* those that carry the one confirmation
                       turns : Nat, launches : Nat \ {0},  \* prompts and sessions of the agent
                       mishaps : Nat]  \* deaths of the service or a hook, failed writes

VARIABLES
    scene,      \* the bounds of this behaviour
    \* the agent's session
    launch,     \* its launch id
    turn,       \* the number of its last prompt
    phase,      \* of that turn: idle (over), working, failed (at the provider)
    record,     \* the hook's last state record
    hook,       \* the running hook: off, or past its record with offers to take or retire
    \* offer files
    file,       \* the suffix of each steer's file
    \* the database
    row,        \* the outcome of each steer in deliveries
    receipt,    \* the row of signing_receipts
    reset,      \* the owner has reset the sender's key
    \* the requests
    pc,
    aim,        \* the record its request read: the turn it is for, and its .turn file
    dir,        \* the launch it is written for
    guard,      \* the holder of revocation_guard
    listed,     \* the files settle_steers has listed, while it runs
    mishaps,
    \* history
    takenIn,    \* the turn in which the hook took each steer
    answer,     \* what each request answered
    overlooked  \* steers cancelled by a settler that listed the files before theirs

session == <<launch, turn, phase>>
locals == <<pc, aim, dir, guard>>
history == <<takenIn, answer, overlooked>>
vars == <<scene, session, record, hook, file, row, receipt, reset, locals, listed,
          mishaps, history>>

confirmed == scene.confirmed

NotTaken == -1
Records == [launch : 0 .. scene.launches, turn : 0 .. scene.turns, working : BOOLEAN]
NoRecord == [launch |-> 0, turn |-> 0, working |-> FALSE]
Files == [Requests -> {"none", "offered", "taken", "missed"}]
NoReceipt == [status |-> "none", offer |-> "none", holder |-> NoOne, stale |-> FALSE,
              last |-> NoOne]

TypeOK ==
    /\ scene \in Scenes
    /\ launch \in 1 .. scene.launches /\ turn \in 0 .. scene.turns
    /\ phase \in {"idle", "working", "failed"}
    /\ record \in Records
    /\ hook \in {"off", "take", "retire"}
    /\ file \in Files
    /\ row \in [Requests -> {"none", "offered", "handed_off", "not_taken", "failed", "cancelled"}]
    /\ receipt \in [status : {"none", "admitted", "revoked"},
                    offer : {"none", "claiming", "offered", "failed"},
                    holder : Requests \cup {NoOne}, stale : BOOLEAN,
                    last : Requests \cup {NoOne}]
    /\ reset \in BOOLEAN
    /\ pc \in [Requests -> {"admit", "claim", "turn", "profile", "guard", "holds", "record",
                            "place", "check", "mark", "discard", "done"}]
    /\ aim \in [Requests -> Records]
    /\ dir \in [Requests -> 0 .. scene.launches]
    /\ guard \in Requests \cup {NoOne}
    /\ listed \in Files \cup {<<>>}
    /\ mishaps \in 0 .. scene.mishaps
    /\ takenIn \in [Requests -> NotTaken .. scene.turns]
    /\ answer \in [Requests -> {"none", "offered", "refused", "failed", "known"}]
    /\ overlooked \subseteq Requests

Init ==
    /\ scene \in Scenes
    /\ launch = 1 /\ turn = 0 /\ phase = "idle"
    /\ record = NoRecord /\ hook = "off"
    /\ file = [i \in Requests |-> "none"]
    /\ row = [i \in Requests |-> "none"]
    /\ receipt = NoReceipt /\ reset = FALSE
    /\ pc = [i \in Requests |-> CASE i \in confirmed -> "admit"
                                  [] i \in scene.sent \ confirmed -> "turn"
                                  [] OTHER -> "done"]
    /\ aim = [i \in Requests |-> NoRecord]
    /\ dir = [i \in Requests |-> 0] /\ guard = NoOne
    /\ listed = <<>>
    /\ mishaps = 0
    /\ takenIn = [i \in Requests |-> NotTaken] /\ answer = [i \in Requests |-> "none"]
    /\ overlooked = {}

(***************************************************************************)
(* Helpers                                                                 *)
(***************************************************************************)
Mishap == mishaps < scene.mishaps /\ mishaps' = mishaps + 1

Goto(i, place) == pc' = [pc EXCEPT ![i] = place]

Answer(i, what) == answer' = [answer EXCEPT ![i] = what]

\* Nothing was published: a confirmation may be sent again.
Refused(i, what) == Answer(i, what) /\ Goto(i, IF i \in confirmed THEN "discard" ELSE "done")

Published(i) == Answer(i, "offered") /\ Goto(i, IF i \in confirmed THEN "mark" ELSE "done")

LetGo(i) == guard' = IF guard = i THEN NoOne ELSE guard

\* deliveries.settle: an outcome only replaces "offered".
Settle(S, outcome) ==
    row' = [i \in Requests |-> IF i \in S /\ row[i] = "offered" THEN outcome[i] ELSE row[i]]

\* clear_steer.
Clear(S) == file' = [i \in Requests |-> IF i \in S THEN "none" ELSE file[i]]

\* An attempt that was recorded counts as an offer made (claim_offer, _SETTLE_CLAIM).
Reached(outcome) == outcome \in {"offered", "handed_off", "not_taken"}

(***************************************************************************)
(* A request: POST /api/steer and steer_agent                              *)
(***************************************************************************)
\* signing.admit: a receipt is committed, or found again.
Admit(i) ==
    /\ pc[i] = "admit"
    /\ IF reset
       THEN Goto(i, "done") /\ Answer(i, "refused") /\ UNCHANGED receipt
       ELSE /\ receipt' = IF receipt.status = "none"
                          THEN [NoReceipt EXCEPT !.status = "admitted"] ELSE receipt
            /\ Goto(i, "claim") /\ UNCHANGED answer
    /\ UNCHANGED <<scene, session, record, hook, file, row, reset, aim, dir, guard, listed, mishaps, takenIn, overlooked>>

\* claim_offer: one request at a time may offer the steer. A claim older than a minute is
\* settled from the attempt it recorded, else taken over, which its request sees when it
\* checks the claim (LateTakeover: or too late).
Claim(i) ==
    LET tried == receipt.last # NoOne
        decided == tried /\ row[receipt.last] \in {"handed_off", "not_taken", "cancelled"}
        held == receipt.offer = "claiming" /\ ~receipt.stale
        free == receipt.status = "admitted" /\ receipt.offer \in {"none", "claiming"}
    IN /\ pc[i] = "claim"
       /\ IF free /\ ~tried /\ ~held
          THEN /\ receipt' = [receipt EXCEPT !.offer = "claiming", !.holder = i, !.stale = FALSE]
               /\ LateTakeover \/ \A j \in Requests : pc[j] # "record"
               /\ Goto(i, "turn") /\ UNCHANGED answer
          ELSE /\ receipt' = IF free /\ tried /\ (decided \/ ~held)
                             THEN [receipt EXCEPT !.offer = IF Reached(row[receipt.last])
                                                            THEN "offered" ELSE "failed"]
                             ELSE receipt
               /\ Goto(i, "done") /\ Answer(i, "known")
    /\ UNCHANGED <<scene, session, record, hook, file, row, reset, aim, dir, guard, listed, mishaps, takenIn, overlooked>>

\* _hook_record: which turn the steer is for, before anything is checked.
ReadTurn(i) ==
    /\ pc[i] = "turn"
    /\ aim' = [aim EXCEPT ![i] = record]
    /\ Goto(i, "profile")
    /\ UNCHANGED <<scene, session, record, hook, file, row, receipt, reset, dir, guard, listed, mishaps, history>>

\* get_session_intelligence, from the record and the screen: a turn that ended without a
\* hook may still count as working. Then the launch that may take the steer.
Profile(i) ==
    /\ pc[i] = "profile"
    /\ \/ /\ phase = "working" \/ (phase = "idle" /\ record.working)
          /\ dir' = [dir EXCEPT ![i] = launch]
          /\ Goto(i, IF i \in confirmed THEN "guard" ELSE "record") /\ UNCHANGED answer
       \/ Refused(i, "refused") /\ UNCHANGED dir
    /\ UNCHANGED <<scene, session, record, hook, file, row, receipt, reset, aim,
                   guard, listed, mishaps, takenIn, overlooked>>

\* The guard is taken; is_revoked.
TakeGuard(i) ==
    /\ pc[i] = "guard" /\ guard = NoOne
    /\ IF receipt.status = "revoked"
       THEN Refused(i, "refused") /\ UNCHANGED guard
       ELSE guard' = i /\ Goto(i, "holds") /\ UNCHANGED answer
    /\ UNCHANGED <<scene, session, record, hook, file, row, receipt, reset, aim, dir,
                   listed, mishaps, takenIn, overlooked>>

\* Fault: a request that waited for the guard trusts the claim it made before.
TrustClaim(i) ==
    /\ pc[i] = "holds"
    /\ Goto(i, "record")
    /\ UNCHANGED <<scene, session, record, hook, file, row, receipt, reset, aim, dir,
                   guard, listed, mishaps, history>>

\* holds_claim.
CheckClaim(i) ==
    /\ pc[i] = "holds"
    /\ IF receipt.holder = i /\ receipt.offer = "claiming"
       THEN Goto(i, "record") /\ UNCHANGED <<answer, guard>>
       ELSE Goto(i, "done") /\ Answer(i, "refused") /\ LetGo(i)
    /\ UNCHANGED <<scene, session, record, hook, file, row, receipt, reset, aim, dir,
                   listed, mishaps, takenIn, overlooked>>

\* deliveries.record: the row comes before its file.
Record(i) ==
    /\ pc[i] = "record"
    /\ row' = [row EXCEPT ![i] = "offered"]
    /\ receipt' = IF i \in confirmed THEN [receipt EXCEPT !.last = i] ELSE receipt
    /\ Goto(i, "place")
    /\ UNCHANGED <<scene, session, record, hook, file, reset, aim, dir, guard,
                   listed, mishaps, history>>

\* offer_steer; the guard is released.
Place(i) ==
    /\ pc[i] = "place"
    /\ \/ /\ file' = [file EXCEPT ![i] = "offered"]
          /\ Goto(i, "check")
          /\ UNCHANGED <<row, answer, mishaps>>
       \/ /\ Mishap
          /\ Settle({i}, [j \in {i} |-> "failed"]) /\ Refused(i, "failed")
          /\ UNCHANGED file
    /\ LetGo(i)
    /\ UNCHANGED <<scene, session, record, hook, receipt, reset, aim, dir,
                   listed, takenIn, overlooked>>

\* _turn_ended: what the hook has recorded since the turn was read.
TurnEnded(i) == record # aim[i] /\ (record.turn # aim[i].turn \/ ~record.working)

\* Fault: the offer is withdrawn without a look at whether the hook has it.
WithdrawAnyway(i) ==
    /\ pc[i] = "check"
    /\ IF TurnEnded(i)
       THEN Settle({i}, [j \in {i} |-> "not_taken"]) /\ Clear({i}) /\ Refused(i, "refused")
       ELSE Published(i) /\ UNCHANGED <<file, row>>
    /\ UNCHANGED <<scene, session, record, hook, receipt, reset, aim, dir, guard,
                   listed, mishaps, takenIn, overlooked>>

\* An offer written for a turn that is over is withdrawn (expire_steer), unless the hook
\* has it, or a settler has settled it.
CheckTurn(i) ==
    /\ pc[i] = "check"
    /\ IF TurnEnded(i) /\ file[i] \in {"offered", "missed"}
       THEN Settle({i}, [j \in {i} |-> "not_taken"]) /\ Clear({i}) /\ Refused(i, "refused")
       ELSE Published(i) /\ UNCHANGED <<file, row>>
    /\ UNCHANGED <<scene, session, record, hook, receipt, reset, aim, dir, guard,
                   listed, mishaps, takenIn, overlooked>>

\* mark_offered.
Mark(i) ==
    /\ pc[i] = "mark"
    /\ receipt' = IF receipt.holder = i THEN [receipt EXCEPT !.offer = "offered"] ELSE receipt
    /\ Goto(i, "done")
    /\ UNCHANGED <<scene, session, record, hook, file, row, reset, aim, dir, guard, listed, mishaps, history>>

\* Fault: a request forgets the confirmation whoever offers it by now.
DiscardAny(i) ==
    /\ pc[i] = "discard"
    /\ receipt' = IF receipt.offer # "offered" THEN NoReceipt ELSE receipt
    /\ Goto(i, "done")
    /\ UNCHANGED <<scene, session, record, hook, file, row, reset, aim, dir, guard, listed, mishaps, history>>

\* discard: the receipt of a steer that was not offered goes, with the claim.
Discard(i) ==
    /\ pc[i] = "discard"
    /\ receipt' = IF receipt.holder = i /\ receipt.offer # "offered" THEN NoReceipt ELSE receipt
    /\ Goto(i, "done")
    /\ UNCHANGED <<scene, session, record, hook, file, row, reset, aim, dir, guard, listed, mishaps, history>>

Step(i) ==
    \/ Admit(i) \/ Claim(i) \/ ReadTurn(i) \/ Profile(i) \/ TakeGuard(i) \/ CheckClaim(i)
    \/ Record(i) \/ Place(i) \/ CheckTurn(i) \/ Mark(i) \/ Discard(i)

\* Fault: a reset does not wait for the guard.
ResetAtOnce ==
    /\ ~reset
    /\ reset' = TRUE
    /\ receipt' = [receipt EXCEPT !.status = IF @ = "admitted" THEN "revoked" ELSE @]
    /\ UNCHANGED <<scene, session, record, hook, file, row, locals, listed, mishaps,
                   history>>

\* _revoke_epoch: what is known to be handed over keeps its authority.
KeyReset ==
    /\ ~reset /\ guard = NoOne
    /\ reset' = TRUE
    /\ receipt' = IF receipt.last # NoOne /\ row[receipt.last] = "handed_off" THEN receipt
                  ELSE [receipt EXCEPT !.status = IF @ = "admitted" THEN "revoked" ELSE @]
    /\ UNCHANGED <<scene, session, record, hook, file, row, locals, listed, mishaps,
                   history>>

(***************************************************************************)
(* The session and its hook                                                *)
(***************************************************************************)
\* The hook of UserPromptSubmit writes before the turn begins. A session waits for its
\* hooks.
Prompt ==
    /\ phase # "working" /\ turn < scene.turns /\ hook = "off"
    /\ turn' = turn + 1 /\ phase' = "working"
    /\ record' = [launch |-> launch, turn |-> turn', working |-> TRUE]
    /\ UNCHANGED <<scene, launch, hook, file, row, receipt, reset, pc, aim, dir,
                   guard, listed, mishaps, history>>

\* A hook that may add context starts: after a tool call, or with the session.
HookStart ==
    /\ hook = "off" /\ (phase = "working" \/ record.launch # launch)
    /\ record' = [launch |-> launch, turn |-> IF record.launch = launch THEN record.turn ELSE 0,
               working |-> phase = "working"]
    /\ hook' = "take"
    /\ UNCHANGED <<scene, session, file, row, receipt, reset, pc, aim, dir, guard,
                   listed, mishaps, history>>

\* The offers of this launch.
Offered == {i \in Requests : file[i] = "offered" /\ dir[i] = launch}

\* Fault: an offer is handed over in whatever turn it is found.
NeverEarlier(i) == FALSE

\* _for_an_earlier_turn: a value missing on either side is not compared.
ForAnEarlierTurn(i) ==
    \/ aim[i].turn # 0 /\ record.turn # 0 /\ aim[i].turn # record.turn
    \/ aim[i].launch # 0 /\ aim[i].launch # record.launch

\* take_context: each offer of this launch is taken, or marked as missed.
HookTake ==
    LET take == {i \in Offered : ~ForAnEarlierTurn(i)}
    IN /\ hook = "take"
       /\ hook' = "off"
       /\ file' = [i \in Requests |-> CASE i \in take -> "taken"
                                        [] i \in Offered \ take -> "missed"
                                        [] OTHER -> file[i]]
       /\ takenIn' = [i \in Requests |-> IF i \notin take THEN takenIn[i]
                                         ELSE IF phase = "working" THEN turn ELSE 0]
       /\ UNCHANGED <<scene, session, record, row, receipt, reset, locals, listed,
                      mishaps, answer, overlooked>>

\* The turn ends: the hook writes the record, then retires what is still offered.
TurnEnds ==
    /\ phase = "working" /\ hook = "off"
    /\ phase' \in {"idle", "failed"}
    /\ record' = [launch |-> launch, turn |-> record.turn, working |-> FALSE]
    /\ hook' = "retire"
    /\ UNCHANGED <<scene, launch, turn, file, row, receipt, reset, pc, aim, dir,
                   guard, listed, mishaps, history>>

\* retire_steers.
HookRetire ==
    /\ hook = "retire"
    /\ hook' = "off"
    /\ file' = [i \in Requests |-> IF i \in Offered THEN "missed" ELSE file[i]]
    /\ UNCHANGED <<scene, session, record, row, receipt, reset, locals, listed,
                   mishaps, history>>

\* The turn ends with no hook, and with the one it runs: an interrupt, a failure at the
\* provider.
TurnCutShort ==
    /\ phase = "working"
    /\ phase' \in {"idle", "failed"} /\ hook' = "off"
    /\ UNCHANGED <<scene, launch, turn, record, file, row, receipt, reset,
                   locals, listed, mishaps, history>>

HookDies ==
    /\ hook # "off" /\ Mishap
    /\ hook' = "off"
    /\ UNCHANGED <<scene, session, record, file, row, receipt, reset, locals, listed,
                   history>>

\* The session ends and another starts. clear_agent_context: what was taken or missed
\* stays to be settled.
Launch ==
    /\ launch < scene.launches
    /\ launch' = launch + 1 /\ phase' = "idle" /\ hook' = "off"
    /\ file' = [i \in Requests |-> IF file[i] = "offered" THEN "none" ELSE file[i]]
    /\ UNCHANGED <<scene, turn, record, row, receipt, reset, locals, listed,
                   mishaps, history>>

(***************************************************************************)
(* settle_steers                                                           *)
(***************************************************************************)
\* steer_offers: the files there are.
TickBegin ==
    /\ listed = <<>>
    /\ listed' = file
    /\ UNCHANGED <<scene, session, record, hook, file, row, receipt, reset, locals,
                   mishaps, history>>

\* A row that lists no file: its session was replaced. One whose request is about to write
\* the file is younger than _SETTLE_GRACE_SECONDS; one whose file came after the listing
\* is not, if the settler takes longer than that.
Unlisted == {i \in Requests : row[i] = "offered" /\ listed[i] = "none" /\ pc[i] # "place"}

\* What the files say is written to the rows and the files removed. An offer that nobody
\* took in time (old), or whose turn failed at the provider with no hook, is first taken
\* from the hook, by a rename (expire_steer). Then the rows without a file are cancelled.
TickEnd(old, slow) ==
    LET taken == {i \in Requests : listed[i] = "taken"}
        over == IF phase = "failed" THEN Requests ELSE old
        missed == {i \in Requests : \/ listed[i] = "missed"
                                    \/ listed[i] = "offered" /\ i \in over /\ file[i] = "offered"}
        gone == {i \in Unlisted : slow \/ file[i] = "none"}
    IN /\ listed # <<>>
       /\ listed' = <<>>
       /\ Settle(taken \cup missed \cup gone,
                 [i \in Requests |-> CASE i \in taken -> "handed_off"
                                       [] i \in missed -> "not_taken"
                                       [] OTHER -> "cancelled"])
       /\ Clear(taken \cup missed)
       /\ overlooked' = overlooked \cup {i \in gone : file[i] # "none"}
       /\ UNCHANGED <<scene, session, record, hook, receipt, reset, locals, mishaps,
                      takenIn, answer>>

\* Fault: an offer that waits in a session without a turn is left alone.
Lasting == {i \in Requests : listed # <<>> /\ listed[i] = "offered" /\ phase = "working"}

\* The offers a settler may find older than STEER_TTL_SECONDS.
Waiting == {i \in Requests : listed # <<>> /\ listed[i] = "offered"}

Expires(i) == i \in Waiting /\ TickEnd({i}, FALSE)

Tick == TickBegin \/ \E old \in SUBSET Waiting, slow \in BOOLEAN : TickEnd(old, slow)

(***************************************************************************)
(* Time and the service                                                    *)
(***************************************************************************)
ClaimAges ==
    /\ receipt.offer = "claiming" /\ ~receipt.stale
    /\ receipt' = [receipt EXCEPT !.stale = TRUE]
    /\ UNCHANGED <<scene, session, record, hook, file, row, reset, locals, listed,
                   mishaps, history>>

Crash ==
    /\ Mishap
    /\ pc' = [i \in Requests |-> "done"] /\ guard' = NoOne
    /\ listed' = <<>>
    /\ UNCHANGED <<scene, session, record, hook, file, row, receipt, reset, aim, dir,
                   history>>

(***************************************************************************)
(* Specification                                                           *)
(***************************************************************************)
Next ==
    \/ \E i \in Requests : Step(i)
    \/ Tick
    \/ HookStart \/ HookTake \/ HookRetire \/ HookDies
    \/ KeyReset \/ ClaimAges \/ Crash
    \/ Prompt \/ TurnEnds \/ TurnCutShort \/ Launch

\* The job settles every 15 s; requests are asyncio tasks that go on; an offer the job
\* lists again and again is too old at last. Nothing is assumed of the agent and its hook.
Fairness == WF_vars(Tick) /\ \A i \in Requests : WF_vars(Step(i)) /\ SF_vars(Expires(i))

Spec == Init /\ [][Next]_vars /\ Fairness

(***************************************************************************)
(* Properties                                                              *)
(***************************************************************************)
Taken(i) == takenIn[i] # NotTaken

\* A steer that names its turn is taken in that turn only, however the turn ended and
\* whatever came after it (_for_an_earlier_turn, retire_steers, _turn_ended).
InItsTurn == \A i \in Requests : Taken(i) /\ aim[i].turn # 0 => takenIn[i] = aim[i].turn

\* What the sender is told is so: handed_off was taken; what was refused, failed or
\* recorded as not_taken or cancelled never is; except that a settler may call a steer
\* cancelled that was offered after it had listed the files (settle_steers, steer_agent).
ReportIsTrue ==
    \A i \in Requests :
        /\ row[i] = "handed_off" => Taken(i)
        /\ Taken(i) => /\ answer[i] \notin {"refused", "failed"}
                       /\ row[i] \notin {"not_taken", "failed"}
                       /\ row[i] = "cancelled" => i \in overlooked

\* A confirmed steer is taken once at most, however often it is sent (claim_offer,
\* holds_claim; api/routes/messages.py, "a confirmed steer is never offered twice").
ConfirmedTakenOnce == Cardinality({i \in confirmed : Taken(i)}) <= 1

\* A confirmed text that reached the agent has the receipt its recipient checks it against
\* (discard, validate).
ReceiptKept == \A i \in confirmed : Taken(i) => receipt.status # "none"

\* No confirmed steer is offered after the reset of its key (revocation_guard, is_revoked).
NoOfferAfterReset ==
    [][\A i \in confirmed : file[i] = "none" /\ file'[i] = "offered" => ~reset]_vars

\* What became of a steer is recorded in the end, though the service died, the hook died or
\* the session went (settle_steers).
SteerSettled == \A i \in Requests : row[i] = "offered" ~> row[i] # "offered"
=============================================================================

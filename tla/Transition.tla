----------------------------- MODULE Transition -----------------------------
(***************************************************************************)
(* `agent restart`: one accepted request (a row of agent_transitions), the *)
(* job that stops the session and starts its replacement                   *)
(* (jobs/transitions.py), and the continuation message it hands over.  The *)
(* job and the queue's drain run in the service; people start, stop,       *)
(* forget and register agents from processes of their own.  The service    *)
(* may die after any step: the row, its launch identity and the launch's   *)
(* recorded outcome are what the next one goes by.                         *)
(*                                                                         *)
(* `uq_transitions_open` allows one open row per agent, so one is enough.  *)
(***************************************************************************)
EXTENDS Integers

CONSTANTS
    Wanted,     \* the requests: records [start, message, bound]
    MaxTalks,   \* bound: conversations of the agent
    MaxMishaps  \* bound: deaths of the service, failed calls and writes

ASSUME TransitionAssumption ==
    /\ Wanted \subseteq [start : BOOLEAN, message : BOOLEAN, bound : BOOLEAN]
    /\ MaxTalks \in Nat /\ MaxMishaps \in Nat /\ MaxTalks >= MaxMishaps + 2

VARIABLES
    want,       \* the request; bound: to registration 1
    \* the row
    status,     \* pending, completed, failed
    stopped,    \* stopped_at is set
    identity,   \* launch_operation_id is set
    recovery,   \* launch_recovery, the recorded outcome of that launch
    \* the agent
    registered, \* the registration of the name: 1, that of the request; 2, a later one; 0, none
    session,    \* who started its session: none, old, job or hand
    talk,       \* the number of its last conversation
    since,      \* the conversation conversation_started_at belongs to
    \* the service
    pc,         \* the step the job is at
    recovered,  \* the job's locals: an earlier launch of this row is known,
    spec,       \* and the registration it resolved
    life,       \* who has lifecycle_lock: none, job or drain
    locked,     \* the job has profile_lock, which other processes wait for
    \* the continuation
    queue,      \* its queue row: none, pending, retired
    receipts,   \* the conversations in which a delivery was recorded
    mishaps,
    \* history
    pasted,     \* how often each conversation got the continuation; 2 is twice or more
    own,        \* the last conversation the job launched
    touched,    \* the registrations the job stopped, launched or wrote to
    claim,      \* what it made of a running session: own, stolen, disowned or left alone
    marks       \* what happened that explains an exception

row == <<status, stopped, identity, recovery>>
agent == <<registered, session, talk, since>>
job == <<recovered, spec>>
history == <<pasted, own, touched, claim, marks>>
vars == <<want, row, agent, pc, job, life, locked, queue, receipts, mishaps, history>>

Talks == 1 .. MaxTalks

TypeOK ==
    /\ want \in Wanted
    /\ status \in {"pending", "completed", "failed"} /\ stopped \in BOOLEAN
    /\ identity \in BOOLEAN
    /\ recovery \in {"none", "requested", "failed", "exited", "ready"}
    /\ registered \in 0 .. 2
    /\ session \in {"none", "old", "job", "hand"}
    /\ talk \in Talks /\ since \in Talks
    /\ pc \in {"idle", "stop", "mark", "identity", "recover", "resolve", "launch", "started",
               "ready", "running", "deliver", "record", "finish", "failing"}
    /\ recovered \in BOOLEAN /\ spec \in 0 .. 2
    /\ life \in {"none", "job", "drain"} /\ locked \in BOOLEAN
    /\ queue \in {"none", "pending", "retired"}
    /\ receipts \subseteq Talks
    /\ mishaps \in 0 .. MaxMishaps
    /\ pasted \in [Talks -> 0 .. 2] /\ own \in {0} \cup Talks
    /\ touched \subseteq {1, 2}
    /\ claim \in {"none", "own", "stolen", "disowned", "left"}
    /\ marks \subseteq {"cut", "undated", "relaunched", "replaced"}

Init ==
    /\ want \in Wanted
    /\ status = "pending" /\ stopped = FALSE /\ identity = FALSE /\ recovery = "none"
    /\ registered = 1 /\ session \in {"old", "none"} /\ talk = 1 /\ since = 1
    /\ pc = "idle" /\ recovered = FALSE /\ spec = 0
    /\ life = "none" /\ locked = FALSE
    /\ queue = "none" /\ receipts = {} /\ mishaps = 0
    /\ pasted = [c \in Talks |-> 0] /\ own = 0 /\ touched = {} /\ claim = "none" /\ marks = {}

(***************************************************************************)
(* Helpers                                                                 *)
(***************************************************************************)
Mishap == mishaps < MaxMishaps /\ mishaps' = mishaps + 1

Running == session # "none"

\* registration_matches, for a request bound to one.
Accepted == want.bound => registered = 1

\* lifecycle_lock is free, or the job's own: for a bound request it has it throughout.
Free == life # "drain"

Hold == life' = IF want.bound THEN "job" ELSE life

Unlock == life' = (IF want.bound THEN "job" ELSE "none") /\ locked' = FALSE

\* The tick is over.
Leave == pc' = "idle" /\ life' = (IF life = "drain" THEN life ELSE "none") /\ locked' = FALSE

Close(how) == status' = how /\ Leave

\* The continuation goes to the session there is.
Paste ==
    /\ pasted' = [pasted EXCEPT ![talk] = IF @ = 2 THEN 2 ELSE @ + 1]
    /\ touched' = touched \cup {registered}

(***************************************************************************)
(* The job: run_transitions                                                *)
(***************************************************************************)
\* Fault: a stop that an earlier process recorded is no end of a stop-only request.
BeginAlwaysStarts ==
    /\ pc = "idle" /\ status = "pending" /\ (want.bound => life = "none")
    /\ IF registered = 0 \/ ~Accepted
       THEN Close("failed")
       ELSE /\ want.start \/ ~stopped
            /\ pc' = IF stopped THEN "identity" ELSE "stop"
            /\ Hold /\ UNCHANGED <<status, locked>>
    /\ UNCHANGED <<want, stopped, identity, recovery, agent, job, queue, receipts, mishaps,
                   history>>

\* _advance, _advance_current up to the stop. A row stopped before goes on where it was.
Begin ==
    /\ pc = "idle" /\ status = "pending" /\ (want.bound => life = "none")
    /\ IF registered = 0 \/ ~Accepted
       THEN Close("failed")
       ELSE IF stopped /\ ~want.start
       THEN Close("completed")
       ELSE /\ pc' = IF stopped THEN "identity" ELSE "stop"
            /\ Hold /\ UNCHANGED <<status, locked>>
    /\ UNCHANGED <<want, stopped, identity, recovery, agent, job, queue, receipts, mishaps,
                   history>>

\* Fault: the registration is not looked at again once the guard is had.
StopUnchecked ==
    /\ pc = "stop" /\ Free
    /\ session' = "none" /\ pc' = "mark"
    /\ touched' = touched \cup (IF Running THEN {registered} ELSE {})
    /\ UNCHANGED <<want, row, registered, talk, since, job, life, locked, queue, receipts,
                   mishaps, pasted, own, claim, marks>>

\* stop_agent, under profile_lock; a session that is gone is simply gone.
Stop ==
    /\ pc = "stop" /\ Free
    /\ IF ~Accepted
       THEN Close("failed") /\ UNCHANGED <<session, touched>>
       ELSE /\ session' = "none" /\ pc' = "mark"
            /\ touched' = touched \cup (IF Running THEN {registered} ELSE {})
            /\ UNCHANGED <<status, life, locked>>
    /\ UNCHANGED <<want, stopped, identity, recovery, registered, talk, since, job, queue,
                   receipts, mishaps, pasted, own, claim, marks>>

\* The resume is no longer possible, the agent became inbox-only, tmux refuses to stop the
\* session; or an unexpected error, at any step.
GivesUp ==
    /\ pc # "idle" /\ Mishap
    /\ Close("failed")
    /\ marks' = IF pc = "record" THEN marks \cup {"cut"} ELSE marks
    /\ UNCHANGED <<want, stopped, identity, recovery, agent, job, queue, receipts, pasted, own,
                   touched, claim>>

\* mark_stopped; the start may be due at once or later.
Mark ==
    /\ pc = "mark"
    /\ stopped' = TRUE
    /\ \/ pc' = (IF want.start THEN "identity" ELSE "finish") /\ UNCHANGED <<life, locked>>
       \/ want.start /\ Leave
    /\ UNCHANGED <<want, status, identity, recovery, agent, job, queue, receipts, mishaps, history>>

\* mark_launching: the launch's identity is kept before anything is launched.
MarkLaunching ==
    /\ pc = "identity"
    /\ identity' = TRUE /\ recovered' = identity /\ pc' = "recover"
    /\ UNCHANGED <<want, status, stopped, recovery, agent, spec, life, locked, queue,
                   receipts, mishaps, history>>

\* Fault: a launch that was only requested is not known to have run.
OnlyReady ==
    /\ pc = "recover"
    /\ recovered' = (recovered /\ recovery = "ready")
    /\ recovery' = IF recovery = "none" THEN "requested" ELSE recovery
    /\ pc' = "resolve"
    /\ UNCHANGED <<want, status, stopped, identity, agent, spec, life, locked, queue,
                   receipts, mishaps, history>>

\* _recovered_launch, for an identity that was there; record_launch, which keeps an outcome
\* over a request.
Recover ==
    /\ pc = "recover"
    /\ recovered' = (recovered /\ recovery \in {"requested", "ready"})
    /\ recovery' = IF recovery = "none" THEN "requested" ELSE recovery
    /\ pc' = "resolve"
    /\ UNCHANGED <<want, status, stopped, identity, agent, spec, life, locked, queue,
                   receipts, mishaps, history>>

\* resolve_agent, and the checks of start_resolved.
Resolve ==
    /\ pc = "resolve" /\ Free
    /\ IF registered = 0 \/ ~Accepted
       THEN Close("failed") /\ UNCHANGED spec
       ELSE /\ spec' = registered /\ pc' = "launch" /\ life' = "job"
            /\ UNCHANGED <<status, locked>>
    /\ UNCHANGED <<want, stopped, identity, recovery, agent, recovered, queue, receipts,
                   mishaps, history>>

\* _start_agent, under profile_lock: nothing is launched over a running session or for
\* another registration; else the session starts.
Launch ==
    /\ pc = "launch"
    /\ \/ /\ Running
          /\ pc' = "running" /\ Unlock
          /\ UNCHANGED <<recovery, session, talk, own, touched, mishaps, marks>>
       \/ /\ ~Running
          /\ \/ registered # spec /\ UNCHANGED mishaps
             \/ Mishap
          /\ recovery' = "failed" /\ pc' = "failing"
          /\ UNCHANGED <<session, talk, life, locked, own, touched, marks>>
       \/ /\ ~Running /\ registered = spec
          /\ session' = "job" /\ talk' = talk + 1
          /\ own' = talk' /\ touched' = touched \cup {registered}
          /\ locked' = TRUE /\ pc' = "started"
          /\ marks' = marks \cup (IF recovery \in {"failed", "exited"} THEN {"relaunched"} ELSE {})
          /\ UNCHANGED <<life, recovery, mishaps>>
    /\ UNCHANGED <<want, status, stopped, identity, registered, since, job, queue, receipts,
                   pasted, claim>>

\* conversation_started, a write that may fail.
Started ==
    /\ pc = "started"
    /\ \/ since' = talk /\ UNCHANGED <<mishaps, marks>>
       \/ Mishap /\ marks' = marks \cup {"undated"} /\ UNCHANGED since
    /\ pc' = "ready" /\ locked' = FALSE
    /\ UNCHANGED <<want, row, registered, session, talk, job, life, queue, receipts, pasted,
                   own, touched, claim>>

HandOver == pc' = IF want.message THEN "deliver" ELSE "finish"

\* wait_until_ready, which looks at a session of that name; the outcome is recorded.
Ready ==
    /\ pc = "ready"
    /\ IF Running
       THEN /\ recovery' = "ready" /\ HandOver /\ Unlock
            /\ claim' = IF session = "job" THEN "own" ELSE "stolen"
            /\ marks' = marks \cup (IF session = "job" THEN {} ELSE {"replaced"})
       ELSE /\ recovery' = "exited" /\ pc' = "failing"
            /\ UNCHANGED <<life, locked, claim, marks>>
    /\ UNCHANGED <<want, status, stopped, identity, agent, job, queue, receipts, mishaps,
                   pasted, own, touched>>

\* Fault: any running session is taken for the launch that is on record.
ClaimAnyRunning ==
    /\ pc = "running"
    /\ IF recovered
       THEN HandOver /\ claim' = (IF session = "job" THEN "own" ELSE "stolen") /\ UNCHANGED status
       ELSE status' = "failed" /\ pc' = "idle" /\ claim' = "left"
    /\ UNCHANGED <<want, stopped, identity, recovery, agent, job, life, locked, queue, receipts,
                   mishaps, pasted, own, touched, marks>>

\* _session_is_launch: a running session is the row's own if it carries the identity of a
\* launch that is on record.
ClaimRunning ==
    /\ pc = "running"
    /\ IF recovered /\ session = "job"
       THEN HandOver /\ claim' = "own" /\ UNCHANGED <<status, life, locked>>
       ELSE Close("failed") /\ claim' = IF session = "job" THEN "disowned" ELSE "left"
    /\ UNCHANGED <<want, stopped, identity, recovery, agent, job, queue, receipts, mishaps,
                   pasted, own, touched, marks>>

(***************************************************************************)
(* The continuation                                                        *)
(***************************************************************************)
\* Fault: the continuation is sent without a look at what was delivered.
NotAsked == FALSE

\* Fault: what an earlier conversation received counts for this one.
EverReceived == receipts # {}

\* once: recorded in the conversation that runs, as far as it is known when it started.
Received == \E c \in receipts : c >= since

\* Fault: a copy that waits in the queue is not looked for.
CopyUnseen == FALSE

\* held_receipt: the queue has the message since an earlier try.
CopyWaits == queue = "pending"

\* safe_deliver, under both locks: the message was delivered or waits already; it is
\* pasted; or it is stored for later.
Deliver ==
    /\ pc = "deliver" /\ Free
    /\ \/ /\ ~Accepted
          /\ Close("failed") /\ UNCHANGED <<queue, mishaps, pasted, touched>>
       \/ /\ Accepted /\ (Received \/ CopyWaits)
          /\ pc' = "finish" /\ Unlock /\ UNCHANGED <<status, queue, mishaps, pasted, touched>>
       \/ /\ Accepted /\ ~Received /\ ~CopyWaits /\ Running
          /\ Paste
          /\ pc' = "record" /\ life' = "job" /\ locked' = TRUE
          /\ UNCHANGED <<status, queue, mishaps>>
       \/ /\ Accepted /\ ~Received /\ ~CopyWaits
          /\ queue' = (IF registered = 0 THEN "retired" ELSE "pending")
          /\ touched' = touched \cup ({registered} \ {0})
          /\ pc' = "finish" /\ Unlock /\ UNCHANGED <<status, mishaps, pasted>>
       \/ /\ Accepted /\ ~Received /\ Mishap
          /\ Close("failed") /\ UNCHANGED <<queue, pasted, touched>>
    /\ UNCHANGED <<want, stopped, identity, recovery, agent, job, receipts, own, claim, marks>>

\* The delivery is recorded, a write that may fail.
Record ==
    /\ pc = "record"
    /\ \/ receipts' = receipts \cup {talk} /\ UNCHANGED <<mishaps, marks>>
       \/ Mishap /\ marks' = marks \cup {"cut"} /\ UNCHANGED receipts
    /\ pc' = "finish" /\ Unlock
    /\ UNCHANGED <<want, row, agent, job, queue, pasted, own, touched, claim>>

Finish ==
    /\ pc \in {"finish", "failing"}
    /\ Close(IF pc = "finish" THEN "completed" ELSE "failed")
    /\ UNCHANGED <<want, stopped, identity, recovery, agent, job, queue, receipts, mishaps,
                   history>>

\* The queue's drain pastes the stored copy, and records it.
DrainPastes ==
    /\ queue = "pending" /\ life = "none" /\ Running
    /\ Paste /\ life' = "drain"
    /\ UNCHANGED <<want, row, agent, pc, job, locked, queue, receipts, mishaps, own, claim, marks>>

DrainRecords ==
    /\ life = "drain"
    /\ receipts' = receipts \cup {talk}
    /\ queue' = (IF queue = "pending" THEN "none" ELSE queue)
    /\ life' = "none"
    /\ UNCHANGED <<want, row, agent, pc, job, locked, mishaps, history>>

Drain == DrainPastes \/ DrainRecords

(***************************************************************************)
(* Other processes, and the end of the service                             *)
(***************************************************************************)
\* A person's start, another launch under another identity. A conversation is left for each
\* launch the job may still make.
HandStart ==
    /\ ~locked /\ ~Running /\ registered # 0
    /\ talk + (MaxMishaps - mishaps) + 1 < MaxTalks
    /\ session' = "hand" /\ talk' = talk + 1 /\ since' = talk'
    /\ UNCHANGED <<want, row, registered, pc, job, life, locked, queue, receipts, mishaps,
                   history>>

\* The session exits, or a person stops it.
SessionEnds ==
    /\ Running
    /\ session' = "none"
    /\ UNCHANGED <<want, row, registered, talk, since, pc, job, life, locked, queue, receipts,
                   mishaps, history>>

\* forget, which retires what is queued.
Forget ==
    /\ ~locked /\ ~Running /\ registered # 0
    /\ registered' = 0
    /\ queue' = IF queue = "pending" THEN "retired" ELSE queue
    /\ UNCHANGED <<want, row, session, talk, since, pc, job, life, locked, receipts, mishaps,
                   history>>

Register ==
    /\ ~locked /\ registered = 0
    /\ registered' = 2
    /\ UNCHANGED <<want, row, session, talk, since, pc, job, life, locked, queue, receipts,
                   mishaps, history>>

\* The service dies and another starts.
Crash ==
    /\ Mishap
    /\ pc' = "idle" /\ life' = "none" /\ locked' = FALSE
    /\ marks' = marks \cup (IF pc = "record" \/ life = "drain" THEN {"cut"} ELSE {})
                      \cup (IF pc = "started" THEN {"undated"} ELSE {})
    /\ UNCHANGED <<want, row, agent, job, queue, receipts, pasted, own, touched, claim>>

(***************************************************************************)
(* Specification                                                           *)
(***************************************************************************)
Advance ==
    \/ Begin \/ Stop \/ Mark \/ MarkLaunching \/ Recover \/ Resolve \/ Launch \/ Started
    \/ Ready \/ ClaimRunning \/ Deliver \/ Record \/ Finish

Next ==
    \/ Advance \/ GivesUp \/ Drain \/ Crash
    \/ HandStart \/ SessionEnds \/ Forget \/ Register

\* The job ticks every 5 s, the retry job drains; nothing is assumed of people.
Fairness == WF_vars(Advance) /\ WF_vars(Drain)

Spec == Init /\ [][Next]_vars /\ Fairness

(***************************************************************************)
(* Properties                                                              *)
(***************************************************************************)
\* A request bound to a registration stops, launches and writes to no later holder of the
\* name (registration_matches under profile_lock; docs/how-it-works.md).
OnlyTheAccepted == want.bound => 2 \notin touched

\* A session someone started by hand is not claimed, and one the row launched is not
\* disowned, though the service died in between (_recovered_launch, _session_is_launch);
\* except a session that replaced the row's own while its readiness was awaited, and a
\* second launch of the row, after one on record as failed, that was cut off.
ClaimsItsOwn ==
    /\ claim = "stolen" => "replaced" \in marks
    /\ claim = "disowned" => "relaunched" \in marks

Twice == \E c \in Talks : pasted[c] > 1

\* A conversation gets the continuation once, whatever dies in between and though a copy
\* waits in the queue (once=True, held_receipt); except when a paste was cut off before its
\* record.
OncePerConversation == Twice => "cut" \in marks

\* A completed restart has handed its message to the conversation it launched or a later one,
\* or to the queue (_in_session); except when that conversation's start was not recorded.
ContinuationKept ==
    status = "completed" /\ want.start /\ want.message =>
        \/ \E c \in Talks : c >= own /\ pasted[c] > 0
        \/ queue # "none"
        \/ "undated" \in marks

\* Every accepted restart ends (run_transitions).
RestartEnds == status = "pending" ~> status # "pending"
=============================================================================

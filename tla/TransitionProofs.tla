-------------------------- MODULE TransitionProofs --------------------------
(***************************************************************************)
(* A restart, for any number of conversations, deaths of the service and   *)
(* failed writes.  The inductive invariant is IInv.  A request bound to a  *)
(* registration reaches no later one because whatever it does follows a    *)
(* look at the registration, and what is queued is retired with it.  A     *)
(* running session is known as the row's own because the identity and the  *)
(* request of its launch are on record before it runs.  A conversation     *)
(* that got the continuation has its receipt, or one that is about to be   *)
(* written, and a receipt of the launch or later stands for a paste.       *)
(***************************************************************************)
EXTENDS Transition, TLAPS

\* The type invariant in parts: the words, the flags, the numbers, and the marks.
WordsOK ==
    /\ status \in {"pending", "completed", "failed"}
    /\ recovery \in {"none", "requested", "failed", "exited", "ready"}
    /\ session \in {"none", "old", "job", "hand"}
    /\ pc \in {"idle", "stop", "mark", "identity", "recover", "resolve", "launch", "started",
               "ready", "running", "deliver", "record", "finish", "failing"}
    /\ life \in {"none", "job", "drain"}
    /\ queue \in {"none", "pending", "retired"}
    /\ claim \in {"none", "own", "stolen", "disowned", "left"}

FlagsOK ==
    /\ want \in Wanted
    /\ stopped \in BOOLEAN /\ identity \in BOOLEAN /\ recovered \in BOOLEAN /\ locked \in BOOLEAN

NumbersOK ==
    /\ registered \in 0 .. 2 /\ spec \in 0 .. 2 /\ touched \subseteq {1, 2}
    /\ talk \in Talks /\ since \in Talks /\ own \in {0} \cup Talks
    /\ receipts \subseteq Talks
    /\ mishaps \in 0 .. MaxMishaps
    /\ pasted \in [Talks -> 0 .. 2]

MarksOK == marks \subseteq {"cut", "undated", "relaunched", "replaced"}

\* The job's places before it launches anything.
Before == {"idle", "stop", "mark", "identity", "recover", "resolve", "launch"}

\* There is a conversation left for each launch still to come: the job launches
\* once, and once more for each death of the service.
RoomOK ==
    /\ pc # "idle" => status = "pending"
    /\ status = "pending" =>
          talk + (MaxMishaps - mishaps) + (IF pc \in Before THEN 1 ELSE 0) <= MaxTalks

\* A running session has a registered agent: one cannot be forgotten under it.
HolderOK == (session # "none" => registered # 0) /\ (pc = "launch" => spec # 0)

\* What the job does for a bound request, it does for registration 1; and
\* nothing queued for it outlives that registration.
BoundOK ==
    want.bound =>
        /\ 2 \notin touched
        /\ pc = "launch" => spec = 1
        /\ queue = "pending" => registered = 1

\* The session a row launched has its identity and its request on record, or a
\* later launch was made after one that is on record as failed.
KnownOK ==
    /\ pc \in {"resolve", "launch", "started", "ready", "running"} => recovery # "none"
    /\ pc \in {"recover", "resolve", "launch", "started", "ready", "running"} => identity
    /\ session = "job" =>
          /\ identity
          /\ recovery \in {"requested", "ready"} \/ "relaunched" \in marks
          /\ pc \in {"recover", "resolve", "launch", "running"} =>
                recovered \/ "relaunched" \in marks
    /\ ClaimsItsOwn

\* From the launch to its end the job has lifecycle_lock, and where a conversation is
\* counted or a paste awaits its record, profile_lock too: no one starts another then.
LocksOK ==
    /\ pc \in {"launch", "started", "ready", "record"} => life = "job"
    /\ pc \in {"started", "record"} => locked

\* Nothing is known of a conversation that has not begun.
CountedOK ==
    /\ since <= talk /\ own <= talk
    /\ \A c \in receipts : c <= talk
    /\ \A c \in Talks : c > talk => pasted[c] = 0

\* The conversation that has the continuation has its receipt, or one is about to write it;
\* and the stored copy is for a conversation that does not have it.
RecordedOK ==
    "cut" \notin marks =>
        /\ \A c \in Talks : pasted[c] <= 1
        /\ pasted[talk] # 0 => talk \in receipts \/ pc = "record" \/ life = "drain"
        /\ queue = "pending" => pasted[talk] = 0 \/ life = "drain"

\* Receipts are compared with a start no older than the row's own launch.
DatedOK == status = "pending" /\ pc # "started" /\ "undated" \notin marks => own <= since

\* The launched conversation or a later one got the continuation.
ReachedIt == \E c \in Talks : c >= own /\ pasted[c] > 0

\* A receipt of such a conversation, or one about to be written, stands for a paste; and the
\* job ends with the message handed over.
HandedOK ==
    /\ (\E c \in receipts : c >= own) \/ life = "drain" \/ pc = "record" => ReachedIt
    /\ pc = "finish" \/ status = "completed" =>
       (want.start /\ want.message => ReachedIt \/ queue # "none" \/ "undated" \in marks)

IInv ==
    /\ TypeOK /\ HolderOK /\ RoomOK /\ BoundOK /\ KnownOK
    /\ LocksOK /\ CountedOK /\ RecordedOK /\ DatedOK /\ HandedOK

-----------------------------------------------------------------------------
\* The parts are all of the type invariant.
LEMMA TypeParts == TypeOK <=> WordsOK /\ FlagsOK /\ NumbersOK /\ MarksOK
  BY DEF TypeOK, WordsOK, FlagsOK, NumbersOK, MarksOK

\* The service starts with an accepted request and nothing done for it.
LEMMA InitInvariant == Init => IInv
<1> SUFFICES ASSUME Init PROVE IInv
  OBVIOUS
<1>1. WordsOK /\ FlagsOK /\ MarksOK
  BY DEF Init, WordsOK, FlagsOK, MarksOK
<1>2. NumbersOK
  BY TransitionAssumption DEF Init, NumbersOK, Talks
<1>3. HolderOK /\ RoomOK /\ BoundOK
  BY TransitionAssumption DEF Init, HolderOK, RoomOK, BoundOK, Before
<1>4. KnownOK
  BY DEF Init, KnownOK, ClaimsItsOwn
<1>5. LocksOK /\ CountedOK /\ RecordedOK /\ DatedOK /\ HandedOK
  BY TransitionAssumption
     DEF Init, LocksOK, CountedOK, RecordedOK, DatedOK, HandedOK, Talks
<1> QED
  BY <1>1, <1>2, <1>3, <1>4, <1>5, TypeParts DEF IInv

\* Types of the words: each step writes values of the variable's range.
LEMMA WordsPreserved ==
  ASSUME WordsOK, Next
  PROVE  WordsOK'
<1>1. CASE Begin
  BY <1>1 DEF Begin, Accepted, Hold, Close, Leave, WordsOK, row, agent, job, history
<1>2. CASE Stop
  BY <1>2 DEF Stop, Accepted, Close, Leave, Running, Free, WordsOK, row, agent, job, history
<1>3. CASE GivesUp
  BY <1>3 DEF GivesUp, Mishap, Close, Leave, WordsOK, row, agent, job, history
<1>4. CASE Mark
  BY <1>4 DEF Mark, Leave, WordsOK, row, agent, job, history
<1>5. CASE MarkLaunching
  BY <1>5 DEF MarkLaunching, WordsOK, row, agent, job, history
<1>6. CASE Recover
  BY <1>6 DEF Recover, WordsOK, row, agent, job, history
<1>7. CASE Resolve
  BY <1>7 DEF Resolve, Accepted, Close, Leave, Free, WordsOK, row, agent, job, history
<1>8. CASE Launch
  BY <1>8 DEF Launch, Running, Unlock, Mishap, WordsOK, row, agent, job, history
<1>9. CASE Started
  BY <1>9 DEF Started, Mishap, WordsOK, row, agent, job, history
<1>10. CASE Ready
  BY <1>10 DEF Ready, Running, HandOver, Unlock, WordsOK, row, agent, job, history
<1>11. CASE ClaimRunning
  BY <1>11 DEF ClaimRunning, HandOver, Close, Leave, WordsOK, row, agent, job, history
<1>12. CASE Deliver
  BY <1>12 DEF Deliver, Accepted, Close, Leave, Unlock, Running, Paste, Mishap, Free, WordsOK,
     row, agent, job, history
<1>13. CASE Record
  BY <1>13 DEF Record, Mishap, Unlock, WordsOK, row, agent, job, history
<1>14. CASE Finish
  BY <1>14 DEF Finish, Close, Leave, WordsOK, row, agent, job, history
<1>15. CASE DrainPastes
  BY <1>15 DEF DrainPastes, Running, Paste, WordsOK, row, agent, job, history
<1>16. CASE DrainRecords
  BY <1>16 DEF DrainRecords, WordsOK, row, agent, job, history
<1>17. CASE HandStart
  BY <1>17 DEF HandStart, Running, WordsOK, row, agent, job, history
<1>18. CASE SessionEnds
  BY <1>18 DEF SessionEnds, Running, WordsOK, row, agent, job, history
<1>19. CASE Forget
  BY <1>19 DEF Forget, Running, WordsOK, row, agent, job, history
<1>20. CASE Register
  BY <1>20 DEF Register, WordsOK, row, agent, job, history
<1>21. CASE Crash
  BY <1>21 DEF Crash, Mishap, WordsOK, row, agent, job, history
<1> QED
  BY <1>1, <1>2, <1>3, <1>4, <1>5, <1>6, <1>7, <1>8, <1>9, <1>10, <1>11, <1>12, <1>13, <1>14,
     <1>15, <1>16, <1>17, <1>18, <1>19, <1>20, <1>21
     DEF Next, Advance, Drain

\* Types of the flags; the request stays what it is.
LEMMA FlagsPreserved ==
  ASSUME FlagsOK, Next
  PROVE  FlagsOK'
<1>1. CASE Begin
  BY <1>1 DEF Begin, Accepted, Hold, Close, Leave, FlagsOK, row, agent, job, history
<1>2. CASE Stop
  BY <1>2 DEF Stop, Accepted, Close, Leave, Running, Free, FlagsOK, row, agent, job, history
<1>3. CASE GivesUp
  BY <1>3 DEF GivesUp, Mishap, Close, Leave, FlagsOK, row, agent, job, history
<1>4. CASE Mark
  BY <1>4 DEF Mark, Leave, FlagsOK, row, agent, job, history
<1>5. CASE MarkLaunching
  BY <1>5 DEF MarkLaunching, FlagsOK, row, agent, job, history
<1>6. CASE Recover
  BY <1>6 DEF Recover, FlagsOK, row, agent, job, history
<1>7. CASE Resolve
  BY <1>7 DEF Resolve, Accepted, Close, Leave, Free, FlagsOK, row, agent, job, history
<1>8. CASE Launch
  BY <1>8 DEF Launch, Running, Unlock, Mishap, FlagsOK, row, agent, job, history
<1>9. CASE Started
  BY <1>9 DEF Started, Mishap, FlagsOK, row, agent, job, history
<1>10. CASE Ready
  BY <1>10 DEF Ready, Running, HandOver, Unlock, FlagsOK, row, agent, job, history
<1>11. CASE ClaimRunning
  BY <1>11 DEF ClaimRunning, HandOver, Close, Leave, FlagsOK, row, agent, job, history
<1>12. CASE Deliver
  BY <1>12 DEF Deliver, Accepted, Close, Leave, Unlock, Running, Paste, Mishap, Free, FlagsOK,
     row, agent, job, history
<1>13. CASE Record
  BY <1>13 DEF Record, Mishap, Unlock, FlagsOK, row, agent, job, history
<1>14. CASE Finish
  BY <1>14 DEF Finish, Close, Leave, FlagsOK, row, agent, job, history
<1>15. CASE DrainPastes
  BY <1>15 DEF DrainPastes, Running, Paste, FlagsOK, row, agent, job, history
<1>16. CASE DrainRecords
  BY <1>16 DEF DrainRecords, FlagsOK, row, agent, job, history
<1>17. CASE HandStart
  BY <1>17 DEF HandStart, Running, FlagsOK, row, agent, job, history
<1>18. CASE SessionEnds
  BY <1>18 DEF SessionEnds, Running, FlagsOK, row, agent, job, history
<1>19. CASE Forget
  BY <1>19 DEF Forget, Running, FlagsOK, row, agent, job, history
<1>20. CASE Register
  BY <1>20 DEF Register, FlagsOK, row, agent, job, history
<1>21. CASE Crash
  BY <1>21 DEF Crash, Mishap, FlagsOK, row, agent, job, history
<1> QED
  BY <1>1, <1>2, <1>3, <1>4, <1>5, <1>6, <1>7, <1>8, <1>9, <1>10, <1>11, <1>12, <1>13, <1>14,
     <1>15, <1>16, <1>17, <1>18, <1>19, <1>20, <1>21
     DEF Next, Advance, Drain

\* Types of the numbers.  A launch has a conversation left for it.
LEMMA NumbersPreserved ==
  ASSUME WordsOK, NumbersOK, HolderOK, RoomOK, Next
  PROVE  NumbersOK'
<1>1. CASE Begin
  BY <1>1, TransitionAssumption DEF Begin, Accepted, Hold, Close, Leave, NumbersOK, HolderOK,
     Talks, row, agent, job, history
<1>2. CASE Stop
  <2>1. (registered \in 0 .. 2 /\ spec \in 0 .. 2)'
    BY <1>2 DEF Stop, NumbersOK, agent, job, history
  <2>2. touched' \subseteq {1, 2}
    <3>1. session # "none" => registered \in {1, 2}
      BY DEF NumbersOK, HolderOK
    <3>2. touched \subseteq {1, 2}
      BY DEF NumbersOK
    <3> QED
      BY <1>2, <3>1, <3>2 DEF Stop, Running, Close, Leave
  <2>3. (talk \in Talks /\ since \in Talks /\ own \in {0} \cup Talks)'
    BY <1>2, TransitionAssumption DEF Stop, NumbersOK, agent, job, history
  <2>4. receipts' \subseteq Talks
    BY <1>2 DEF Stop, NumbersOK, agent, job, history
  <2>5. mishaps' \in 0 .. MaxMishaps
    BY <1>2, TransitionAssumption DEF Stop, NumbersOK, agent, job, history
  <2>6. pasted' \in [Talks -> 0 .. 2]
    BY <1>2 DEF Stop, NumbersOK, agent, job, history
  <2> QED
    BY <2>1, <2>2, <2>3, <2>4, <2>5, <2>6 DEF NumbersOK
<1>3. CASE GivesUp
  BY <1>3, TransitionAssumption DEF GivesUp, Mishap, Close, Leave, NumbersOK, HolderOK, Talks,
     row, agent, job, history
<1>4. CASE Mark
  BY <1>4, TransitionAssumption DEF Mark, Leave, NumbersOK, HolderOK, Talks, row, agent, job,
     history
<1>5. CASE MarkLaunching
  BY <1>5, TransitionAssumption DEF MarkLaunching, NumbersOK, HolderOK, Talks, row, agent, job,
     history
<1>6. CASE Recover
  BY <1>6, TransitionAssumption DEF Recover, NumbersOK, HolderOK, Talks, row, agent, job, history
<1>7. CASE Resolve
  BY <1>7, TransitionAssumption DEF Resolve, Accepted, Close, Leave, Free, NumbersOK, HolderOK,
     Talks, row, agent, job, history
<1>8. CASE Launch
  <2>1. (registered \in 0 .. 2 /\ spec \in 0 .. 2)'
    BY <1>8 DEF Launch, NumbersOK, agent, job, history
  <2>2. touched' \subseteq {1, 2}
    <3>1. pc = "launch" /\ registered = spec => registered \in {1, 2}
      BY DEF NumbersOK, HolderOK
    <3>2. touched \subseteq {1, 2}
      BY DEF NumbersOK
    <3> QED
      BY <1>8, <3>1, <3>2 DEF Launch, history
  <2>3. (talk \in Talks /\ since \in Talks /\ own \in {0} \cup Talks)'
    BY <1>8, TransitionAssumption
       DEF Launch, NumbersOK, agent, job, history, RoomOK, Before, Talks, Mishap
  <2>4. receipts' \subseteq Talks
    BY <1>8 DEF Launch, NumbersOK, agent, job, history
  <2>5. mishaps' \in 0 .. MaxMishaps
    BY <1>8, TransitionAssumption DEF Launch, NumbersOK, agent, job, history, Mishap
  <2>6. pasted' \in [Talks -> 0 .. 2]
    BY <1>8 DEF Launch, NumbersOK, agent, job, history
  <2> QED
    BY <2>1, <2>2, <2>3, <2>4, <2>5, <2>6 DEF NumbersOK
<1>9. CASE Started
  BY <1>9, TransitionAssumption DEF Started, Mishap, NumbersOK, HolderOK, Talks, row, agent,
     job, history
<1>10. CASE Ready
  BY <1>10, TransitionAssumption DEF Ready, Running, HandOver, Unlock, NumbersOK, HolderOK,
     Talks, row, agent, job, history
<1>11. CASE ClaimRunning
  BY <1>11, TransitionAssumption DEF ClaimRunning, HandOver, Close, Leave, NumbersOK, HolderOK,
     Talks, row, agent, job, history
<1>12. CASE Deliver
  <2>1. (registered \in 0 .. 2 /\ spec \in 0 .. 2)'
    BY <1>12 DEF Deliver, NumbersOK, agent, job, history
  <2>2. touched' \subseteq {1, 2}
    <3>1. registered \in {0, 1, 2} /\ (session # "none" => registered # 0)
      BY DEF NumbersOK, HolderOK
    <3>2. touched \subseteq {1, 2}
      BY DEF NumbersOK
    <3> QED
      BY <1>12, <3>1, <3>2 DEF Deliver, Running, Paste
  <2>3. (talk \in Talks /\ since \in Talks /\ own \in {0} \cup Talks)'
    BY <1>12, TransitionAssumption DEF Deliver, NumbersOK, agent, job, history
  <2>4. receipts' \subseteq Talks
    BY <1>12 DEF Deliver, NumbersOK, agent, job, history
  <2>5. mishaps' \in 0 .. MaxMishaps
    BY <1>12, TransitionAssumption DEF Deliver, NumbersOK, agent, job, history, Mishap
  <2>6. pasted' \in [Talks -> 0 .. 2]
    BY <1>12 DEF Deliver, NumbersOK, agent, job, history, Paste
  <2> QED
    BY <2>1, <2>2, <2>3, <2>4, <2>5, <2>6 DEF NumbersOK
<1>13. CASE Record
  <2>1. (registered \in 0 .. 2 /\ spec \in 0 .. 2)'
    BY <1>13 DEF Record, NumbersOK, agent, job, history
  <2>2. touched' \subseteq {1, 2}
    BY <1>13 DEF Record, NumbersOK, agent, job, history
  <2>3. (talk \in Talks /\ since \in Talks /\ own \in {0} \cup Talks)'
    BY <1>13, TransitionAssumption DEF Record, NumbersOK, agent, job, history
  <2>4. receipts' \subseteq Talks
    BY <1>13 DEF Record, NumbersOK, agent, job, history
  <2>5. mishaps' \in 0 .. MaxMishaps
    BY <1>13, TransitionAssumption DEF Record, NumbersOK, agent, job, history, Mishap
  <2>6. pasted' \in [Talks -> 0 .. 2]
    BY <1>13 DEF Record, NumbersOK, agent, job, history
  <2> QED
    BY <2>1, <2>2, <2>3, <2>4, <2>5, <2>6 DEF NumbersOK
<1>14. CASE Finish
  BY <1>14, TransitionAssumption DEF Finish, Close, Leave, NumbersOK, HolderOK, Talks, row,
     agent, job, history
<1>15. CASE DrainPastes
  BY <1>15, TransitionAssumption DEF DrainPastes, Running, Paste, NumbersOK, HolderOK, Talks,
     row, agent, job, history
<1>16. CASE DrainRecords
  BY <1>16, TransitionAssumption DEF DrainRecords, NumbersOK, HolderOK, Talks, row, agent, job,
     history
<1>17. CASE HandStart
  BY <1>17, TransitionAssumption DEF HandStart, Running, NumbersOK, HolderOK, Talks, row, agent,
     job, history
<1>18. CASE SessionEnds
  BY <1>18, TransitionAssumption DEF SessionEnds, Running, NumbersOK, HolderOK, Talks, row,
     agent, job, history
<1>19. CASE Forget
  BY <1>19, TransitionAssumption DEF Forget, Running, NumbersOK, HolderOK, Talks, row, agent,
     job, history
<1>20. CASE Register
  BY <1>20, TransitionAssumption DEF Register, NumbersOK, HolderOK, Talks, row, agent, job, history
<1>21. CASE Crash
  BY <1>21, TransitionAssumption DEF Crash, Mishap, NumbersOK, HolderOK, Talks, row, agent, job,
     history
<1> QED
  BY <1>1, <1>2, <1>3, <1>4, <1>5, <1>6, <1>7, <1>8, <1>9, <1>10, <1>11, <1>12, <1>13, <1>14,
     <1>15, <1>16, <1>17, <1>18, <1>19, <1>20, <1>21
     DEF Next, Advance, Drain

\* Types of the marks.
LEMMA MarksPreserved ==
  ASSUME MarksOK, Next
  PROVE  MarksOK'
<1>1. CASE Begin
  BY <1>1 DEF Begin, Accepted, Hold, Close, Leave, MarksOK, row, agent, job, history
<1>2. CASE Stop
  BY <1>2 DEF Stop, Accepted, Close, Leave, Running, Free, MarksOK, row, agent, job, history
<1>3. CASE GivesUp
  BY <1>3 DEF GivesUp, Mishap, Close, Leave, MarksOK, row, agent, job, history
<1>4. CASE Mark
  BY <1>4 DEF Mark, Leave, MarksOK, row, agent, job, history
<1>5. CASE MarkLaunching
  BY <1>5 DEF MarkLaunching, MarksOK, row, agent, job, history
<1>6. CASE Recover
  BY <1>6 DEF Recover, MarksOK, row, agent, job, history
<1>7. CASE Resolve
  BY <1>7 DEF Resolve, Accepted, Close, Leave, Free, MarksOK, row, agent, job, history
<1>8. CASE Launch
  BY <1>8 DEF Launch, Running, Unlock, Mishap, MarksOK, row, agent, job, history
<1>9. CASE Started
  BY <1>9 DEF Started, Mishap, MarksOK, row, agent, job, history
<1>10. CASE Ready
  BY <1>10 DEF Ready, Running, HandOver, Unlock, MarksOK, row, agent, job, history
<1>11. CASE ClaimRunning
  BY <1>11 DEF ClaimRunning, HandOver, Close, Leave, MarksOK, row, agent, job, history
<1>12. CASE Deliver
  BY <1>12 DEF Deliver, Accepted, Close, Leave, Unlock, Running, Paste, Mishap, Free, MarksOK,
     row, agent, job, history
<1>13. CASE Record
  BY <1>13 DEF Record, Mishap, Unlock, MarksOK, row, agent, job, history
<1>14. CASE Finish
  BY <1>14 DEF Finish, Close, Leave, MarksOK, row, agent, job, history
<1>15. CASE DrainPastes
  BY <1>15 DEF DrainPastes, Running, Paste, MarksOK, row, agent, job, history
<1>16. CASE DrainRecords
  BY <1>16 DEF DrainRecords, MarksOK, row, agent, job, history
<1>17. CASE HandStart
  BY <1>17 DEF HandStart, Running, MarksOK, row, agent, job, history
<1>18. CASE SessionEnds
  BY <1>18 DEF SessionEnds, Running, MarksOK, row, agent, job, history
<1>19. CASE Forget
  BY <1>19 DEF Forget, Running, MarksOK, row, agent, job, history
<1>20. CASE Register
  BY <1>20 DEF Register, MarksOK, row, agent, job, history
<1>21. CASE Crash
  BY <1>21 DEF Crash, Mishap, MarksOK, row, agent, job, history
<1> QED
  BY <1>1, <1>2, <1>3, <1>4, <1>5, <1>6, <1>7, <1>8, <1>9, <1>10, <1>11, <1>12, <1>13, <1>14,
     <1>15, <1>16, <1>17, <1>18, <1>19, <1>20, <1>21
     DEF Next, Advance, Drain

\* A session starts for a registered agent.
LEMMA HolderPreserved ==
  ASSUME NumbersOK, HolderOK, Next
  PROVE  HolderOK'
<1>1. CASE Begin
  BY <1>1 DEF Begin, Accepted, Hold, Close, Leave, NumbersOK, HolderOK, row, agent, job, history
<1>2. CASE Stop
  BY <1>2 DEF Stop, Accepted, Close, Leave, Running, Free, NumbersOK, HolderOK, row, agent, job,
     history
<1>3. CASE GivesUp
  BY <1>3 DEF GivesUp, Mishap, Close, Leave, NumbersOK, HolderOK, row, agent, job, history
<1>4. CASE Mark
  BY <1>4 DEF Mark, Leave, NumbersOK, HolderOK, row, agent, job, history
<1>5. CASE MarkLaunching
  BY <1>5 DEF MarkLaunching, NumbersOK, HolderOK, row, agent, job, history
<1>6. CASE Recover
  BY <1>6 DEF Recover, NumbersOK, HolderOK, row, agent, job, history
<1>7. CASE Resolve
  BY <1>7 DEF Resolve, Accepted, Close, Leave, Free, NumbersOK, HolderOK, row, agent, job, history
<1>8. CASE Launch
  BY <1>8 DEF Launch, Running, Unlock, Mishap, NumbersOK, HolderOK, row, agent, job, history
<1>9. CASE Started
  BY <1>9 DEF Started, Mishap, NumbersOK, HolderOK, row, agent, job, history
<1>10. CASE Ready
  BY <1>10 DEF Ready, Running, HandOver, Unlock, NumbersOK, HolderOK, row, agent, job, history
<1>11. CASE ClaimRunning
  BY <1>11 DEF ClaimRunning, HandOver, Close, Leave, NumbersOK, HolderOK, row, agent, job, history
<1>12. CASE Deliver
  BY <1>12 DEF Deliver, Accepted, Close, Leave, Unlock, Running, Paste, Mishap, Free, NumbersOK,
     HolderOK, row, agent, job, history
<1>13. CASE Record
  BY <1>13 DEF Record, Mishap, Unlock, NumbersOK, HolderOK, row, agent, job, history
<1>14. CASE Finish
  BY <1>14 DEF Finish, Close, Leave, NumbersOK, HolderOK, row, agent, job, history
<1>15. CASE DrainPastes
  BY <1>15 DEF DrainPastes, Running, Paste, NumbersOK, HolderOK, row, agent, job, history
<1>16. CASE DrainRecords
  BY <1>16 DEF DrainRecords, NumbersOK, HolderOK, row, agent, job, history
<1>17. CASE HandStart
  BY <1>17 DEF HandStart, Running, NumbersOK, HolderOK, row, agent, job, history
<1>18. CASE SessionEnds
  BY <1>18 DEF SessionEnds, Running, NumbersOK, HolderOK, row, agent, job, history
<1>19. CASE Forget
  BY <1>19 DEF Forget, Running, NumbersOK, HolderOK, row, agent, job, history
<1>20. CASE Register
  BY <1>20 DEF Register, NumbersOK, HolderOK, row, agent, job, history
<1>21. CASE Crash
  BY <1>21 DEF Crash, Mishap, NumbersOK, HolderOK, row, agent, job, history
<1> QED
  BY <1>1, <1>2, <1>3, <1>4, <1>5, <1>6, <1>7, <1>8, <1>9, <1>10, <1>11, <1>12, <1>13, <1>14,
     <1>15, <1>16, <1>17, <1>18, <1>19, <1>20, <1>21
     DEF Next, Advance, Drain

\* A launch takes a conversation, a further one needs a mishap; people leave room.
LEMMA RoomPreserved ==
  ASSUME NumbersOK, RoomOK, Next
  PROVE  RoomOK'
<1>1. CASE Begin
  BY <1>1, TransitionAssumption DEF Begin, Accepted, Hold, Close, Leave, NumbersOK, RoomOK,
     Before, Talks, row, agent, job, history
<1>2. CASE Stop
  BY <1>2, TransitionAssumption DEF Stop, Accepted, Close, Leave, Running, Free, NumbersOK,
     RoomOK, Before, Talks, row, agent, job, history
<1>3. CASE GivesUp
  BY <1>3, TransitionAssumption DEF GivesUp, Mishap, Close, Leave, NumbersOK, RoomOK, Before,
     Talks, row, agent, job, history
<1>4. CASE Mark
  BY <1>4, TransitionAssumption DEF Mark, Leave, NumbersOK, RoomOK, Before, Talks, row, agent,
     job, history
<1>5. CASE MarkLaunching
  BY <1>5, TransitionAssumption DEF MarkLaunching, NumbersOK, RoomOK, Before, Talks, row, agent,
     job, history
<1>6. CASE Recover
  BY <1>6, TransitionAssumption DEF Recover, NumbersOK, RoomOK, Before, Talks, row, agent, job,
     history
<1>7. CASE Resolve
  BY <1>7, TransitionAssumption DEF Resolve, Accepted, Close, Leave, Free, NumbersOK, RoomOK,
     Before, Talks, row, agent, job, history
<1>8. CASE Launch
  BY <1>8, TransitionAssumption DEF Launch, Running, Unlock, Mishap, NumbersOK, RoomOK, Before,
     Talks, row, agent, job, history
<1>9. CASE Started
  BY <1>9, TransitionAssumption DEF Started, Mishap, NumbersOK, RoomOK, Before, Talks, row,
     agent, job, history
<1>10. CASE Ready
  BY <1>10, TransitionAssumption DEF Ready, Running, HandOver, Unlock, NumbersOK, RoomOK,
     Before, Talks, row, agent, job, history
<1>11. CASE ClaimRunning
  BY <1>11, TransitionAssumption DEF ClaimRunning, HandOver, Close, Leave, NumbersOK, RoomOK,
     Before, Talks, row, agent, job, history
<1>12. CASE Deliver
  BY <1>12, TransitionAssumption DEF Deliver, Accepted, Close, Leave, Unlock, Running, Paste,
     Mishap, Free, NumbersOK, RoomOK, Before, Talks, row, agent, job, history
<1>13. CASE Record
  BY <1>13, TransitionAssumption DEF Record, Mishap, Unlock, NumbersOK, RoomOK, Before, Talks,
     row, agent, job, history
<1>14. CASE Finish
  BY <1>14, TransitionAssumption DEF Finish, Close, Leave, NumbersOK, RoomOK, Before, Talks,
     row, agent, job, history
<1>15. CASE DrainPastes
  BY <1>15, TransitionAssumption DEF DrainPastes, Running, Paste, NumbersOK, RoomOK, Before,
     Talks, row, agent, job, history
<1>16. CASE DrainRecords
  BY <1>16, TransitionAssumption DEF DrainRecords, NumbersOK, RoomOK, Before, Talks, row, agent,
     job, history
<1>17. CASE HandStart
  BY <1>17, TransitionAssumption DEF HandStart, Running, NumbersOK, RoomOK, Before, Talks, row,
     agent, job, history
<1>18. CASE SessionEnds
  BY <1>18, TransitionAssumption DEF SessionEnds, Running, NumbersOK, RoomOK, Before, Talks,
     row, agent, job, history
<1>19. CASE Forget
  BY <1>19, TransitionAssumption DEF Forget, Running, NumbersOK, RoomOK, Before, Talks, row,
     agent, job, history
<1>20. CASE Register
  BY <1>20, TransitionAssumption DEF Register, NumbersOK, RoomOK, Before, Talks, row, agent,
     job, history
<1>21. CASE Crash
  BY <1>21, TransitionAssumption DEF Crash, Mishap, NumbersOK, RoomOK, Before, Talks, row,
     agent, job, history
<1> QED
  BY <1>1, <1>2, <1>3, <1>4, <1>5, <1>6, <1>7, <1>8, <1>9, <1>10, <1>11, <1>12, <1>13, <1>14,
     <1>15, <1>16, <1>17, <1>18, <1>19, <1>20, <1>21
     DEF Next, Advance, Drain

\* Whoever touches a registration has looked at it in the same step, or at what a look left.
LEMMA BoundPreserved ==
  ASSUME WordsOK, NumbersOK, BoundOK, Next
  PROVE  BoundOK'
<1>1. CASE Begin
  BY <1>1 DEF Begin, Accepted, Hold, Close, Leave, WordsOK, NumbersOK, BoundOK, row, agent, job,
     history
<1>2. CASE Stop
  BY <1>2 DEF Stop, Accepted, Close, Leave, Running, Free, WordsOK, NumbersOK, BoundOK, row,
     agent, job, history
<1>3. CASE GivesUp
  BY <1>3 DEF GivesUp, Mishap, Close, Leave, WordsOK, NumbersOK, BoundOK, row, agent, job, history
<1>4. CASE Mark
  BY <1>4 DEF Mark, Leave, WordsOK, NumbersOK, BoundOK, row, agent, job, history
<1>5. CASE MarkLaunching
  BY <1>5 DEF MarkLaunching, WordsOK, NumbersOK, BoundOK, row, agent, job, history
<1>6. CASE Recover
  BY <1>6 DEF Recover, WordsOK, NumbersOK, BoundOK, row, agent, job, history
<1>7. CASE Resolve
  BY <1>7 DEF Resolve, Accepted, Close, Leave, Free, WordsOK, NumbersOK, BoundOK, row, agent,
     job, history
<1>8. CASE Launch
  BY <1>8 DEF Launch, Running, Unlock, Mishap, WordsOK, NumbersOK, BoundOK, row, agent, job, history
<1>9. CASE Started
  BY <1>9 DEF Started, Mishap, WordsOK, NumbersOK, BoundOK, row, agent, job, history
<1>10. CASE Ready
  BY <1>10 DEF Ready, Running, HandOver, Unlock, WordsOK, NumbersOK, BoundOK, row, agent, job,
     history
<1>11. CASE ClaimRunning
  BY <1>11 DEF ClaimRunning, HandOver, Close, Leave, WordsOK, NumbersOK, BoundOK, row, agent,
     job, history
<1>12. CASE Deliver
  BY <1>12 DEF Deliver, Accepted, Close, Leave, Unlock, Running, Paste, Mishap, Free, WordsOK,
     NumbersOK, BoundOK, row, agent, job, history
<1>13. CASE Record
  BY <1>13 DEF Record, Mishap, Unlock, WordsOK, NumbersOK, BoundOK, row, agent, job, history
<1>14. CASE Finish
  BY <1>14 DEF Finish, Close, Leave, WordsOK, NumbersOK, BoundOK, row, agent, job, history
<1>15. CASE DrainPastes
  BY <1>15 DEF DrainPastes, Running, Paste, WordsOK, NumbersOK, BoundOK, row, agent, job, history
<1>16. CASE DrainRecords
  BY <1>16 DEF DrainRecords, WordsOK, NumbersOK, BoundOK, row, agent, job, history
<1>17. CASE HandStart
  BY <1>17 DEF HandStart, Running, WordsOK, NumbersOK, BoundOK, row, agent, job, history
<1>18. CASE SessionEnds
  BY <1>18 DEF SessionEnds, Running, WordsOK, NumbersOK, BoundOK, row, agent, job, history
<1>19. CASE Forget
  BY <1>19 DEF Forget, Running, WordsOK, NumbersOK, BoundOK, row, agent, job, history
<1>20. CASE Register
  BY <1>20 DEF Register, WordsOK, NumbersOK, BoundOK, row, agent, job, history
<1>21. CASE Crash
  BY <1>21 DEF Crash, Mishap, WordsOK, NumbersOK, BoundOK, row, agent, job, history
<1> QED
  BY <1>1, <1>2, <1>3, <1>4, <1>5, <1>6, <1>7, <1>8, <1>9, <1>10, <1>11, <1>12, <1>13, <1>14,
     <1>15, <1>16, <1>17, <1>18, <1>19, <1>20, <1>21
     DEF Next, Advance, Drain

\* The identity and the request go on record before the session runs.
LEMMA KnownPreserved ==
  ASSUME WordsOK, KnownOK, Next
  PROVE  KnownOK'
<1>1. CASE Begin
  BY <1>1 DEF Begin, Accepted, Hold, Close, Leave, WordsOK, KnownOK, ClaimsItsOwn, row, agent,
     job, history
<1>2. CASE Stop
  BY <1>2 DEF Stop, Accepted, Close, Leave, Running, Free, WordsOK, KnownOK, ClaimsItsOwn, row,
     agent, job, history
<1>3. CASE GivesUp
  BY <1>3 DEF GivesUp, Mishap, Close, Leave, WordsOK, KnownOK, ClaimsItsOwn, row, agent, job,
     history
<1>4. CASE Mark
  BY <1>4 DEF Mark, Leave, WordsOK, KnownOK, ClaimsItsOwn, row, agent, job, history
<1>5. CASE MarkLaunching
  BY <1>5 DEF MarkLaunching, WordsOK, KnownOK, ClaimsItsOwn, row, agent, job, history
<1>6. CASE Recover
  BY <1>6 DEF Recover, WordsOK, KnownOK, ClaimsItsOwn, row, agent, job, history
<1>7. CASE Resolve
  BY <1>7 DEF Resolve, Accepted, Close, Leave, Free, WordsOK, KnownOK, ClaimsItsOwn, row, agent,
     job, history
<1>8. CASE Launch
  BY <1>8 DEF Launch, Running, Unlock, Mishap, WordsOK, KnownOK, ClaimsItsOwn, row, agent, job,
     history
<1>9. CASE Started
  BY <1>9 DEF Started, Mishap, WordsOK, KnownOK, ClaimsItsOwn, row, agent, job, history
<1>10. CASE Ready
  BY <1>10 DEF Ready, Running, HandOver, Unlock, WordsOK, KnownOK, ClaimsItsOwn, row, agent,
     job, history
<1>11. CASE ClaimRunning
  BY <1>11 DEF ClaimRunning, HandOver, Close, Leave, WordsOK, KnownOK, ClaimsItsOwn, row, agent,
     job, history
<1>12. CASE Deliver
  BY <1>12 DEF Deliver, Accepted, Close, Leave, Unlock, Running, Paste, Mishap, Free, WordsOK,
     KnownOK, ClaimsItsOwn, row, agent, job, history
<1>13. CASE Record
  BY <1>13 DEF Record, Mishap, Unlock, WordsOK, KnownOK, ClaimsItsOwn, row, agent, job, history
<1>14. CASE Finish
  BY <1>14 DEF Finish, Close, Leave, WordsOK, KnownOK, ClaimsItsOwn, row, agent, job, history
<1>15. CASE DrainPastes
  BY <1>15 DEF DrainPastes, Running, Paste, WordsOK, KnownOK, ClaimsItsOwn, row, agent, job, history
<1>16. CASE DrainRecords
  BY <1>16 DEF DrainRecords, WordsOK, KnownOK, ClaimsItsOwn, row, agent, job, history
<1>17. CASE HandStart
  BY <1>17 DEF HandStart, Running, WordsOK, KnownOK, ClaimsItsOwn, row, agent, job, history
<1>18. CASE SessionEnds
  BY <1>18 DEF SessionEnds, Running, WordsOK, KnownOK, ClaimsItsOwn, row, agent, job, history
<1>19. CASE Forget
  BY <1>19 DEF Forget, Running, WordsOK, KnownOK, ClaimsItsOwn, row, agent, job, history
<1>20. CASE Register
  BY <1>20 DEF Register, WordsOK, KnownOK, ClaimsItsOwn, row, agent, job, history
<1>21. CASE Crash
  BY <1>21 DEF Crash, Mishap, WordsOK, KnownOK, ClaimsItsOwn, row, agent, job, history
<1> QED
  BY <1>1, <1>2, <1>3, <1>4, <1>5, <1>6, <1>7, <1>8, <1>9, <1>10, <1>11, <1>12, <1>13, <1>14,
     <1>15, <1>16, <1>17, <1>18, <1>19, <1>20, <1>21
     DEF Next, Advance, Drain

\* The locks are taken with the step that needs them; the drain cannot take the job's.
LEMMA LocksPreserved ==
  ASSUME LocksOK, Next
  PROVE  LocksOK'
<1>1. CASE Begin
  BY <1>1 DEF Begin, Accepted, Hold, Close, Leave, LocksOK, row, agent, job, history
<1>2. CASE Stop
  BY <1>2 DEF Stop, Accepted, Close, Leave, Running, Free, LocksOK, row, agent, job, history
<1>3. CASE GivesUp
  BY <1>3 DEF GivesUp, Mishap, Close, Leave, LocksOK, row, agent, job, history
<1>4. CASE Mark
  BY <1>4 DEF Mark, Leave, LocksOK, row, agent, job, history
<1>5. CASE MarkLaunching
  BY <1>5 DEF MarkLaunching, LocksOK, row, agent, job, history
<1>6. CASE Recover
  BY <1>6 DEF Recover, LocksOK, row, agent, job, history
<1>7. CASE Resolve
  BY <1>7 DEF Resolve, Accepted, Close, Leave, Free, LocksOK, row, agent, job, history
<1>8. CASE Launch
  BY <1>8 DEF Launch, Running, Unlock, Mishap, LocksOK, row, agent, job, history
<1>9. CASE Started
  BY <1>9 DEF Started, Mishap, LocksOK, row, agent, job, history
<1>10. CASE Ready
  BY <1>10 DEF Ready, Running, HandOver, Unlock, LocksOK, row, agent, job, history
<1>11. CASE ClaimRunning
  BY <1>11 DEF ClaimRunning, HandOver, Close, Leave, LocksOK, row, agent, job, history
<1>12. CASE Deliver
  BY <1>12 DEF Deliver, Accepted, Close, Leave, Unlock, Running, Paste, Mishap, Free, Received,
     LocksOK, row, agent, job, history
<1>13. CASE Record
  BY <1>13 DEF Record, Mishap, Unlock, LocksOK, row, agent, job, history
<1>14. CASE Finish
  BY <1>14 DEF Finish, Close, Leave, LocksOK, row, agent, job, history
<1>15. CASE DrainPastes
  BY <1>15 DEF DrainPastes, Running, Paste, LocksOK, row, agent, job, history
<1>16. CASE DrainRecords
  BY <1>16 DEF DrainRecords, LocksOK, row, agent, job, history
<1>17. CASE HandStart
  BY <1>17 DEF HandStart, Running, LocksOK, row, agent, job, history
<1>18. CASE SessionEnds
  BY <1>18 DEF SessionEnds, Running, LocksOK, row, agent, job, history
<1>19. CASE Forget
  BY <1>19 DEF Forget, Running, LocksOK, row, agent, job, history
<1>20. CASE Register
  BY <1>20 DEF Register, LocksOK, row, agent, job, history
<1>21. CASE Crash
  BY <1>21 DEF Crash, Mishap, LocksOK, row, agent, job, history
<1> QED
  BY <1>1, <1>2, <1>3, <1>4, <1>5, <1>6, <1>7, <1>8, <1>9, <1>10, <1>11, <1>12, <1>13, <1>14,
     <1>15, <1>16, <1>17, <1>18, <1>19, <1>20, <1>21
     DEF Next, Advance, Drain

\* A conversation is dated, pasted to and recorded once it has begun.
LEMMA CountedPreserved ==
  ASSUME NumbersOK, CountedOK, Next
  PROVE  CountedOK'
<1>1. CASE Begin
  BY <1>1 DEF Begin, Accepted, Hold, Close, Leave, NumbersOK, CountedOK, Talks, row, agent, job,
     history
<1>2. CASE Stop
  BY <1>2 DEF Stop, Accepted, Close, Leave, Running, Free, NumbersOK, CountedOK, Talks, row,
     agent, job, history
<1>3. CASE GivesUp
  BY <1>3 DEF GivesUp, Mishap, Close, Leave, NumbersOK, CountedOK, Talks, row, agent, job,
     history
<1>4. CASE Mark
  BY <1>4 DEF Mark, Leave, NumbersOK, CountedOK, Talks, row, agent, job, history
<1>5. CASE MarkLaunching
  BY <1>5 DEF MarkLaunching, NumbersOK, CountedOK, Talks, row, agent, job, history
<1>6. CASE Recover
  BY <1>6 DEF Recover, NumbersOK, CountedOK, Talks, row, agent, job, history
<1>7. CASE Resolve
  BY <1>7 DEF Resolve, Accepted, Close, Leave, Free, NumbersOK, CountedOK, Talks, row, agent,
     job, history
<1>8. CASE Launch
  BY <1>8 DEF Launch, Running, Unlock, Mishap, NumbersOK, CountedOK, Talks, row, agent, job,
     history
<1>9. CASE Started
  BY <1>9 DEF Started, Mishap, NumbersOK, CountedOK, Talks, row, agent, job, history
<1>10. CASE Ready
  BY <1>10 DEF Ready, Running, HandOver, Unlock, NumbersOK, CountedOK, Talks, row, agent, job,
     history
<1>11. CASE ClaimRunning
  BY <1>11 DEF ClaimRunning, HandOver, Close, Leave, NumbersOK, CountedOK, Talks, row, agent,
     job, history
<1>12. CASE Deliver
  <2>1. UNCHANGED <<talk, since, own, receipts>>
    BY <1>12 DEF Deliver, agent
  <2>2. \/ pasted' = pasted
        \/ pasted' = [pasted EXCEPT ![talk] = IF @ = 2 THEN 2 ELSE @ + 1]
    BY <1>12 DEF Deliver, Paste
  <2>3. \A c \in Talks : c > talk => pasted'[c] = 0
    <3> SUFFICES ASSUME NEW c \in Talks, c > talk PROVE pasted'[c] = 0
      OBVIOUS
    <3>1. pasted[c] = 0 /\ c # talk
      BY DEF CountedOK, NumbersOK, Talks
    <3> QED
      BY <2>2, <3>1 DEF NumbersOK
  <2> QED
    BY <2>1, <2>3 DEF CountedOK
<1>13. CASE Record
  <2>1. UNCHANGED <<talk, since, own, pasted>>
    BY <1>13 DEF Record, agent
  <2>2. receipts' \subseteq receipts \cup {talk}
    BY <1>13 DEF Record
  <2> QED
    BY <2>1, <2>2 DEF NumbersOK, CountedOK, Talks
<1>14. CASE Finish
  BY <1>14 DEF Finish, Close, Leave, NumbersOK, CountedOK, Talks, row, agent, job, history
<1>15. CASE DrainPastes
  BY <1>15 DEF DrainPastes, Running, Paste, NumbersOK, CountedOK, Talks, row, agent, job,
     history
<1>16. CASE DrainRecords
  BY <1>16 DEF DrainRecords, NumbersOK, CountedOK, Talks, row, agent, job, history
<1>17. CASE HandStart
  BY <1>17 DEF HandStart, Running, NumbersOK, CountedOK, Talks, row, agent, job, history
<1>18. CASE SessionEnds
  BY <1>18 DEF SessionEnds, Running, NumbersOK, CountedOK, Talks, row, agent, job, history
<1>19. CASE Forget
  BY <1>19 DEF Forget, Running, NumbersOK, CountedOK, Talks, row, agent, job, history
<1>20. CASE Register
  BY <1>20 DEF Register, NumbersOK, CountedOK, Talks, row, agent, job, history
<1>21. CASE Crash
  BY <1>21 DEF Crash, Mishap, NumbersOK, CountedOK, Talks, row, agent, job, history
<1> QED
  BY <1>1, <1>2, <1>3, <1>4, <1>5, <1>6, <1>7, <1>8, <1>9, <1>10, <1>11, <1>12, <1>13, <1>14,
     <1>15, <1>16, <1>17, <1>18, <1>19, <1>20, <1>21
     DEF Next, Advance, Drain

\* A paste finds no receipt of the conversation, and leaves one or a mark.
LEMMA RecordedPreserved ==
  ASSUME NumbersOK, NumbersOK', LocksOK, CountedOK, RecordedOK, Next
  PROVE  RecordedOK'
<1>1. CASE Begin
  BY <1>1 DEF Begin, Accepted, Hold, Close, Leave, NumbersOK, LocksOK, CountedOK, RecordedOK,
     Talks, row, agent, job, history
<1>2. CASE Stop
  BY <1>2 DEF Stop, Accepted, Close, Leave, Running, Free, NumbersOK, LocksOK, CountedOK,
     RecordedOK, Talks, row, agent, job, history
<1>3. CASE GivesUp
  BY <1>3 DEF GivesUp, Mishap, Close, Leave, NumbersOK, LocksOK, CountedOK, RecordedOK, Talks,
     row, agent, job, history
<1>4. CASE Mark
  BY <1>4 DEF Mark, Leave, NumbersOK, LocksOK, CountedOK, RecordedOK, Talks, row, agent, job,
     history
<1>5. CASE MarkLaunching
  BY <1>5 DEF MarkLaunching, NumbersOK, LocksOK, CountedOK, RecordedOK, Talks, row, agent, job,
     history
<1>6. CASE Recover
  BY <1>6 DEF Recover, NumbersOK, LocksOK, CountedOK, RecordedOK, Talks, row, agent, job,
     history
<1>7. CASE Resolve
  BY <1>7 DEF Resolve, Accepted, Close, Leave, Free, NumbersOK, LocksOK, CountedOK, RecordedOK,
     Talks, row, agent, job, history
<1>8. CASE Launch
  <2>1. CASE talk' = talk + 1
    <3>1. UNCHANGED <<pasted, receipts, queue>> /\ (marks \subseteq marks')
      BY <1>8 DEF Launch
    <3>2. pasted[talk'] = 0
      BY <2>1 DEF NumbersOK, CountedOK, Talks
    <3> QED
      BY <3>1, <3>2 DEF RecordedOK
  <2>2. CASE talk' # talk + 1
    <3>1. UNCHANGED <<talk, pasted, receipts, queue, marks>> /\ life # "drain" /\ pc # "record"
      BY <1>8, <2>2 DEF Launch, LocksOK
    <3> QED
      BY <3>1 DEF RecordedOK
  <2> QED
    BY <2>1, <2>2
<1>9. CASE Started
  BY <1>9 DEF Started, Mishap, NumbersOK, LocksOK, CountedOK, RecordedOK, Talks, row, agent,
     job, history
<1>10. CASE Ready
  BY <1>10 DEF Ready, Running, HandOver, Unlock, NumbersOK, LocksOK, CountedOK, RecordedOK,
     Talks, row, agent, job, history
<1>11. CASE ClaimRunning
  BY <1>11 DEF ClaimRunning, HandOver, Close, Leave, NumbersOK, LocksOK, CountedOK, RecordedOK,
     Talks, row, agent, job, history
<1>12. CASE Deliver
  <2>1. UNCHANGED <<talk, since, receipts>> /\ (marks \subseteq marks') /\ life # "drain"
        /\ pc = "deliver"
    BY <1>12 DEF Deliver, agent, Free
  <2>2. CASE UNCHANGED pasted /\ queue' = queue
    BY <2>1, <2>2 DEF RecordedOK
  <2>3. CASE UNCHANGED pasted /\ ~Received
    BY <2>1, <2>3 DEF RecordedOK, Received, CountedOK, NumbersOK, Talks
  <2>4. CASE /\ pasted' = [pasted EXCEPT ![talk] = IF @ = 2 THEN 2 ELSE @ + 1]
             /\ ~Received /\ pc' = "record" /\ queue' = queue
             /\ queue # "pending"
    <3>1. talk \notin receipts
      BY <2>4 DEF Received, CountedOK, NumbersOK, Talks
    <3> QED
      BY <2>1, <2>4, <3>1 DEF RecordedOK, NumbersOK, Talks
  <2> QED
    BY <1>12, <2>2, <2>3, <2>4 DEF Deliver, Paste, CopyWaits
<1>13. CASE Record
  BY <1>13 DEF Record, Mishap, Unlock, NumbersOK, LocksOK, CountedOK, RecordedOK, Talks, row,
     agent, job, history
<1>14. CASE Finish
  BY <1>14 DEF Finish, Close, Leave, NumbersOK, LocksOK, CountedOK, RecordedOK, Talks, row,
     agent, job, history
<1>15. CASE DrainPastes
  BY <1>15 DEF DrainPastes, Running, Paste, NumbersOK, LocksOK, CountedOK, RecordedOK, Talks,
     row, agent, job, history
<1>16. CASE DrainRecords
  BY <1>16 DEF DrainRecords, NumbersOK, LocksOK, CountedOK, RecordedOK, Talks, row, agent, job,
     history
<1>17. CASE HandStart
  <2>1. talk' = talk + 1 /\ UNCHANGED <<pasted, receipts, queue, marks>>
    BY <1>17 DEF HandStart, history
  <2>2. pasted[talk'] = 0
    BY <2>1 DEF NumbersOK, CountedOK, Talks
  <2> QED
    BY <2>1, <2>2 DEF RecordedOK
<1>18. CASE SessionEnds
  BY <1>18 DEF SessionEnds, Running, NumbersOK, LocksOK, CountedOK, RecordedOK, Talks, row,
     agent, job, history
<1>19. CASE Forget
  BY <1>19 DEF Forget, Running, NumbersOK, LocksOK, CountedOK, RecordedOK, Talks, row, agent,
     job, history
<1>20. CASE Register
  BY <1>20 DEF Register, NumbersOK, LocksOK, CountedOK, RecordedOK, Talks, row, agent, job,
     history
<1>21. CASE Crash
  BY <1>21 DEF Crash, Mishap, NumbersOK, LocksOK, CountedOK, RecordedOK, Talks, row, agent, job,
     history
<1> QED
  BY <1>1, <1>2, <1>3, <1>4, <1>5, <1>6, <1>7, <1>8, <1>9, <1>10, <1>11, <1>12, <1>13, <1>14,
     <1>15, <1>16, <1>17, <1>18, <1>19, <1>20, <1>21
     DEF Next, Advance, Drain

\* A launch is dated before the job goes on, or that it was not is marked.
LEMMA DatedPreserved ==
  ASSUME NumbersOK, CountedOK, LocksOK, RoomOK, DatedOK, Next
  PROVE  DatedOK'
<1>1. CASE Begin
  BY <1>1 DEF Begin, Accepted, Hold, Close, Leave, NumbersOK, CountedOK, LocksOK, RoomOK,
     DatedOK, Talks, row, agent, job, history
<1>2. CASE Stop
  BY <1>2 DEF Stop, Accepted, Close, Leave, Running, Free, NumbersOK, CountedOK, LocksOK,
     RoomOK, DatedOK, Talks, row, agent, job, history
<1>3. CASE GivesUp
  BY <1>3 DEF GivesUp, Mishap, Close, Leave, NumbersOK, CountedOK, LocksOK, RoomOK, DatedOK,
     Talks, row, agent, job, history
<1>4. CASE Mark
  BY <1>4 DEF Mark, Leave, NumbersOK, CountedOK, LocksOK, RoomOK, DatedOK, Talks, row, agent,
     job, history
<1>5. CASE MarkLaunching
  BY <1>5 DEF MarkLaunching, NumbersOK, CountedOK, LocksOK, RoomOK, DatedOK, Talks, row, agent,
     job, history
<1>6. CASE Recover
  BY <1>6 DEF Recover, NumbersOK, CountedOK, LocksOK, RoomOK, DatedOK, Talks, row, agent, job,
     history
<1>7. CASE Resolve
  BY <1>7 DEF Resolve, Accepted, Close, Leave, Free, NumbersOK, CountedOK, LocksOK, RoomOK,
     DatedOK, Talks, row, agent, job, history
<1>8. CASE Launch
  BY <1>8 DEF Launch, Running, Unlock, Mishap, NumbersOK, CountedOK, LocksOK, RoomOK, DatedOK,
     Talks, row, agent, job, history
<1>9. CASE Started
  BY <1>9 DEF Started, Mishap, NumbersOK, CountedOK, LocksOK, RoomOK, DatedOK, Talks, row,
     agent, job, history
<1>10. CASE Ready
  BY <1>10 DEF Ready, Running, HandOver, Unlock, NumbersOK, CountedOK, LocksOK, RoomOK, DatedOK,
     Talks, row, agent, job, history
<1>11. CASE ClaimRunning
  BY <1>11 DEF ClaimRunning, HandOver, Close, Leave, NumbersOK, CountedOK, LocksOK, RoomOK,
     DatedOK, Talks, row, agent, job, history
<1>12. CASE Deliver
  BY <1>12 DEF Deliver, Accepted, Close, Leave, Unlock, Running, Paste, Mishap, Free, Received,
     NumbersOK, CountedOK, LocksOK, RoomOK, DatedOK, Talks, row, agent, job, history
<1>13. CASE Record
  BY <1>13 DEF Record, Mishap, Unlock, NumbersOK, CountedOK, LocksOK, RoomOK, DatedOK, Talks,
     row, agent, job, history
<1>14. CASE Finish
  BY <1>14 DEF Finish, Close, Leave, NumbersOK, CountedOK, LocksOK, RoomOK, DatedOK, Talks, row,
     agent, job, history
<1>15. CASE DrainPastes
  BY <1>15 DEF DrainPastes, Running, Paste, NumbersOK, CountedOK, LocksOK, RoomOK, DatedOK,
     Talks, row, agent, job, history
<1>16. CASE DrainRecords
  BY <1>16 DEF DrainRecords, NumbersOK, CountedOK, LocksOK, RoomOK, DatedOK, Talks, row, agent,
     job, history
<1>17. CASE HandStart
  BY <1>17 DEF HandStart, Running, NumbersOK, CountedOK, LocksOK, RoomOK, DatedOK, Talks, row,
     agent, job, history
<1>18. CASE SessionEnds
  BY <1>18 DEF SessionEnds, Running, NumbersOK, CountedOK, LocksOK, RoomOK, DatedOK, Talks, row,
     agent, job, history
<1>19. CASE Forget
  BY <1>19 DEF Forget, Running, NumbersOK, CountedOK, LocksOK, RoomOK, DatedOK, Talks, row,
     agent, job, history
<1>20. CASE Register
  BY <1>20 DEF Register, NumbersOK, CountedOK, LocksOK, RoomOK, DatedOK, Talks, row, agent, job,
     history
<1>21. CASE Crash
  BY <1>21 DEF Crash, Mishap, NumbersOK, CountedOK, LocksOK, RoomOK, DatedOK, Talks, row, agent,
     job, history
<1> QED
  BY <1>1, <1>2, <1>3, <1>4, <1>5, <1>6, <1>7, <1>8, <1>9, <1>10, <1>11, <1>12, <1>13, <1>14,
     <1>15, <1>16, <1>17, <1>18, <1>19, <1>20, <1>21
     DEF Next, Advance, Drain

\* What was handed over stays so, up to the next launch, which starts anew.
LEMMA HandedPreserved ==
  ASSUME NumbersOK, LocksOK, CountedOK, RoomOK, DatedOK, HandedOK, Next
  PROVE  HandedOK'
<1>1. CASE Begin
  BY <1>1 DEF Begin, Accepted, Hold, Close, Leave, NumbersOK, LocksOK, CountedOK, RoomOK,
     DatedOK, HandedOK, ReachedIt, Talks, row, agent, job, history
<1>2. CASE Stop
  BY <1>2 DEF Stop, Accepted, Close, Leave, Running, Free, NumbersOK, LocksOK, CountedOK,
     RoomOK, DatedOK, HandedOK, ReachedIt, Talks, row, agent, job, history
<1>3. CASE GivesUp
  BY <1>3 DEF GivesUp, Mishap, Close, Leave, NumbersOK, LocksOK, CountedOK, RoomOK, DatedOK,
     HandedOK, ReachedIt, Talks, row, agent, job, history
<1>4. CASE Mark
  BY <1>4 DEF Mark, Leave, NumbersOK, LocksOK, CountedOK, RoomOK, DatedOK, HandedOK, ReachedIt,
     Talks, row, agent, job, history
<1>5. CASE MarkLaunching
  BY <1>5 DEF MarkLaunching, NumbersOK, LocksOK, CountedOK, RoomOK, DatedOK, HandedOK,
     ReachedIt, Talks, row, agent, job, history
<1>6. CASE Recover
  BY <1>6 DEF Recover, NumbersOK, LocksOK, CountedOK, RoomOK, DatedOK, HandedOK, ReachedIt,
     Talks, row, agent, job, history
<1>7. CASE Resolve
  BY <1>7 DEF Resolve, Accepted, Close, Leave, Free, NumbersOK, LocksOK, CountedOK, RoomOK,
     DatedOK, HandedOK, ReachedIt, Talks, row, agent, job, history
<1>8. CASE Launch
  BY <1>8 DEF Launch, Running, Unlock, Mishap, NumbersOK, LocksOK, CountedOK, RoomOK, DatedOK,
     HandedOK, ReachedIt, Talks, row, agent, job, history
<1>9. CASE Started
  BY <1>9 DEF Started, Mishap, NumbersOK, LocksOK, CountedOK, RoomOK, DatedOK, HandedOK,
     ReachedIt, Talks, row, agent, job, history
<1>10. CASE Ready
  BY <1>10 DEF Ready, Running, HandOver, Unlock, NumbersOK, LocksOK, CountedOK, RoomOK, DatedOK,
     HandedOK, ReachedIt, Talks, row, agent, job, history
<1>11. CASE ClaimRunning
  BY <1>11 DEF ClaimRunning, HandOver, Close, Leave, NumbersOK, LocksOK, CountedOK, RoomOK,
     DatedOK, HandedOK, ReachedIt, Talks, row, agent, job, history
<1>12. CASE Deliver
  <2>1. /\ UNCHANGED <<want, talk, since, own, receipts>>
        /\ pc = "deliver" /\ status = "pending" /\ status' # "completed"
        /\ marks \subseteq marks' /\ life # "drain" /\ life' # "drain"
    BY <1>12 DEF Deliver, agent, Free, RoomOK, Close, Leave, Unlock
  <2>2. CASE UNCHANGED pasted /\ pc' = "idle"
    BY <2>1, <2>2 DEF HandedOK, ReachedIt
  <2>3. CASE UNCHANGED pasted /\ pc' = "finish" /\ Received
    <3>1. ReachedIt \/ "undated" \in marks
      BY <2>1, <2>3 DEF Received, DatedOK, HandedOK, CountedOK, NumbersOK, Talks
    <3> QED
      BY <2>1, <2>3, <3>1 DEF HandedOK, ReachedIt
  <2>4. CASE UNCHANGED pasted /\ pc' = "finish" /\ queue' # "none"
    BY <2>1, <2>4 DEF HandedOK, ReachedIt
  <2>5. CASE /\ pasted' = [pasted EXCEPT ![talk] = IF @ = 2 THEN 2 ELSE @ + 1]
             /\ pc' = "record"
    <3>1. talk \in Talks /\ talk >= own /\ pasted'[talk] > 0
      BY <2>5 DEF NumbersOK, CountedOK, Talks
    <3>2. ReachedIt'
      BY <2>1, <3>1 DEF ReachedIt
    <3> QED
      BY <2>1, <2>5, <3>2 DEF HandedOK
  <2> QED
    BY <1>12, <2>2, <2>3, <2>4, <2>5 DEF Deliver, Paste, CopyWaits, Close, Leave
<1>13. CASE Record
  BY <1>13 DEF Record, Mishap, Unlock, NumbersOK, LocksOK, CountedOK, RoomOK, DatedOK, HandedOK,
     ReachedIt, Talks, row, agent, job, history
<1>14. CASE Finish
  BY <1>14 DEF Finish, Close, Leave, NumbersOK, LocksOK, CountedOK, RoomOK, DatedOK, HandedOK,
     ReachedIt, Talks, row, agent, job, history
<1>15. CASE DrainPastes
  BY <1>15 DEF DrainPastes, Running, Paste, NumbersOK, LocksOK, CountedOK, RoomOK, DatedOK,
     HandedOK, ReachedIt, Talks, row, agent, job, history
<1>16. CASE DrainRecords
  BY <1>16 DEF DrainRecords, NumbersOK, LocksOK, CountedOK, RoomOK, DatedOK, HandedOK,
     ReachedIt, Talks, row, agent, job, history
<1>17. CASE HandStart
  BY <1>17 DEF HandStart, Running, NumbersOK, LocksOK, CountedOK, RoomOK, DatedOK, HandedOK,
     ReachedIt, Talks, row, agent, job, history
<1>18. CASE SessionEnds
  BY <1>18 DEF SessionEnds, Running, NumbersOK, LocksOK, CountedOK, RoomOK, DatedOK, HandedOK,
     ReachedIt, Talks, row, agent, job, history
<1>19. CASE Forget
  BY <1>19 DEF Forget, Running, NumbersOK, LocksOK, CountedOK, RoomOK, DatedOK, HandedOK,
     ReachedIt, Talks, row, agent, job, history
<1>20. CASE Register
  BY <1>20 DEF Register, NumbersOK, LocksOK, CountedOK, RoomOK, DatedOK, HandedOK, ReachedIt,
     Talks, row, agent, job, history
<1>21. CASE Crash
  BY <1>21 DEF Crash, Mishap, NumbersOK, LocksOK, CountedOK, RoomOK, DatedOK, HandedOK,
     ReachedIt, Talks, row, agent, job, history
<1> QED
  BY <1>1, <1>2, <1>3, <1>4, <1>5, <1>6, <1>7, <1>8, <1>9, <1>10, <1>11, <1>12, <1>13, <1>14,
     <1>15, <1>16, <1>17, <1>18, <1>19, <1>20, <1>21
     DEF Next, Advance, Drain

-----------------------------------------------------------------------------
\* The inductive invariant holds throughout, for every value of the constants.
THEOREM RestartInvariant == Spec => []IInv
<1>1. IInv /\ [Next]_vars => IInv'
  <2> SUFFICES ASSUME IInv, [Next]_vars PROVE IInv'
    OBVIOUS
  <2>1. CASE Next
    <3>1. WordsOK /\ FlagsOK /\ NumbersOK /\ MarksOK
      BY TypeParts DEF IInv
    <3>2. TypeOK'
      BY <2>1, <3>1, WordsPreserved, FlagsPreserved, NumbersPreserved, MarksPreserved
         DEF IInv, TypeOK, WordsOK, FlagsOK, NumbersOK, MarksOK
    <3>3. (HolderOK /\ RoomOK /\ BoundOK /\ KnownOK)'
      BY <2>1, <3>1, HolderPreserved, RoomPreserved, BoundPreserved, KnownPreserved DEF IInv
    <3>4. NumbersOK'
      BY <2>1, <3>1, NumbersPreserved DEF IInv
    <3>5. (LocksOK /\ CountedOK /\ RecordedOK /\ DatedOK /\ HandedOK)'
      BY <2>1, <3>1, <3>4, LocksPreserved, CountedPreserved, RecordedPreserved,
         DatedPreserved, HandedPreserved DEF IInv
    <3> QED
      BY <3>2, <3>3, <3>5 DEF IInv
  <2>2. CASE UNCHANGED vars
    BY <2>2 DEF IInv, TypeOK, HolderOK, RoomOK, BoundOK, KnownOK, ClaimsItsOwn,
       LocksOK, CountedOK, RecordedOK, DatedOK, HandedOK, ReachedIt,
       vars, row, agent, job, history
  <2> QED
    BY <2>1, <2>2
<1> QED
  BY InitInvariant, <1>1, PTL DEF Spec

\* Every variable keeps its range; in particular the bound on conversations stops no launch.
THEOREM RestartTypeOK == Spec => []TypeOK
  BY RestartInvariant, PTL DEF IInv

\* A request bound to a registration never stops, launches or writes to a later holder of
\* the name, whatever people and deaths of the service come in between
\* (registration_matches, jobs/transitions.py).
THEOREM BoundToRegistration == Spec => []OnlyTheAccepted
<1>1. IInv => OnlyTheAccepted
  BY DEF IInv, BoundOK, OnlyTheAccepted
<1> QED
  BY RestartInvariant, <1>1, PTL

\* A session started by hand is not claimed and the row's own is not disowned, but for the
\* two cases the property names (_recovered_launch, _session_is_launch).
THEOREM OwnSessionClaimed == Spec => []ClaimsItsOwn
<1>1. IInv => ClaimsItsOwn
  BY DEF IInv, KnownOK
<1> QED
  BY RestartInvariant, <1>1, PTL

\* A conversation gets the continuation twice only after a paste that was cut off before its
\* record: neither a resumed hand-over nor the queue's drain repeats one that is on record, and
\* while a copy waits none is pasted beside it (once and held_receipt in safe_deliver).
THEOREM ContinuationOnce == Spec => []OncePerConversation
<1>1. IInv => OncePerConversation
  BY DEF IInv, TypeOK, RecordedOK, OncePerConversation, Twice
<1> QED
  BY RestartInvariant, <1>1, PTL

\* A restart that is recorded as completed has handed its message over, but for the case the
\* property names (_in_session, jobs/transitions.py).
THEOREM CompletedHandedOver == Spec => []ContinuationKept
<1>1. IInv => ContinuationKept
  BY DEF IInv, HandedOK, ReachedIt, ContinuationKept
<1> QED
  BY RestartInvariant, <1>1, PTL
=============================================================================

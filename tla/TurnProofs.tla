----------------------------- MODULE TurnProofs ------------------------------
(***************************************************************************)
(* Proofs about the turn (module Turn), for every value of its bounds:     *)
(* the type invariant, the four safety invariants that say that what the   *)
(* class shows is what it does, from one inductive invariant, and the one  *)
(* about the timers, which needs the order of the loop's queue besides.    *)
(***************************************************************************)
EXTENDS Turn, ClassStatesProofs, SequenceTheorems, TLAPS

-----------------------------------------------------------------------------
(***************************************************************************)
(* Queues of jobs                                                          *)
(***************************************************************************)

\* The jobs in a queue, in no order
Queued(q) == {q[i] : i \in DOMAIN q}

\* The constructors of jobs build jobs.
LEMMA JobType ==
  /\ \A do \in Jobs \ {"request"}, why \in Event \cup {""} : Call(do, why) \in Job
  /\ \A why \in Requests : Call("request", why) \in Job
  /\ \A type \in ServerEvents, k \in Nat : Message(type, k) \in ServerMessage
  /\ ServerMessage \subseteq Job
  /\ Idle \in Job
BY DEF Call, Message, Idle, Job, Jobs, ServerMessage, ServerEvents

\* The fields of a call; a callback at work is not idle.
LEMMA JobFields ==
  /\ \A do, why : Call(do, why).do = do /\ Call(do, why).why = why
  /\ Idle.do = "idle"
BY DEF Call, Idle

\* A queue of one or two jobs is a queue of jobs.
LEMMA ShortQueue ==
  ASSUME NEW S
  PROVE  /\ <<>> \in Seq(S)
         /\ \A j \in S : <<j>> \in Seq(S)
         /\ \A j, k \in S : <<j, k>> \in Seq(S)
OBVIOUS

\* What is appended joins what was queued.
LEMMA QueuedAppend ==
  ASSUME NEW S, NEW q \in Seq(S), NEW j \in S
  PROVE  /\ Append(q, j) \in Seq(S)
         /\ Queued(Append(q, j)) = Queued(q) \cup {j}
<1>1. /\ Append(q, j) \in Seq(S)
      /\ Len(Append(q, j)) = Len(q) + 1
      /\ \A i \in 1 .. Len(q) : Append(q, j)[i] = q[i]
      /\ Append(q, j)[Len(q) + 1] = j
  BY AppendProperties
<1>2. /\ Len(q) \in Nat
      /\ DOMAIN q = 1 .. Len(q)
      /\ DOMAIN Append(q, j) = 1 .. Len(q) + 1
  BY <1>1, LenProperties
<1>3. 1 .. Len(q) + 1 = (1 .. Len(q)) \cup {Len(q) + 1}
  BY <1>2
<1> QED BY <1>1, <1>2, <1>3 DEF Queued

\* So does what is concatenated.
LEMMA QueuedConcat ==
  ASSUME NEW S, NEW q \in Seq(S), NEW r \in Seq(S)
  PROVE  /\ q \o r \in Seq(S)
         /\ Queued(q \o r) = Queued(q) \cup Queued(r)
<1>1. /\ q \o r \in Seq(S)
      /\ Len(q \o r) = Len(q) + Len(r)
      /\ \A i \in 1 .. Len(q) + Len(r) :
           (q \o r)[i] = IF i <= Len(q) THEN q[i] ELSE r[i - Len(q)]
  BY ConcatProperties
<1>2. /\ Len(q) \in Nat /\ Len(r) \in Nat
      /\ DOMAIN q = 1 .. Len(q) /\ DOMAIN r = 1 .. Len(r)
      /\ DOMAIN (q \o r) = 1 .. Len(q) + Len(r)
  BY <1>1, LenProperties
<1>3. \A i \in 1 .. Len(q) : (q \o r)[i] = q[i] /\ i \in DOMAIN (q \o r)
  BY <1>1, <1>2
<1>4. \A i \in 1 .. Len(r) : (q \o r)[Len(q) + i] = r[i] /\ Len(q) + i \in DOMAIN (q \o r)
  BY <1>1, <1>2
<1>5. \A i \in DOMAIN (q \o r) : (q \o r)[i] \in Queued(q) \cup Queued(r)
  BY <1>1, <1>2 DEF Queued
<1>6. Queued(q) \subseteq Queued(q \o r) /\ Queued(r) \subseteq Queued(q \o r)
  BY <1>2, <1>3, <1>4 DEF Queued
<1> QED BY <1>1, <1>5, <1>6 DEF Queued

\* The head of a queue and its tail are all of it.
LEMMA QueuedTail ==
  ASSUME NEW S, NEW q \in Seq(S), q # <<>>
  PROVE  /\ Head(q) \in S
         /\ Tail(q) \in Seq(S)
         /\ Queued(q) = {Head(q)} \cup Queued(Tail(q))
<1>1. /\ Head(q) \in S
      /\ Tail(q) \in Seq(S)
      /\ Len(Tail(q)) = Len(q) - 1
      /\ \A i \in 1 .. Len(Tail(q)) : Tail(q)[i] = q[i + 1]
  BY HeadTailProperties
<1>2. /\ Len(q) \in Nat \ {0}
      /\ DOMAIN q = 1 .. Len(q)
      /\ DOMAIN Tail(q) = 1 .. Len(q) - 1
      /\ Head(q) = q[1]
  BY <1>1, LenProperties
<1>3. \A i \in DOMAIN q : q[i] \in {Head(q)} \cup Queued(Tail(q))
  <2> TAKE i \in DOMAIN q
  <2>1. CASE i = 1
    BY <2>1, <1>2
  <2>2. CASE i # 1
    <3>1. i - 1 \in 1 .. Len(Tail(q)) /\ (i - 1) + 1 = i
      BY <2>2, <1>1, <1>2
    <3>2. Tail(q)[i - 1] = q[i] /\ i - 1 \in DOMAIN Tail(q)
      BY <3>1, <1>1, <1>2
    <3> QED BY <3>2 DEF Queued
  <2> QED BY <2>1, <2>2
<1>4. \A i \in DOMAIN Tail(q) : Tail(q)[i] \in Queued(q)
  <2> TAKE i \in DOMAIN Tail(q)
  <2>1. Tail(q)[i] = q[i + 1] /\ i + 1 \in DOMAIN q
    BY <1>1, <1>2
  <2> QED BY <2>1 DEF Queued
<1>5. Head(q) \in Queued(q)
  BY <1>2 DEF Queued
<1> QED BY <1>1, <1>3, <1>4, <1>5 DEF Queued

\* The empty queue and the queue of one job.
LEMMA QueuedShort ==
  /\ Queued(<<>>) = {}
  /\ \A j : Queued(<<j>>) = {j}
BY DEF Queued

-----------------------------------------------------------------------------
(***************************************************************************)
(* Types                                                                   *)
(***************************************************************************)

\* The operators on the fields of the controller and on the server keep
\* their types.
LEMMA FieldTypes ==
  ASSUME NEW t \in TurnController, turns \in Nat
  PROVE  /\ Silenced(t) \in TurnController
         /\ Dropped(t) \in TurnController
         /\ Recorded(t) \in TurnController
         /\ QuestionEnded(t) \in TurnController
         /\ NewTurn(t) \in TurnController
<1>1. /\ t.current \in Nat /\ t.question \in BOOLEAN /\ t.streaming \in BOOLEAN
      /\ t.timer \in {"none", "noQuestion", "tooLong"}
      /\ t.stream \in {"none", "playing", "draining", "silent"}
      /\ t.watcher \in BOOLEAN /\ t.responseId \in Nat /\ t.cancelled \in SUBSET Nat
  BY DEF TurnController
<1>2. Silenced(t) \in TurnController
  BY <1>1 DEF TurnController, Silenced
<1>3. t.cancelled \cup ({t.responseId} \ {0}) \in SUBSET Nat
  BY <1>1
<1>4. Dropped(t) \in TurnController
  BY <1>1, <1>3 DEF TurnController, Dropped
<1>5. Recorded(t) \in TurnController
  BY <1>1 DEF TurnController, Recorded
<1>6. QuestionEnded(t) \in TurnController
  BY <1>1 DEF TurnController, QuestionEnded
<1>7. NewTurn(t) \in TurnController
  BY <1>1, turns + 1 \in Nat DEF TurnController, NewTurn
<1> QED BY <1>2, <1>4, <1>5, <1>6, <1>7

\* What the server does with a cancel, a clear and a lost connection is typed.
LEMMA ServerTypes ==
  ASSUME NEW sv \in Server, turns \in Nat
  PROVE  /\ Cancelled(sv) \in Server
         /\ Cleared(sv) \in Server
         /\ FreshServer \in Server
         /\ CancelReply(sv) \in Seq(ServerMessage)
<1>1. MaxPieces \in Nat
  BY BoundsAssumption
<1>2. /\ sv.speech \in BOOLEAN /\ sv.heard \in Nat /\ sv.answer \in Nat
      /\ sv.said \in 0 .. MaxPieces /\ sv.owed \in SUBSET Nat
  BY DEF Server
<1>3. Cancelled(sv) \in Server /\ Cleared(sv) \in Server
  <2>1. 0 \in 0 .. MaxPieces
    BY <1>1
  <2>2. Cancelled(sv) \in Server
    BY <1>2, <2>1 DEF Server, Cancelled
  <2>3. Cleared(sv) \in Server
    BY <1>2 DEF Server, Cleared
  <2> QED BY <2>2, <2>3
<1>4. FreshServer \in Server
  BY <1>1 DEF Server, FreshServer
<1>5. "failed" \in ServerEvents
  BY DEF ServerEvents
<1>6. CancelReply(sv) \in Seq(ServerMessage)
  BY <1>2, <1>5, JobType, ShortQueue DEF CancelReply
<1> QED BY <1>3, <1>4, <1>6

\* A dispatch on another thread moves the machine and owes at most a cut.
LEMMA DispatchTypes ==
  ASSUME TypeOK, NEW e \in Event, NEW by \in {"audio", "worker"}, DispatchFromThread(by, e)
  PROVE  state' \in State /\ untold' \in SUBSET [by : {"audio", "worker"}, why : Event]
<1>1. state' \in State
  BY DispatchType DEF TypeOK, DispatchFromThread
<1>2. \A c \in CutBy(e) : [by |-> by, why |-> c] \in [by : {"audio", "worker"}, why : Event]
  BY DEF CutBy
<1> QED BY <1>1, <1>2 DEF TypeOK, DispatchFromThread

\* Taking the next thing to run keeps the types.
LEMMA LoopTakesType == TypeOK /\ LoopTakes => TypeOK'
<1> SUFFICES ASSUME TypeOK, LoopTakes PROVE TypeOK'
  OBVIOUS
<1> USE DEF TypeOK
<1>1. CASE TakeCallback
  BY <1>1, QueuedTail DEF TakeCallback, Take, audio
<1>2. CASE TakeEvent
  BY <1>2, QueuedTail, JobType DEF TakeEvent, Take, audio
<1>3. CASE TakeTimer
  <2>1. Call(tc.timer, "") \in Job
    <3>1. tc.timer \in {"noQuestion", "tooLong"}
      BY <1>3 DEF TurnController, TakeTimer
    <3> QED BY <3>1, JobType DEF Jobs
  <2>2. [tc EXCEPT !.timer = "none"] \in TurnController
    BY DEF TurnController
  <2> QED BY <1>3, <2>1, <2>2 DEF TakeTimer, Take, audio
<1>4. CASE TakeWatch
  <2>1. Call("watch", "") \in Job
    BY JobType DEF Jobs
  <2> QED BY <1>4, <2>1 DEF TakeWatch, Take, audio
<1>5. CASE TakeConnectionChange
  <2>1. Call("lost", "") \in Job /\ Call("restored", "") \in Job
    BY JobType DEF Jobs
  <2> QED BY <1>5, <2>1 DEF TakeConnectionChange, Take, audio
<1> QED BY <1>1, <1>2, <1>3, <1>4, <1>5 DEF LoopTakes

\* Every callback ends idle.
LEMMA DoneType == Done => task' \in Job /\ seen' \in State
BY JobType DEF Done, State

\* Opening a turn keeps the types of what it moves.
LEMMA OpenTurnType ==
  ASSUME TypeOK, NEW s \in State, NEW t \in TurnController, NEW sv \in Server,
         OpenTurn(s, t, sv)
  PROVE  state' \in State /\ tc' \in TurnController /\ server' \in Server /\ turns' \in Nat
<1>1. turns \in Nat
  BY DEF TypeOK
<1>2. NewTurn(t) \in TurnController /\ Cleared(sv) \in Server
  BY <1>1, FieldTypes, ServerTypes
<1> QED BY <1>1, <1>2, DispatchType DEF OpenTurn

\* So does aborting one.
LEMMA AbortTurnType ==
  ASSUME TypeOK, AbortTurn
  PROVE  state' \in State /\ tc' \in TurnController /\ server' \in Server /\ inbox' \in Seq(ServerMessage)
<1>1. Dropped(tc) \in TurnController /\ Cancelled(server) \in Server
      /\ CancelReply(server) \in Seq(ServerMessage)
  BY FieldTypes, ServerTypes DEF TypeOK
<1>2. inbox \o CancelReply(server) \in Seq(ServerMessage)
  BY <1>1, QueuedConcat DEF TypeOK
<1> QED BY <1>1, <1>2, DispatchType DEF AbortTurn, TypeOK

\* Every callback of the loop keeps the types.
LEMMA LoopRunsType == TypeOK /\ LoopRuns => TypeOK'
<1> SUFFICES ASSUME TypeOK, LoopRuns PROVE TypeOK'
  OBVIOUS
<1> USE DoneType DEF TypeOK
<1>a. /\ Dropped(tc) \in TurnController /\ Recorded(tc) \in TurnController
      /\ QuestionEnded(tc) \in TurnController /\ Silenced(tc) \in TurnController
  BY FieldTypes
<1>b. /\ Cancelled(server) \in Server /\ Cleared(server) \in Server
      /\ FreshServer \in Server /\ CancelReply(server) \in Seq(ServerMessage)
  BY ServerTypes
<1>c. \A e : TryDispatch(state, e) \in State
  BY DispatchType
<1>1. CASE BeginTurn
  BY <1>1, OpenTurnType DEF BeginTurn, audio
<1>2. CASE TurnCut
  <2>1. inbox \o CancelReply(server) \in Seq(ServerMessage)
    BY <1>b, QueuedConcat
  <2>2. ASSUME NEW t \in {Dropped(tc), tc}, NEW sv \in {Cancelled(server), server},
               OpenTurn(TryDispatch(state, "WAKE_WORD_DETECTED"), t, sv)
        PROVE  state' \in State /\ tc' \in TurnController /\ server' \in Server /\ turns' \in Nat
    BY <1>a, <1>b, <1>c, <2>2, OpenTurnType
  <2>3. state' \in State /\ tc' \in TurnController /\ server' \in Server
        /\ turns' \in Nat /\ inbox' \in Seq(ServerMessage)
    BY <1>2, <2>1, <2>2, <1>a, <1>b, <1>c DEF TurnCut
  <2> QED BY <1>2, <2>3 DEF TurnCut, audio
<1>3. CASE NoQuestion
  <2>1. Recorded([tc EXCEPT !.streaming = FALSE]) \in TurnController
    <3>1. [tc EXCEPT !.streaming = FALSE] \in TurnController
      BY DEF TurnController
    <3> QED BY <3>1, FieldTypes
  <2> QED BY <1>3, <2>1, <1>b, <1>c DEF NoQuestion, audio
<1>4. CASE QuestionTooLong
  <2>1. Message("created", turns) \in ServerMessage /\ Message("error", turns) \in ServerMessage
    BY JobType DEF ServerEvents
  <2>2. /\ Append(inbox, Message("created", turns)) \in Seq(ServerMessage)
        /\ inbox \o <<Message("error", turns), Message("error", turns)>> \in Seq(ServerMessage)
    BY <2>1, ShortQueue, QueuedAppend, QueuedConcat
  <2>3. [server EXCEPT !.speech = FALSE, !.answer = turns, !.owed = @ \cup {turns}] \in Server
    BY DEF Server
  <2> QED BY <1>4, <2>2, <2>3, <1>a, <1>c DEF QuestionTooLong, audio
<1>5. CASE IgnoreEvent
  BY <1>5 DEF IgnoreEvent, Handling, audio
<1>6. CASE SpeechStarted
  <2>1. [tc EXCEPT !.timer = "tooLong"] \in TurnController
    BY DEF TurnController
  <2> QED BY <1>6, <2>1 DEF SpeechStarted, Handling, audio
<1>7. CASE SpeechStopped
  BY <1>7, <1>a, <1>c DEF SpeechStopped, Handling, audio
<1>8. CASE InputTranscript
  <2>1. \A heard \in BOOLEAN : [tc EXCEPT !.question = heard] \in TurnController
    BY DEF TurnController
  <2>2. PICK heard \in BOOLEAN : tc' = [tc EXCEPT !.question = heard]
    BY <1>8 DEF InputTranscript
  <2> QED BY <1>8, <2>1, <2>2 DEF InputTranscript, Handling, audio
<1>9. CASE ResponseStarted
  <2>1. [tc EXCEPT !.responseId = task.turn] \in TurnController
    BY DEF TurnController, Job
  <2> QED BY <1>9, <2>1 DEF ResponseStarted, Handling, audio
<1>10. CASE AudioDelta
  <2>1. [tc EXCEPT !.stream = "playing"] \in TurnController
    BY DEF TurnController
  <2>2. state' \in State /\ tc' \in TurnController /\ server' \in Server /\ inbox' \in Seq(ServerMessage)
    BY <1>10, <2>1, <1>c, AbortTurnType DEF AudioDelta
  <2> QED BY <1>10, <2>2 DEF AudioDelta, Handling, audio
<1>11. CASE ResponseDone
  <2>1. [tc EXCEPT !.watcher = TRUE, !.stream = IF @ = "playing" THEN "draining" ELSE @]
          \in TurnController
    BY DEF TurnController
  <2> QED BY <1>11, <2>1, <1>a, <1>c DEF ResponseDone, Handling, audio
<1>12. CASE ResponseFailed
  BY <1>12, AbortTurnType DEF ResponseFailed, Handling, audio
<1>13. CASE ErrorReported
  BY <1>13, AbortTurnType DEF ErrorReported, Handling, audio
<1>14. CASE ConnectionLost
  <2>1. [spent EXCEPT !.drops = @ + 1] \in [detections : Nat, requests : Nat, drops : Nat, errors : Nat]
    OBVIOUS
  <2> QED BY <1>14, <2>1, <1>a, <1>b, <1>c, ShortQueue DEF ConnectionLost, audio
<1>15. CASE ConnectionRestored
  BY <1>15 DEF ConnectionRestored, audio
<1>16. CASE AnswerPlayed
  <2>1. [tc EXCEPT !.watcher = FALSE] \in TurnController
    BY DEF TurnController
  <2>2. Recorded([tc EXCEPT !.stream = "none", !.watcher = FALSE]) \in TurnController
    <3>1. [tc EXCEPT !.stream = "none", !.watcher = FALSE] \in TurnController
      BY DEF TurnController
    <3> QED BY <3>1, FieldTypes
  <2> QED BY <1>16, <2>1, <2>2, <1>c DEF AnswerPlayed, audio
<1>17. CASE ServeRequest
  <2>1. Call("cut", "INTERRUPT") \in Job
    BY JobType DEF Jobs, Event
  <2>2. Append(callbacks, Call("cut", "INTERRUPT")) \in Seq(Job)
    BY <2>1, QueuedAppend
  <2>3. state' \in State /\ tc' \in TurnController /\ callbacks' \in Seq(Job)
    BY <1>17, <2>2, <1>a, <1>c DEF ServeRequest
  <2>4. pool' \in {"none", "pause", "closeMic", "resume", "stop", "stopping", "leave"}
    BY <1>17 DEF ServeRequest, Job, Requests
  <2> QED BY <1>17, <2>3, <2>4 DEF ServeRequest, audio
<1>18. CASE Close
  BY <1>18, <1>a, <1>b, ShortQueue DEF Close, audio, Machine
<1> QED BY <1>1, <1>2, <1>3, <1>4, <1>5, <1>6, <1>7, <1>8, <1>9, <1>10, <1>11, <1>12,
           <1>13, <1>14, <1>15, <1>16, <1>17, <1>18 DEF LoopRuns

\* So does every step of the audio thread, the worker thread and the teacher.
LEMMA ThreadsType ==
  TypeOK /\ (Hear \/ AudioThread \/ Tell \/ (\E what \in Requests : Request(what)) \/ WorkerThread)
    => TypeOK'
<1> SUFFICES ASSUME TypeOK,
                    \/ Hear \/ AudioThread \/ Tell
                    \/ (\E what \in Requests : Request(what)) \/ WorkerThread
             PROVE  TypeOK'
  OBVIOUS
<1> USE DEF TypeOK
<1>a. Silenced(tc) \in TurnController
  BY FieldTypes
<1>b. \A by \in {"audio", "worker"}, e \in Event : DispatchFromThread(by, e) =>
        state' \in State /\ untold' \in SUBSET [by : {"audio", "worker"}, why : Event]
  BY DispatchTypes
<1>1. CASE Hear
  <2>1. [spent EXCEPT !.detections = @ + 1] \in [detections : Nat, requests : Nat, drops : Nat, errors : Nat]
    OBVIOUS
  <2> QED BY <1>1, <2>1 DEF Hear, Loop, Machine
<1>2. CASE AudioThread
  <2>1. "WAKE_WORD_DETECTED" \in Event
    BY DEF Event
  <2>2. CASE SilenceAnswer
    BY <2>2, <1>a DEF SilenceAnswer, Machine
  <2>3. CASE InterruptAnswer
    BY <2>1, <2>3, <1>b DEF InterruptAnswer, Loop
  <2>4. CASE WakeUp
    BY <2>1, <2>4, <1>b DEF WakeUp, Loop
  <2>5. CASE NotifyActivation
    <3>1. Call("begin", "") \in Job
      BY JobType DEF Jobs
    <3>2. callbacks' \in Seq(Job)
      BY <2>5, <3>1, QueuedAppend DEF NotifyActivation
    <3> QED BY <2>5, <3>2 DEF NotifyActivation, Loop
  <2> QED BY <1>2, <2>2, <2>3, <2>4, <2>5 DEF AudioThread
<1>3. CASE Tell
  <2>1. PICK c \in untold : /\ callbacks' = Append(callbacks, Call("cut", c.why))
                            /\ untold' = untold \ {c}
    BY <1>3 DEF Tell
  <2>2. Call("cut", c.why) \in Job
    BY JobType DEF Jobs
  <2>3. callbacks' \in Seq(Job)
    BY <2>1, <2>2, QueuedAppend
  <2>4. untold' \in SUBSET [by : {"audio", "worker"}, why : Event]
    BY <2>1
  <2> QED BY <1>3, <2>3, <2>4 DEF Tell, Loop, audio
<1>4. CASE \E what \in Requests : Request(what)
  <2>1. PICK what \in Requests : Request(what)
    BY <1>4
  <2>2. callbacks' \in Seq(Job)
    BY <2>1, JobType, QueuedAppend DEF Request
  <2>3. [spent EXCEPT !.requests = @ + 1] \in [detections : Nat, requests : Nat, drops : Nat, errors : Nat]
    OBVIOUS
  <2> QED BY <2>1, <2>2, <2>3 DEF Request, Loop, audio
<1>5. CASE WorkerThread
  <2>1. {"PAUSE", "RESUME", "FAIL", "STOP"} \subseteq Event
    BY DEF Event
  <2>2. CASE Pause
    BY <2>1, <2>2, <1>b DEF Pause, Worker, audio
  <2>3. CASE PauseMic
    BY <2>3 DEF PauseMic, Worker, Machine
  <2>4. CASE Resume
    BY <2>1, <2>4, <1>b DEF Resume, Worker
  <2>5. CASE StopMic
    BY <2>5, <1>a DEF StopMic, Worker, Machine
  <2>6. CASE Stop
    BY <2>1, <2>6, <1>b DEF Stop, Worker, audio
  <2>7. CASE Leave
    <3>1. Call("close", "") \in Job
      BY JobType DEF Jobs
    <3>2. callbacks' \in Seq(Job)
      BY <2>7, <3>1, QueuedAppend DEF Leave
    <3> QED BY <2>7, <3>2 DEF Leave, Worker, audio
  <2> QED BY <1>5, <2>2, <2>3, <2>4, <2>5, <2>6, <2>7 DEF WorkerThread
<1> QED BY <1>1, <1>2, <1>3, <1>4, <1>5

\* So does every step of the output device and of the server.
LEMMA OutsideType == TypeOK /\ (PlaybackDrains \/ ServerActs) => TypeOK'
<1> SUFFICES ASSUME TypeOK, PlaybackDrains \/ ServerActs PROVE TypeOK'
  OBVIOUS
<1> USE DEF TypeOK
<1>a. {"speechStarted", "speechStopped", "transcript", "created", "audio", "done", "failed",
       "error"} \subseteq ServerEvents
  BY DEF ServerEvents
<1>b. \A j, k \in ServerMessage :
        Append(inbox, j) \in Seq(ServerMessage) /\ inbox \o <<j, k>> \in Seq(ServerMessage)
  BY ShortQueue, QueuedAppend, QueuedConcat
<1>c. server.answer \in Nat /\ server.owed \in SUBSET Nat /\ server.said \in 0 .. MaxPieces
  BY DEF Server
<1>1. CASE PlaybackDrains
  <2>1. [tc EXCEPT !.stream = "silent"] \in TurnController
    BY DEF TurnController
  <2> QED BY <1>1, <2>1 DEF PlaybackDrains, audio, Machine
<1>2. CASE ServerHearsSpeech
  <2>1. Message("speechStarted", turns) \in ServerMessage
    BY <1>a, JobType
  <2>2. [server EXCEPT !.speech = TRUE, !.heard = turns] \in Server
    BY DEF Server
  <2> QED BY <1>2, <1>b, <2>1, <2>2 DEF ServerHearsSpeech, Client, Machine, audio
<1>3. CASE ServerHearsSilence
  <2>1. /\ Message("speechStopped", turns) \in ServerMessage
        /\ Message("created", turns) \in ServerMessage
        /\ Message("error", turns) \in ServerMessage
    BY <1>a, JobType
  <2>2. [server EXCEPT !.speech = FALSE, !.owed = @ \cup {turns},
                       !.answer = IF @ = 0 THEN turns ELSE @] \in Server
    BY DEF Server
  <2>3. inbox' \in Seq(ServerMessage)
    BY <1>3, <1>b, <2>1 DEF ServerHearsSilence
  <2> QED BY <1>3, <2>2, <2>3 DEF ServerHearsSilence, Client, Machine, audio
<1>4. CASE ServerTranscribes
  <2>1. PICK k \in server.owed :
          /\ server' = [server EXCEPT !.owed = @ \ {k}]
          /\ inbox' = Append(inbox, Message("transcript", k))
    BY <1>4 DEF ServerTranscribes
  <2>2. Message("transcript", k) \in ServerMessage
    BY <1>a, <1>c, JobType
  <2>3. [server EXCEPT !.owed = @ \ {k}] \in Server
    BY DEF Server
  <2> QED BY <1>4, <1>b, <2>1, <2>2, <2>3 DEF ServerTranscribes, Client, Machine, audio
<1>5. CASE ServerSpeaks
  <2>1. Message("audio", server.answer) \in ServerMessage
    BY <1>a, <1>c, JobType
  <2>2. server.said + 1 \in 0 .. MaxPieces
    BY <1>5, <1>c, BoundsAssumption DEF ServerSpeaks
  <2>3. [server EXCEPT !.said = @ + 1] \in Server
    BY <2>2 DEF Server
  <2> QED BY <1>5, <1>b, <2>1, <2>3 DEF ServerSpeaks, Client, Machine, audio
<1>6. CASE ServerFinishes
  <2>1. \A outcome \in {"done", "failed"} : Message(outcome, server.answer) \in ServerMessage
    BY <1>a, <1>c, JobType
  <2>2. Cancelled(server) \in Server
    BY ServerTypes
  <2> QED BY <1>6, <1>b, <2>1, <2>2 DEF ServerFinishes, Client, Machine, audio
<1>7. CASE ServerErrs
  <2>1. Message("error", turns) \in ServerMessage
    BY <1>a, JobType
  <2>2. [spent EXCEPT !.errors = @ + 1] \in [detections : Nat, requests : Nat, drops : Nat, errors : Nat]
    OBVIOUS
  <2> QED BY <1>7, <1>b, <2>1, <2>2 DEF ServerErrs, Client, Machine, audio
<1> QED BY <1>1, <1>2, <1>3, <1>4, <1>5, <1>6, <1>7 DEF ServerActs

\* The first state has its types.
LEMMA InitType == Init => TypeOK
<1> SUFFICES ASSUME Init PROVE TypeOK
  OBVIOUS
<1>1. MaxPieces \in Nat
  BY BoundsAssumption
<1>2. 0 \in 0 .. MaxPieces
  BY <1>1
<1>3. server \in Server
  BY <1>2 DEF Init, FreshServer, Server
<1>4. tc \in TurnController
  BY DEF Init, TurnController
<1>5. state \in State /\ seen \in State
  BY DEF Init, State
<1>6. task \in Job /\ callbacks \in Seq(Job) /\ inbox \in Seq(ServerMessage)
  BY JobType, ShortQueue DEF Init
<1> QED BY <1>3, <1>4, <1>5, <1>6 DEF Init, TypeOK

\* Every step keeps them.
LEMMA NextType == TypeOK /\ [Next]_vars => TypeOK'
<1>1. TypeOK /\ UNCHANGED vars => TypeOK'
  BY DEF vars, TypeOK
<1> QED BY <1>1, LoopTakesType, LoopRunsType, ThreadsType, OutsideType DEF Next

(***************************************************************************)
(* The variables of a class keep their types, whatever the bounds.         *)
(***************************************************************************)
THEOREM TypeCorrect == Spec => []TypeOK
BY InitType, NextType, PTL DEF Spec

-----------------------------------------------------------------------------
(***************************************************************************)
(* The inductive invariant.  Everything the class shows agrees with what   *)
(* it does, or a cut is on its way that makes it agree; and what makes     *)
(* that inductive is that a callback which read a state of a turn either   *)
(* still finds it or has a cut behind it in the queue.                     *)
(***************************************************************************)

HasCut(q) == \E j \in Queued(q) : j.do = "cut"
HasClose(q) == \E j \in Queued(q) : j.do = "close"

\* The reasons of a cut that leaves INTERRUPTED
Resumes == {"WAKE_WORD_DETECTED", "INTERRUPT"}

\* A cut is on its way; one that leaves INTERRUPTED is.
Coming == untold # {} \/ HasCut(callbacks)
Attending ==
  \/ \E c \in untold : c.why = "WAKE_WORD_DETECTED"
  \/ \E j \in Queued(callbacks) : j.do = "cut" /\ j.why \in Resumes

\* The class has started, so it is running, paused, stopped or failed.
InClass == state \in MicActive \cup {"PAUSED", "STOPPED", "ERROR"}

Over == state \in {"STOPPED", "ERROR"}

\* The controller leaves the session only once the class is over, so a
\* running class has _on_transition subscribed and every cut gets queued.
ClosingMeansOver ==
  pool = "leave" \/ task.do = "close" \/ HasClose(callbacks) \/ link = "closed" => Over

\* A state of a turn that a callback read still holds while it runs, unless
\* another thread has moved the machine, which then has queued a cut.
SeenStillHolds ==
  task # Idle /\ seen \in TurnStates => state = seen \/ Coming

\* The fields agree with the state.
Consistent ==
  /\ tc.streaming => state = "CAPTURING_REQUEST"
  /\ Sounding => state = "SPEAKING"
  /\ state \in {"PASSIVE_LISTENING", "ACTIVATED", "PAUSED"} =>
       tc.current = 0 /\ tc.stream = "none"
  /\ state = "CAPTURING_REQUEST" => tc.stream = "none"

IInv ==
  /\ TypeOK
  /\ InClass
  /\ ClosingMeansOver
  /\ SeenStillHolds
  /\ Consistent \/ task.do = "cut" \/ Coming
  /\ state = "INTERRUPTED" =>
       \/ task.do = "cut" /\ task.why \in Resumes
       \/ Attending

\* The events the loop dispatches by itself neither interrupt a class nor
\* move one that is over, paused, interrupted or listening.
LoopEvents ==
  {"TURN_FAILED", "ACTIVATION_EXPIRED", "CAPTURE_STARTED", "REQUEST_CAPTURED",
   "RESPONSE_STARTED", "RESPONSE_FINISHED"}

\* Where such an event can move the class.
LEMMA LoopMoves ==
  ASSUME NEW s \in State, NEW e \in LoopEvents
  PROVE  /\ TryDispatch(s, e) \in
              {s, "PASSIVE_LISTENING", "CAPTURING_REQUEST", "THINKING", "SPEAKING"}
         /\ s \notin TurnStates => TryDispatch(s, e) = s
<1>1. CASE e \in {"TURN_FAILED", "ACTIVATION_EXPIRED"}
  BY <1>1, TurnFailed, ActivationExpired DEF TurnStates
<1>2. CASE e \in {"CAPTURE_STARTED", "REQUEST_CAPTURED"}
  BY <1>2, CaptureStarted, RequestCaptured DEF TurnStates
<1>3. CASE e \in {"RESPONSE_STARTED", "RESPONSE_FINISHED"}
  BY <1>3, ResponseStartedMove, ResponseFinishedMove DEF TurnStates
<1> QED BY <1>1, <1>2, <1>3 DEF LoopEvents

\* The end of a callback that is not a cut keeps the invariant if, with no
\* cut behind it, it keeps the fields in agreement with the state.
LEMMA LoopStep ==
  ASSUME IInv, TypeOK', Done, callbacks' = callbacks, untold' = untold, task.do # "cut",
         \E e \in LoopEvents : state' \in {state, TryDispatch(state, e)},
         link' = "closed" => link = "closed" \/ task.do = "close",
         pool' = "leave" => pool = "leave",
         Consistent /\ ~Coming => Consistent'
  PROVE  IInv'
<1>1. /\ state' \in {state, "PASSIVE_LISTENING", "CAPTURING_REQUEST", "THINKING", "SPEAKING"}
      /\ state \notin TurnStates => state' = state
  BY LoopMoves DEF IInv, TypeOK
<1>2. InClass'
  BY <1>1 DEF IInv, InClass, MicActive
<1>3. task' = Idle /\ task'.do = "idle"
  BY DEF Done, Idle, Call
<1>4. ClosingMeansOver'
  BY <1>1, <1>3 DEF IInv, ClosingMeansOver, Over, TurnStates
<1>5. SeenStillHolds'
  BY <1>3 DEF SeenStillHolds
<1>6. (Coming <=> Coming') /\ (Attending <=> Attending')
  BY DEF Coming, Attending
<1>7. Consistent' \/ Coming'
  BY <1>6 DEF IInv
<1>8. state' = "INTERRUPTED" => Attending'
  BY <1>1, <1>6 DEF IInv
<1> QED BY <1>2, <1>4, <1>5, <1>7, <1>8 DEF IInv

\* The state that a callback read, as long as no cut is behind it.
LEMMA SeenIsState ==
  ASSUME IInv, task # Idle, ~Coming, seen \in TurnStates
  PROVE  state = seen
BY DEF IInv, SeenStillHolds

\* Taking something to run keeps the invariant: a cut that leaves the queue
\* is the one that runs.
LEMMA LoopTakesInv == IInv /\ LoopTakes => IInv'
<1> SUFFICES ASSUME IInv, LoopTakes PROVE IInv'
  OBVIOUS
<1>1. TypeOK'
  BY LoopTakesType DEF IInv
<1>2. /\ state' = state /\ seen' = state /\ link' = link /\ task = Idle
      /\ untold' = untold /\ pool' = pool
      /\ tc'.streaming = tc.streaming /\ tc'.stream = tc.stream /\ tc'.current = tc.current
  <2>1. tc' = tc \/ tc' = [tc EXCEPT !.timer = "none"]
    BY DEF LoopTakes, TakeCallback, TakeEvent, TakeTimer, TakeWatch, TakeConnectionChange
  <2>2. tc'.streaming = tc.streaming /\ tc'.stream = tc.stream /\ tc'.current = tc.current
    BY <2>1 DEF IInv, TypeOK, TurnController
  <2> QED BY <2>2 DEF LoopTakes, TakeCallback, TakeEvent, TakeTimer, TakeWatch,
                      TakeConnectionChange, Take
<1>3. Consistent => Consistent'
  BY <1>2 DEF Consistent, Sounding
<1>4. task.do = "idle"
  BY <1>2 DEF Idle, Call
<1>5. CASE TakeCallback
  <2>1. Queued(callbacks) = {task'} \cup Queued(callbacks')
    BY <1>5, QueuedTail DEF TakeCallback, Take, IInv, TypeOK
  <2>2. Coming <=> task'.do = "cut" \/ Coming'
    BY <2>1, <1>2 DEF Coming, HasCut
  <2>3. HasClose(callbacks) <=> task'.do = "close" \/ HasClose(callbacks')
    BY <2>1 DEF HasClose
  <2>4. Attending <=> (task'.do = "cut" /\ task'.why \in Resumes) \/ Attending'
    BY <2>1, <1>2 DEF Attending
  <2>5. ClosingMeansOver'
    BY <1>2, <2>3 DEF IInv, ClosingMeansOver, Over
  <2> QED BY <1>1, <1>2, <1>3, <1>4, <2>2, <2>4, <2>5 DEF IInv, InClass, SeenStillHolds
<1>6. CASE ~TakeCallback
  <2>1. callbacks' = callbacks /\ task'.do # "close"
    <3>1. CASE TakeEvent
      <4>1. Head(inbox) \in ServerMessage
        BY <3>1, QueuedTail DEF TakeEvent, IInv, TypeOK
      <4> QED BY <3>1, <4>1 DEF TakeEvent, Take, ServerMessage, ServerEvents
    <3>2. CASE TakeTimer
      <4>1. tc.timer # "close"
        BY DEF IInv, TypeOK, TurnController
      <4> QED BY <3>2, <4>1 DEF TakeTimer, Take, Call
    <3>3. CASE TakeWatch
      BY <3>3, JobFields DEF TakeWatch, Take, audio
    <3>4. CASE TakeConnectionChange
      <4>1. task' \in {Call("lost", ""), Call("restored", "")} /\ callbacks' = callbacks
        BY <3>4 DEF TakeConnectionChange, Take
      <4>2. Call("lost", "").do = "lost" /\ Call("restored", "").do = "restored"
        BY DEF Call
      <4> QED BY <4>1, <4>2
    <3> QED BY <1>6, <3>1, <3>2, <3>3, <3>4 DEF LoopTakes
  <2>2. (Coming <=> Coming') /\ (Attending <=> Attending')
    BY <2>1, <1>2 DEF Coming, Attending
  <2> QED BY <1>1, <1>2, <1>3, <1>4, <2>1, <2>2
          DEF IInv, InClass, SeenStillHolds, ClosingMeansOver, Over
<1> QED BY <1>5, <1>6

\* A dispatch from another thread that leaves a turn, or any state for
\* PAUSED, STOPPED, ERROR or INTERRUPTED, owes the cut of that event.
ThreadEvents == {"WAKE_WORD_DETECTED", "PAUSE", "RESUME", "FAIL", "STOP"}

\* Where the events of the threads can move it.
LEMMA ThreadMoves ==
  ASSUME IInv, NEW e \in ThreadEvents, NEW by \in {"audio", "worker"},
         DispatchFromThread(by, e), e = "FAIL" => state = "PAUSED"
  PROVE  /\ InClass'
         /\ Over => state' = state
         /\ e = "STOP" => state' \in {"STOPPED", "ERROR"}
         /\ untold \subseteq untold'
         /\ state' # state /\ state' \in CutTargets => \E c \in untold' : c.why = e
         /\ state' # state /\ state' \notin CutTargets =>
              \/ state \in {"PASSIVE_LISTENING", "INTERRUPTED"} /\ state' = "ACTIVATED"
              \/ state = "PAUSED" /\ state' = "PASSIVE_LISTENING"
         /\ state' = "INTERRUPTED" => state = state' \/ e = "WAKE_WORD_DETECTED"
<1>1. TypeOK /\ state \in State /\ e \in Event
  BY DEF IInv, TypeOK, Event, ThreadEvents
<1>2. /\ state' = TryDispatch(state, e)
      /\ untold' = untold \cup {[by |-> by, why |-> c] : c \in CutBy(e)}
  BY DEF DispatchFromThread
<1>3. state \in MicActive \cup {"PAUSED", "STOPPED", "ERROR"}
  BY DEF IInv, InClass
<1>4. /\ state' # state => Can(state, e)
      /\ Over => state' = state
      /\ e = "STOP" => state' \in {"STOPPED", "ERROR"}
      /\ state' # state /\ state' \notin CutTargets =>
              \/ state \in {"PASSIVE_LISTENING", "INTERRUPTED"} /\ state' = "ACTIVATED"
              \/ state = "PAUSED" /\ state' = "PASSIVE_LISTENING"
      /\ state' = "INTERRUPTED" => state = state' \/ e = "WAKE_WORD_DETECTED"
      /\ state' \in MicActive \cup {"PAUSED", "STOPPED", "ERROR"}
  <2>1. CASE e = "WAKE_WORD_DETECTED"
    BY <1>1, <1>2, <1>3, <2>1, WakeMove DEF CutTargets, Over, MicActive
  <2>3. CASE e = "PAUSE"
    BY <1>1, <1>2, <1>3, <2>3, PauseMove DEF CutTargets, Over, MicActive
  <2>4. CASE e = "RESUME"
    BY <1>1, <1>2, <1>3, <2>4, ResumeMove DEF CutTargets, Over, MicActive
  <2>5. CASE e = "FAIL"
    BY <1>1, <1>2, <1>3, <2>5, FailMove DEF CutTargets, Over, MicActive
  <2>6. CASE e = "STOP"
    BY <1>1, <1>2, <1>3, <2>6, StopMove DEF CutTargets, Over, MicActive
  <2> QED BY <2>1, <2>3, <2>4, <2>5, <2>6 DEF ThreadEvents
<1>5. ASSUME state' # state, state' \in CutTargets
      PROVE  \E c \in untold' : c.why = e
  <2>1. link # "closed"
    BY <1>4, <1>5 DEF IInv, ClosingMeansOver
  <2>2. CutBy(e) = {e}
    BY <2>1, <1>2, <1>4, <1>5 DEF CutBy
  <2>3. [by |-> by, why |-> e] \in untold'
    BY <2>2, <1>2
  <2> QED BY <2>3
<1> QED BY <1>2, <1>4, <1>5 DEF InClass

\* Such a dispatch keeps the invariant, whoever makes it and whatever the
\* loop is running.
LEMMA ThreadStep ==
  ASSUME IInv, TypeOK', NEW e \in ThreadEvents, NEW by \in {"audio", "worker"},
         DispatchFromThread(by, e), e = "FAIL" => state = "PAUSED",
         task' = task, seen' = seen, tc' = tc, link' = link, callbacks' = callbacks,
         pool' = "leave" => pool = "leave" \/ e = "STOP"
  PROVE  IInv'
<1>1. /\ InClass'
      /\ Over => state' = state
      /\ e = "STOP" => state' \in {"STOPPED", "ERROR"}
      /\ untold \subseteq untold'
      /\ state' # state /\ state' \in CutTargets => \E c \in untold' : c.why = e
      /\ state' # state /\ state' \notin CutTargets =>
           \/ state \in {"PASSIVE_LISTENING", "INTERRUPTED"} /\ state' = "ACTIVATED"
           \/ state = "PAUSED" /\ state' = "PASSIVE_LISTENING"
      /\ state' = "INTERRUPTED" => state = state' \/ e = "WAKE_WORD_DETECTED"
  BY ThreadMoves
<1>2. (Coming => Coming') /\ (Attending => Attending')
  BY <1>1 DEF Coming, Attending
<1>3. state' # state /\ state' \in CutTargets => Coming'
  BY <1>1 DEF Coming
<1>4. ClosingMeansOver'
  BY <1>1 DEF IInv, ClosingMeansOver, Over
<1>5. SeenStillHolds'
  <2> SUFFICES ASSUME task' # Idle, seen' \in TurnStates, ~Coming'
               PROVE  state' = seen'
    BY DEF SeenStillHolds
  <2>1. state = seen
    BY <1>2 DEF IInv, SeenStillHolds
  <2> QED BY <2>1, <1>1, <1>3 DEF TurnStates
<1>6. Consistent' \/ task'.do = "cut" \/ Coming'
  <2> SUFFICES ASSUME ~Coming', task.do # "cut" PROVE Consistent'
    OBVIOUS
  <2>1. ~Coming /\ ~Attending
    BY <1>2 DEF Coming, Attending, HasCut
  <2>2. Consistent /\ state # "INTERRUPTED"
    BY <2>1 DEF IInv
  <2>3. \/ state' = state
        \/ state = "PASSIVE_LISTENING" /\ state' = "ACTIVATED"
        \/ state = "PAUSED" /\ state' = "PASSIVE_LISTENING"
    BY <1>1, <1>3, <2>2
  <2> QED BY <2>2, <2>3 DEF Consistent, Sounding
<1>7. state' = "INTERRUPTED" => (task'.do = "cut" /\ task'.why \in Resumes) \/ Attending'
  <2>1. CASE state = "INTERRUPTED"
    BY <2>1, <1>2 DEF IInv
  <2>2. CASE state # "INTERRUPTED"
    BY <2>2, <1>1 DEF Attending, CutTargets
  <2> QED BY <2>1, <2>2
<1> QED BY <1>1, <1>4, <1>5, <1>6, <1>7 DEF IInv

\* Letting go of a turn leaves fields that agree with any state.
LEMMA DroppedIsClean ==
  ASSUME NEW t \in TurnController
  PROVE  Dropped(t).current = 0 /\ Dropped(t).stream = "none" /\ Dropped(t).streaming = FALSE
BY DEF Dropped, TurnController

\* Every callback of the loop keeps the invariant.
LEMMA LoopRunsInv == IInv /\ LoopRuns => IInv'
<1> SUFFICES ASSUME IInv, LoopRuns PROVE IInv'
  OBVIOUS
<1>a. TypeOK /\ TypeOK'
  BY LoopRunsType DEF IInv
<1>b. tc \in TurnController /\ tc' \in TurnController /\ state \in State
  BY <1>a DEF TypeOK
<1>c. Consistent /\ ~Coming /\ task # Idle /\ seen \in TurnStates => state = seen
  BY SeenIsState
<1>d. \A type \in ServerEvents : Handling(type) =>
        /\ task.do = type /\ task.do \notin {"cut", "close", "idle"} /\ task # Idle
        /\ Done /\ UNCHANGED <<callbacks, untold, pool, link>>
  BY JobFields DEF Handling, ServerEvents, audio
<1>e. AbortTurn => Consistent'
  <2> SUFFICES ASSUME AbortTurn PROVE Consistent'
    OBVIOUS
  <2>1. tc'.current = 0 /\ tc'.stream = "none" /\ tc'.streaming = FALSE
    BY <1>b, DroppedIsClean DEF AbortTurn
  <2> QED BY <2>1 DEF Consistent, Sounding
<1>1. CASE BeginTurn
  <2>1. /\ task.do = "begin" /\ task # Idle /\ Done /\ UNCHANGED <<callbacks, untold, pool, link>>
        /\ \/ seen = "ACTIVATED" /\ OpenTurn(state, tc, server)
           \/ state' = state /\ tc' = tc
    BY <1>1, JobFields DEF BeginTurn, audio
  <2>2. \/ state' = state /\ tc' = tc
        \/ seen = "ACTIVATED" /\ state' = TryDispatch(state, "TURN_FAILED") /\ tc' = tc
        \/ seen = "ACTIVATED" /\ state' = TryDispatch(state, "CAPTURE_STARTED") /\ tc' = NewTurn(tc)
    BY <2>1 DEF OpenTurn
  <2>3. NewTurn(tc).stream = tc.stream
    BY <1>b DEF NewTurn, TurnController
  <2>4. ASSUME Consistent, ~Coming
        PROVE  Consistent'
    <3>1. seen = "ACTIVATED" => state = "ACTIVATED"
      BY <2>1, <2>4, <1>c DEF TurnStates
    <3>2. CASE state' = state /\ tc' = tc
      BY <2>4, <3>2 DEF Consistent, Sounding
    <3>3. CASE state = "ACTIVATED" /\ state' = TryDispatch(state, "TURN_FAILED") /\ tc' = tc
      <4>1. state' = "PASSIVE_LISTENING"
        BY <3>3, <1>b, TurnFailed
      <4> QED BY <2>4, <3>3, <4>1 DEF Consistent, Sounding
    <3>4. CASE state = "ACTIVATED" /\ state' = TryDispatch(state, "CAPTURE_STARTED") /\ tc' = NewTurn(tc)
      <4>1. state' = "CAPTURING_REQUEST"
        BY <3>4, <1>b, CaptureStarted
      <4> QED BY <2>3, <2>4, <3>4, <4>1 DEF Consistent, Sounding
    <3> QED BY <2>2, <3>1, <3>2, <3>3, <3>4
  <2> QED BY <2>1, <2>2, <2>4, <1>a, LoopStep DEF LoopEvents
<1>2. CASE TurnCut
  <2> DEFINE t == IF tc.current # 0 \/ tc.stream # "none" \/ tc.streaming THEN Dropped(tc) ELSE tc
             attend == state = "INTERRUPTED" /\ task.why \in Resumes
             woken == TryDispatch(state, "WAKE_WORD_DETECTED")
  <2>1. /\ task.do = "cut" /\ Done /\ UNCHANGED <<callbacks, untold, pool, link>>
        /\ \/ ~attend /\ tc' = t /\ state' = state
           \/ attend /\ tc' = t /\ state' = TryDispatch(woken, "TURN_FAILED")
           \/ attend /\ tc' = NewTurn(t) /\ state' = TryDispatch(woken, "CAPTURE_STARTED")
           \/ attend /\ tc' = t /\ state' = TryDispatch(state, "INTERRUPTION_HANDLED")
    BY <1>2 DEF TurnCut, OpenTurn, audio, Resumes
  <2>2. t \in TurnController /\ t.current = 0 /\ t.stream = "none" /\ t.streaming = FALSE
    <3>1. Dropped(tc) \in TurnController
      BY <1>a, <1>b, FieldTypes DEF TypeOK
    <3>2. /\ Dropped(tc).current = 0 /\ Dropped(tc).stream = "none"
          /\ Dropped(tc).streaming = FALSE
      BY <1>b, DroppedIsClean
    <3>3. tc.streaming \in BOOLEAN
      BY <1>b DEF TurnController
    <3> QED BY <1>b, <3>1, <3>2, <3>3
  <2>3. NewTurn(t).stream = "none"
    BY <2>2 DEF NewTurn, TurnController
  <2>4. /\ woken \in State
        /\ attend => woken = "ACTIVATED"
    BY <1>b, WakeMove, DispatchType
  <2>5. \/ ~attend /\ tc' = t /\ state' = state
        \/ attend /\ tc' = t /\ state' = "PASSIVE_LISTENING"
        \/ attend /\ tc' = NewTurn(t) /\ state' = "CAPTURING_REQUEST"
    BY <2>1, <2>4, <1>b, TurnFailed, CaptureStarted, InterruptionHandledMove
  <2>6. Consistent'
    BY <2>2, <2>3, <2>5 DEF Consistent, Sounding
  <2>7. task' = Idle /\ task'.do = "idle"
    BY <2>1 DEF Done, Idle, Call
  <2>8. InClass'
    BY <2>5 DEF IInv, InClass, MicActive
  <2>9. ClosingMeansOver'
    BY <2>1, <2>5, <2>7 DEF IInv, ClosingMeansOver, Over
  <2>10. state' = "INTERRUPTED" => Attending'
    BY <2>1, <2>5 DEF IInv, Attending
  <2> QED BY <1>a, <2>6, <2>7, <2>8, <2>9, <2>10 DEF IInv, SeenStillHolds
<1>3. CASE NoQuestion
  <2> DEFINE t == Recorded([tc EXCEPT !.streaming = FALSE])
  <2>1. /\ task.do = "noQuestion" /\ task # Idle /\ Done /\ UNCHANGED <<callbacks, untold, pool, link>>
        /\ \/ state' = state /\ tc' = tc
           \/ /\ seen = "CAPTURING_REQUEST" /\ tc' = t
              /\ state' = TryDispatch(state, "ACTIVATION_EXPIRED")
    BY <1>3, JobFields DEF NoQuestion, audio
  <2>2. t.current = 0 /\ t.streaming = FALSE /\ t.stream = tc.stream
    BY <1>b DEF Recorded, TurnController
  <2>3. ASSUME Consistent, ~Coming
        PROVE  Consistent'
    <3>1. CASE state' = state /\ tc' = tc
      BY <2>3, <3>1 DEF Consistent, Sounding
    <3>2. CASE seen = "CAPTURING_REQUEST" /\ tc' = t /\ state' = TryDispatch(state, "ACTIVATION_EXPIRED")
      <4>1. state = "CAPTURING_REQUEST"
        BY <2>1, <2>3, <3>2, <1>c DEF TurnStates
      <4>2. state' = "PASSIVE_LISTENING"
        BY <3>2, <4>1, <1>b, ActivationExpired
      <4> QED BY <2>2, <2>3, <3>2, <4>1, <4>2 DEF Consistent, Sounding
    <3> QED BY <2>1, <3>1, <3>2
  <2> QED BY <2>1, <2>3, <1>a, LoopStep DEF LoopEvents
<1>4. CASE QuestionTooLong
  <2>1. /\ task.do = "tooLong" /\ task # Idle /\ Done /\ UNCHANGED <<callbacks, untold, pool, link>>
        /\ \/ state' = state /\ tc' = tc
           \/ /\ seen = "CAPTURING_REQUEST" /\ tc' = QuestionEnded(tc)
              /\ state' = TryDispatch(state, "REQUEST_CAPTURED")
    BY <1>4, JobFields DEF QuestionTooLong, audio
  <2>2. QuestionEnded(tc).streaming = FALSE /\ QuestionEnded(tc).stream = tc.stream
    BY <1>b DEF QuestionEnded, TurnController
  <2>3. ASSUME Consistent, ~Coming
        PROVE  Consistent'
    <3>1. CASE state' = state /\ tc' = tc
      BY <2>3, <3>1 DEF Consistent, Sounding
    <3>2. CASE seen = "CAPTURING_REQUEST" /\ tc' = QuestionEnded(tc)
               /\ state' = TryDispatch(state, "REQUEST_CAPTURED")
      <4>1. state = "CAPTURING_REQUEST"
        BY <2>1, <2>3, <3>2, <1>c DEF TurnStates
      <4>2. state' = "THINKING"
        BY <3>2, <4>1, <1>b, RequestCaptured
      <4> QED BY <2>2, <2>3, <3>2, <4>1, <4>2 DEF Consistent, Sounding
    <3> QED BY <2>1, <3>1, <3>2
  <2> QED BY <2>1, <2>3, <1>a, LoopStep DEF LoopEvents
<1>5. CASE IgnoreEvent
  <2>1. PICK type \in ServerEvents : Handling(type) /\ UNCHANGED <<state, tc>>
    BY <1>5 DEF IgnoreEvent
  <2>2. Consistent => Consistent'
    BY <2>1 DEF Consistent, Sounding
  <2> QED BY <2>1, <2>2, <1>a, <1>d, LoopStep DEF LoopEvents
<1>6. CASE SpeechStarted
  <2>1. Handling("speechStarted") /\ state' = state
    BY <1>6 DEF SpeechStarted
  <2>2. tc'.streaming = tc.streaming /\ tc'.stream = tc.stream /\ tc'.current = tc.current
    BY <1>6, <1>b DEF SpeechStarted, TurnController
  <2>3. Consistent => Consistent'
    BY <2>1, <2>2 DEF Consistent, Sounding
  <2> QED BY <2>1, <2>3, <1>a, <1>d, LoopStep DEF LoopEvents, ServerEvents
<1>7. CASE SpeechStopped
  <2>1. /\ Handling("speechStopped") /\ state' = TryDispatch(state, "REQUEST_CAPTURED")
        /\ tc' = QuestionEnded(tc)
    BY <1>7 DEF SpeechStopped
  <2>2. tc'.streaming = FALSE /\ tc'.stream = tc.stream /\ tc'.current = tc.current
    BY <2>1, <1>b DEF QuestionEnded, TurnController
  <2>3. Consistent => Consistent'
    BY <2>1, <2>2, <1>b, RequestCaptured DEF Consistent, Sounding
  <2> QED BY <2>1, <2>3, <1>a, <1>d, LoopStep DEF LoopEvents, ServerEvents
<1>8. CASE InputTranscript
  <2>1. Handling("transcript") /\ state' = state
    BY <1>8 DEF InputTranscript
  <2>2. tc'.streaming = tc.streaming /\ tc'.stream = tc.stream /\ tc'.current = tc.current
    BY <1>8, <1>b DEF InputTranscript, TurnController
  <2>3. Consistent => Consistent'
    BY <2>1, <2>2 DEF Consistent, Sounding
  <2> QED BY <2>1, <2>3, <1>a, <1>d, LoopStep DEF LoopEvents, ServerEvents
<1>9. CASE ResponseStarted
  <2>1. Handling("created") /\ state' = state
    BY <1>9 DEF ResponseStarted
  <2>2. tc'.streaming = tc.streaming /\ tc'.stream = tc.stream /\ tc'.current = tc.current
    BY <1>9, <1>b DEF ResponseStarted, TurnController
  <2>3. Consistent => Consistent'
    BY <2>1, <2>2 DEF Consistent, Sounding
  <2> QED BY <2>1, <2>3, <1>a, <1>d, LoopStep DEF LoopEvents, ServerEvents
<1>10. CASE AudioDelta
  <2> DEFINE t == [tc EXCEPT !.stream = "playing"]
  <2>1. /\ Handling("audio") /\ seen \in Answering
        /\ \/ state' = state /\ tc' = tc
           \/ AbortTurn
           \/ state' = TryDispatch(state, "RESPONSE_STARTED") /\ tc' = t
    BY <1>10 DEF AudioDelta, Ignored
  <2>2. t.stream = "playing" /\ t.streaming = tc.streaming /\ t.current = tc.current
    BY <1>b DEF TurnController
  <2>3. /\ task # Idle
        /\ Done /\ UNCHANGED <<callbacks, untold, pool, link>> /\ task.do \notin {"cut", "close"}
    BY <2>1, <1>d DEF ServerEvents
  <2>4. ASSUME Consistent, ~Coming
        PROVE  Consistent'
    <3>1. state = seen /\ state \in Answering
      BY <2>1, <2>3, <2>4, <1>c DEF TurnStates, Answering
    <3>2. CASE state' = state /\ tc' = tc
      BY <2>4, <3>2 DEF Consistent, Sounding
    <3>3. CASE state' = TryDispatch(state, "RESPONSE_STARTED") /\ tc' = t
      <4>1. state' = "SPEAKING"
        BY <3>1, <3>3, <1>b, ResponseStartedMove DEF Answering
      <4> QED BY <2>2, <2>4, <3>1, <3>3, <4>1 DEF Consistent, Sounding, Answering
    <3> QED BY <2>1, <3>2, <3>3, <1>e
  <2>5. \E e \in LoopEvents : state' \in {state, TryDispatch(state, e)}
    BY <2>1 DEF AbortTurn, LoopEvents
  <2> QED BY <2>3, <2>4, <2>5, <1>a, LoopStep
<1>11. CASE ResponseDone
  <2> DEFINE t == [tc EXCEPT !.watcher = TRUE,
                             !.stream = IF @ = "playing" THEN "draining" ELSE @]
  <2>1. /\ Handling("done")
        /\ \/ /\ tc.stream = "none" /\ tc' = Recorded(tc)
              /\ state' = TryDispatch(state, "RESPONSE_FINISHED")
           \/ tc.stream # "none" /\ tc' = t /\ state' = state
    BY <1>11 DEF ResponseDone
  <2>2. /\ Recorded(tc).current = 0 /\ Recorded(tc).stream = tc.stream
        /\ Recorded(tc).streaming = tc.streaming
    BY <1>b DEF Recorded, TurnController
  <2>3. /\ t.current = tc.current /\ t.streaming = tc.streaming
        /\ t.stream = IF tc.stream = "playing" THEN "draining" ELSE tc.stream
    BY <1>b DEF TurnController
  <2>4. ASSUME Consistent
        PROVE  Consistent'
    <3>1. CASE tc.stream = "none" /\ tc' = Recorded(tc) /\ state' = TryDispatch(state, "RESPONSE_FINISHED")
      BY <2>2, <2>4, <3>1, <1>b, ResponseFinishedMove DEF Consistent, Sounding
    <3>2. CASE tc.stream # "none" /\ tc' = t /\ state' = state
      BY <2>3, <2>4, <3>2 DEF Consistent, Sounding
    <3> QED BY <2>1, <3>1, <3>2
  <2> QED BY <2>1, <2>4, <1>a, <1>d, LoopStep DEF LoopEvents, ServerEvents
<1>12. CASE ResponseFailed
  <2>1. Handling("failed") /\ AbortTurn /\ state' = TryDispatch(state, "TURN_FAILED")
    BY <1>12 DEF ResponseFailed, AbortTurn
  <2> QED BY <2>1, <1>a, <1>d, <1>e, LoopStep DEF LoopEvents, ServerEvents
<1>13. CASE ErrorReported
  <2>1. Handling("error") /\ AbortTurn /\ state' = TryDispatch(state, "TURN_FAILED")
    BY <1>13 DEF ErrorReported, AbortTurn
  <2> QED BY <2>1, <1>a, <1>d, <1>e, LoopStep DEF LoopEvents, ServerEvents
<1>14. CASE ConnectionLost
  <2>1. /\ task.do = "lost" /\ Done /\ UNCHANGED <<callbacks, untold, pool>> /\ link' = "lost"
        /\ \/ state' = state /\ tc' = tc
           \/ tc' = Dropped(tc) /\ state' = TryDispatch(state, "TURN_FAILED")
    BY <1>14 DEF ConnectionLost, audio
  <2>2. Consistent => Consistent'
    BY <2>1, <1>b, DroppedIsClean DEF Consistent, Sounding
  <2> QED BY <2>1, <2>2, <1>a, LoopStep DEF LoopEvents
<1>15. CASE ConnectionRestored
  <2>1. /\ task.do = "restored" /\ Done /\ UNCHANGED <<callbacks, untold, pool>> /\ link' = "ready"
        /\ state' = state /\ tc' = tc
    BY <1>15 DEF ConnectionRestored, audio
  <2>2. Consistent => Consistent'
    BY <2>1 DEF Consistent, Sounding
  <2> QED BY <2>1, <2>2, <1>a, LoopStep DEF LoopEvents
<1>16. CASE AnswerPlayed
  <2> DEFINE unwatched == [tc EXCEPT !.watcher = FALSE]
             t == Recorded([tc EXCEPT !.stream = "none", !.watcher = FALSE])
  <2>1. /\ task.do = "watch" /\ task # Idle /\ Done /\ UNCHANGED <<callbacks, untold, pool, link>>
        /\ \/ state' = state /\ tc' = unwatched
           \/ /\ seen = "SPEAKING" /\ tc' = t
              /\ state' = TryDispatch(state, "RESPONSE_FINISHED")
    BY <1>16, JobFields DEF AnswerPlayed, audio
  <2>2. /\ t.current = 0 /\ t.stream = "none" /\ t.streaming = tc.streaming
        /\ unwatched.stream = tc.stream /\ unwatched.streaming = tc.streaming
        /\ unwatched.current = tc.current
    BY <1>b DEF Recorded, TurnController
  <2>3. ASSUME Consistent, ~Coming
        PROVE  Consistent'
    <3>1. CASE state' = state /\ tc' = unwatched
      BY <2>2, <2>3, <3>1 DEF Consistent, Sounding
    <3>2. CASE seen = "SPEAKING" /\ tc' = t /\ state' = TryDispatch(state, "RESPONSE_FINISHED")
      <4>1. state = "SPEAKING"
        BY <2>1, <2>3, <3>2, <1>c DEF TurnStates
      <4>2. state' = "PASSIVE_LISTENING"
        BY <3>2, <4>1, <1>b, ResponseFinishedMove
      <4> QED BY <2>2, <2>3, <3>2, <4>1, <4>2 DEF Consistent, Sounding
    <3> QED BY <2>1, <3>1, <3>2
  <2> QED BY <2>1, <2>3, <1>a, LoopStep DEF LoopEvents
<1>17. CASE ServeRequest
  <2>1. /\ task.do = "request" /\ Done /\ link' = link /\ untold' = untold
        /\ pool' = "leave" => pool = "leave"
    BY <1>17, <1>a DEF ServeRequest, TypeOK, Job, Requests, audio
  <2>2. \/ tc' = tc /\ state' = state /\ callbacks' = callbacks
        \/ /\ tc' = Silenced(tc) /\ state' = TryDispatch(state, "INTERRUPT")
           /\ callbacks' = IF CutBy("INTERRUPT") = {} THEN callbacks
                           ELSE Append(callbacks, Call("cut", "INTERRUPT"))
    BY <1>17 DEF ServeRequest
  <2>3. CASE tc' = tc /\ state' = state /\ callbacks' = callbacks
    <3>1. Consistent => Consistent'
      BY <2>3 DEF Consistent, Sounding
    <3> QED BY <2>1, <2>3, <3>1, <1>a, LoopStep DEF LoopEvents
  <2>4. CASE /\ tc' = Silenced(tc) /\ state' = state /\ callbacks' = callbacks
    <3>1. /\ tc'.streaming = tc.streaming /\ tc'.current = tc.current
          /\ \/ tc'.stream = tc.stream
             \/ tc'.stream = "silent" /\ tc.stream \in {"playing", "draining"}
      BY <2>4, <1>b DEF TurnController, Silenced
    <3>2. Consistent => Consistent'
      BY <2>4, <3>1 DEF Consistent, Sounding
    <3> QED BY <2>1, <2>4, <3>2, <1>a, LoopStep DEF LoopEvents
  <2>5. CASE /\ tc' = Silenced(tc) /\ state \in {"THINKING", "SPEAKING"} /\ state' = "INTERRUPTED"
             /\ callbacks' = Append(callbacks, Call("cut", "INTERRUPT"))
    <3>1. Call("cut", "INTERRUPT") \in Job
      BY JobType DEF Jobs, Event
    <3>2. callbacks \in Seq(Job)
      BY <1>a DEF TypeOK
    <3>3. Queued(callbacks') = Queued(callbacks) \cup {Call("cut", "INTERRUPT")}
      BY <2>5, <3>1, <3>2, QueuedAppend
    <3>4. Call("cut", "INTERRUPT").do = "cut" /\ Call("cut", "INTERRUPT").why = "INTERRUPT"
      BY DEF Call
    <3>5. Coming' /\ Attending'
      BY <3>3, <3>4 DEF Coming, Attending, HasCut, Resumes
    <3>6. HasClose(callbacks') => HasClose(callbacks)
      BY <3>3, <3>4 DEF HasClose
    <3>7. task' = Idle /\ task'.do = "idle"
      BY <2>1 DEF Done, Idle, Call
    <3>8. ClosingMeansOver' /\ InClass'
      BY <2>1, <2>5, <3>6, <3>7 DEF IInv, ClosingMeansOver, Over, InClass, MicActive
    <3> QED BY <1>a, <3>5, <3>7, <3>8 DEF IInv, SeenStillHolds
  <2>6. \/ tc' = Silenced(tc) /\ state' = state /\ callbacks' = callbacks
        \/ /\ tc' = Silenced(tc) /\ state \in {"THINKING", "SPEAKING"} /\ state' = "INTERRUPTED"
           /\ callbacks' = Append(callbacks, Call("cut", "INTERRUPT"))
        \/ tc' = tc /\ state' = state /\ callbacks' = callbacks
    <3>1. /\ Can(state, "INTERRUPT") <=> state \in {"THINKING", "SPEAKING"}
          /\ TryDispatch(state, "INTERRUPT") =
               IF state \in {"THINKING", "SPEAKING"} THEN "INTERRUPTED" ELSE state
      BY <1>b, InterruptMove
    <3>2. state \in {"THINKING", "SPEAKING"} => link # "closed"
      BY DEF IInv, ClosingMeansOver, Over
    <3>3. CutBy("INTERRUPT") = {} <=> state \notin {"THINKING", "SPEAKING"}
      BY <3>1, <3>2 DEF CutBy, CutTargets
    <3> QED BY <2>2, <3>1, <3>3
  <2> QED BY <2>3, <2>4, <2>5, <2>6
<1>18. CASE Close
  <2>1. /\ task.do = "close" /\ Done /\ UNCHANGED <<callbacks, untold, pool, state>>
        /\ tc' = Dropped(tc)
    BY <1>18 DEF Close, audio, Machine
  <2>2. Consistent'
    BY <2>1, <1>b, DroppedIsClean DEF Consistent, Sounding
  <2> QED BY <2>1, <2>2, <1>a, LoopStep DEF LoopEvents
<1> QED BY <1>1, <1>2, <1>3, <1>4, <1>5, <1>6, <1>7, <1>8, <1>9, <1>10, <1>11, <1>12,
           <1>13, <1>14, <1>15, <1>16, <1>17, <1>18 DEF LoopRuns

\* A step outside the loop that moves neither the machine nor the session,
\* loses no cut and asks for no close.
LEMMA QuietStep ==
  ASSUME IInv, TypeOK', state' = state, task' = task, seen' = seen, link' = link,
         Coming => Coming', Attending => Attending',
         HasClose(callbacks') => HasClose(callbacks) \/ Over,
         pool' = "leave" => pool = "leave",
         \/ tc' = tc
         \/ tc' = Silenced(tc)
         \/ /\ tc'.stream \notin {"playing", "draining"}
            /\ tc'.streaming = tc.streaming /\ tc'.current = tc.current
            /\ tc.stream = "none" => tc'.stream = "none"
  PROVE  IInv'
<1>1. \/ tc' = tc
      \/ /\ tc'.stream \notin {"playing", "draining"}
         /\ tc'.streaming = tc.streaming /\ tc'.current = tc.current
         /\ tc.stream = "none" => tc'.stream = "none"
  BY DEF IInv, TypeOK, TurnController, Silenced
<1>2. Consistent => Consistent'
  BY <1>1 DEF Consistent, Sounding
<1>3. ClosingMeansOver'
  BY DEF IInv, ClosingMeansOver, Over
<1> QED BY <1>2, <1>3 DEF IInv, InClass, SeenStillHolds

\* With the queue and what is owed untouched, no cut is lost.
LEMMA QueueUntouched ==
  ASSUME callbacks' = callbacks, untold' = untold
  PROVE  /\ Coming => Coming'
         /\ Attending => Attending'
         /\ HasClose(callbacks') => HasClose(callbacks)
BY DEF Coming, Attending

\* Nor is one lost when something is appended to the queue.
LEMMA QueueAppended ==
  ASSUME TypeOK, NEW j \in Job, callbacks' = Append(callbacks, j), untold' = untold
  PROVE  /\ Coming => Coming'
         /\ Attending => Attending'
         /\ HasClose(callbacks') => HasClose(callbacks) \/ j.do = "close"
<1>1. Queued(callbacks') = Queued(callbacks) \cup {j}
  BY QueuedAppend DEF TypeOK
<1> QED BY <1>1 DEF Coming, Attending, HasCut, HasClose

\* So does every step of the two threads and of the teacher.
LEMMA ThreadsInv ==
  IInv /\ (Hear \/ AudioThread \/ Tell \/ (\E what \in Requests : Request(what)) \/ WorkerThread)
    => IInv'
<1> SUFFICES ASSUME IInv,
                    \/ Hear \/ AudioThread \/ Tell
                    \/ (\E what \in Requests : Request(what)) \/ WorkerThread
             PROVE  IInv'
  OBVIOUS
<1>a. TypeOK /\ TypeOK'
  BY ThreadsType DEF IInv
<1>b. {"WAKE_WORD_DETECTED", "PAUSE", "RESUME", "FAIL", "STOP"} \subseteq ThreadEvents
  BY DEF ThreadEvents
<1>c. ASSUME state' = state, task' = task, seen' = seen, link' = link,
             callbacks' = callbacks, untold' = untold, tc' \in {tc, Silenced(tc)},
             pool' = "leave" => pool = "leave"
      PROVE  IInv'
  BY <1>a, <1>c, QueueUntouched, QuietStep
<1>1. CASE Hear
  BY <1>1, <1>c DEF Hear, Loop, Machine
<1>2. CASE AudioThread
  <2>1. CASE SilenceAnswer
    BY <2>1, <1>c DEF SilenceAnswer, Machine
  <2>2. CASE InterruptAnswer
    BY <2>2, <1>a, <1>b, ThreadStep DEF InterruptAnswer, Loop
  <2>3. CASE WakeUp
    BY <2>3, <1>a, <1>b, ThreadStep DEF WakeUp, Loop
  <2>4. CASE NotifyActivation
    <3>1. Call("begin", "") \in Job /\ Call("begin", "").do # "close"
      BY JobType DEF Jobs, Call
    <3>2. callbacks' = Append(callbacks, Call("begin", "")) /\ untold' = untold
      BY <2>4 DEF NotifyActivation
    <3>3. /\ Coming => Coming'
          /\ Attending => Attending'
          /\ HasClose(callbacks') => HasClose(callbacks)
      BY <1>a, <3>1, <3>2, QueueAppended
    <3> QED BY <2>4, <3>3, <1>a, QuietStep DEF NotifyActivation, Loop
  <2> QED BY <1>2, <2>1, <2>2, <2>3, <2>4 DEF AudioThread
<1>3. CASE Tell
  <2>1. PICK c \in untold : /\ callbacks' = Append(callbacks, Call("cut", c.why))
                            /\ untold' = untold \ {c}
    BY <1>3 DEF Tell
  <2>2. /\ Call("cut", c.why) \in Job
        /\ Call("cut", c.why).do = "cut" /\ Call("cut", c.why).why = c.why
    BY <1>a, JobType DEF Jobs, TypeOK, Call
  <2>3. Queued(callbacks') = Queued(callbacks) \cup {Call("cut", c.why)}
    BY <1>a, <2>1, <2>2, QueuedAppend DEF TypeOK
  <2>4. Coming'
    BY <2>2, <2>3 DEF Coming, HasCut
  <2>5. Attending => Attending'
    BY <2>1, <2>2, <2>3 DEF Attending, Resumes
  <2>6. HasClose(callbacks') => HasClose(callbacks)
    BY <2>2, <2>3 DEF HasClose
  <2> QED BY <1>3, <2>4, <2>5, <2>6, <1>a, QuietStep DEF Tell, Loop
<1>4. CASE \E what \in Requests : Request(what)
  <2>1. PICK what \in Requests : Request(what)
    BY <1>4
  <2>2. Call("request", what) \in Job /\ Call("request", what).do # "close"
    BY JobType DEF Call
  <2>3. callbacks' = Append(callbacks, Call("request", what)) /\ untold' = untold
    BY <2>1 DEF Request
  <2>4. /\ Coming => Coming'
        /\ Attending => Attending'
        /\ HasClose(callbacks') => HasClose(callbacks)
    BY <1>a, <2>2, <2>3, QueueAppended
  <2> QED BY <2>1, <2>4, <1>a, QuietStep DEF Request, Loop
<1>5. CASE WorkerThread
  <2>1. CASE Pause
    BY <2>1, <1>a, <1>b, ThreadStep DEF Pause, Worker
  <2>2. CASE PauseMic
    BY <2>2, <1>c DEF PauseMic, Worker, Machine
  <2>3. CASE Resume
    <3>1. /\ task' = task /\ seen' = seen /\ link' = link /\ tc' = tc /\ callbacks' = callbacks
          /\ pool' = "none"
          /\ \/ DispatchFromThread("worker", "RESUME")
             \/ state = "PAUSED" /\ DispatchFromThread("worker", "FAIL")
             \/ state' = state /\ untold' = untold
      BY <2>3 DEF Resume, Worker
    <3>2. CASE DispatchFromThread("worker", "RESUME")
      BY <3>1, <3>2, <1>a, <1>b, ThreadStep
    <3>3. CASE state = "PAUSED" /\ DispatchFromThread("worker", "FAIL")
      BY <3>1, <3>3, <1>a, <1>b, ThreadStep
    <3>4. CASE state' = state /\ untold' = untold
      BY <3>1, <3>4, <1>c
    <3> QED BY <3>1, <3>2, <3>3, <3>4
  <2>4. CASE StopMic
    BY <2>4, <1>c DEF StopMic, Worker, Machine
  <2>5. CASE Stop
    BY <2>5, <1>a, <1>b, ThreadStep DEF Stop, Worker
  <2>6. CASE Leave
    <3>1. Call("close", "") \in Job
      BY JobType DEF Jobs
    <3>2. callbacks' = Append(callbacks, Call("close", "")) /\ untold' = untold
      BY <2>6 DEF Leave
    <3>3. Over
      BY <2>6 DEF Leave, IInv, ClosingMeansOver
    <3>4. (Coming => Coming') /\ (Attending => Attending')
      BY <1>a, <3>1, <3>2, QueueAppended
    <3> QED BY <2>6, <3>3, <3>4, <1>a, QuietStep DEF Leave, Worker
  <2> QED BY <1>5, <2>1, <2>2, <2>3, <2>4, <2>5, <2>6 DEF WorkerThread
<1> QED BY <1>1, <1>2, <1>3, <1>4, <1>5

\* So does every step of the output device and of the server.
LEMMA OutsideInv == IInv /\ (PlaybackDrains \/ ServerActs) => IInv'
<1> SUFFICES ASSUME IInv, PlaybackDrains \/ ServerActs PROVE IInv'
  OBVIOUS
<1>a. TypeOK /\ TypeOK'
  BY OutsideType DEF IInv
<1>1. CASE PlaybackDrains
  <2>1. /\ tc'.stream \notin {"playing", "draining"}
        /\ tc'.streaming = tc.streaming /\ tc'.current = tc.current
        /\ tc.stream = "none" => tc'.stream = "none"
    BY <1>1, <1>a DEF PlaybackDrains, TypeOK, TurnController, Sounding
  <2> QED BY <1>1, <2>1, <1>a, QueueUntouched, QuietStep DEF PlaybackDrains, Machine
<1>2. CASE ServerActs
  <2>1. UNCHANGED Client
    BY <1>2 DEF ServerActs, ServerHearsSpeech, ServerHearsSilence, ServerTranscribes,
                ServerSpeaks, ServerFinishes, ServerErrs
  <2> QED BY <2>1, <1>a, QueueUntouched, QuietStep DEF Client, Machine
<1> QED BY <1>1, <1>2

\* The invariant holds at first.
LEMMA InitInv == Init => IInv
<1> SUFFICES ASSUME Init PROVE IInv
  OBVIOUS
<1>1. TypeOK
  BY InitType
<1>2. ~HasClose(callbacks) /\ task.do = "idle"
  BY QueuedShort, JobFields DEF Init, HasClose
<1>3. Consistent
  BY DEF Init, Consistent, Sounding
<1> QED BY <1>1, <1>2, <1>3 DEF Init, IInv, InClass, MicActive, ClosingMeansOver, SeenStillHolds

\* Every step keeps it.
LEMMA NextInv == IInv /\ [Next]_vars => IInv'
<1>1. IInv /\ UNCHANGED vars => IInv'
  BY DEF vars, IInv, TypeOK, InClass, ClosingMeansOver, Over, SeenStillHolds, Consistent, Sounding, Coming, Attending
<1> QED BY <1>1, LoopTakesInv, LoopRunsInv, ThreadsInv, OutsideInv DEF Next

(***************************************************************************)
(* The inductive invariant holds throughout a class.                       *)
(***************************************************************************)
THEOREM Invariant == Spec => []IInv
BY InitInv, NextInv, PTL DEF Spec

\* The cut of the properties is the cut of the invariant.
LEMMA CutIsPending == CutPending <=> task.do = "cut" \/ Coming
BY DEF CutPending, Coming, HasCut, Queued

(***************************************************************************)
(* Privacy: the microphone is streamed to the API only while the state     *)
(* says that a question is being captured, or until the cut already queued *)
(* by whoever ended the capture.  For any number of turns, detections,     *)
(* requests, drops and errors, interleaved in any way.                     *)
(***************************************************************************)
THEOREM StreamingIsCapturing == Spec => []StreamsOnlyWhileCapturing
<1>1. IInv => StreamsOnlyWhileCapturing
  BY CutIsPending DEF IInv, Consistent, StreamsOnlyWhileCapturing
<1> QED BY <1>1, Invariant, PTL

(***************************************************************************)
(* Nothing sounds behind a state that is not SPEAKING.                     *)
(***************************************************************************)
THEOREM SoundingIsSpeaking == Spec => []SoundsOnlyWhileSpeaking
<1>1. IInv => SoundsOnlyWhileSpeaking
  BY CutIsPending DEF IInv, Consistent, SoundsOnlyWhileSpeaking
<1> QED BY <1>1, Invariant, PTL

(***************************************************************************)
(* INTERRUPTED, which has no timer, always has on its way the cut that     *)
(* leaves it.                                                              *)
(***************************************************************************)
THEOREM InterruptionAttended == Spec => []InterruptionIsAttended
<1>1. IInv => InterruptionIsAttended
  BY DEF IInv, Attending, Resumes, Queued, InterruptionIsAttended
<1> QED BY <1>1, Invariant, PTL

(***************************************************************************)
(* Back to listening, the record is closed and the stream let go.          *)
(***************************************************************************)
THEOREM ListeningIsClean == Spec => []ListeningHasNoOpenTurn
<1>1. IInv => ListeningHasNoOpenTurn
  BY CutIsPending DEF IInv, Consistent, ListeningHasNoOpenTurn
<1> QED BY <1>1, Invariant, PTL

\* Running an event of an answer is one of the actions of _on_event.
LEMMA AnswerEventActions ==
  ASSUME Next, RunsAnswerEvent
  PROVE  \/ IgnoreEvent
         \/ \E type \in AnswerEvents : Handling(type) /\ ~Ignored(type)
<1>1. /\ task.do \in {"created", "audio", "done", "failed"}
      /\ task # Idle /\ task' # task
  BY JobFields DEF RunsAnswerEvent, AnswerEvents
<1>2. ~LoopTakes
  BY <1>1 DEF LoopTakes, TakeCallback, TakeEvent, TakeTimer, TakeWatch, TakeConnectionChange, Take
<1>3. ~(Hear \/ AudioThread \/ Tell \/ \E what \in Requests : Request(what))
  BY <1>1 DEF Hear, AudioThread, SilenceAnswer, InterruptAnswer, WakeUp, NotifyActivation,
              Tell,
              Request, Loop
<1>4. ~WorkerThread
  BY <1>1 DEF WorkerThread, Pause, PauseMic, Resume, StopMic, Stop, Leave, Worker
<1>5. ~(PlaybackDrains \/ ServerActs)
  BY <1>1 DEF PlaybackDrains, ServerActs, ServerHearsSpeech, ServerHearsSilence,
              ServerTranscribes, ServerSpeaks, ServerFinishes, ServerErrs, Client
<1>6. LoopRuns
  BY <1>2, <1>3, <1>4, <1>5 DEF Next
<1>7. ~(BeginTurn \/ TurnCut \/ NoQuestion \/ QuestionTooLong \/ ConnectionLost
        \/ ConnectionRestored \/ AnswerPlayed \/ ServeRequest \/ Close)
  BY <1>1 DEF BeginTurn, TurnCut, NoQuestion, QuestionTooLong, ConnectionLost,
              ConnectionRestored, AnswerPlayed, ServeRequest, Close
<1>8. ~(SpeechStarted \/ SpeechStopped \/ InputTranscript \/ ErrorReported)
  BY <1>1 DEF SpeechStarted, SpeechStopped, InputTranscript, ErrorReported, Handling
<1>9. IgnoreEvent \/ ResponseStarted \/ AudioDelta \/ ResponseDone \/ ResponseFailed
  BY <1>6, <1>7, <1>8 DEF LoopRuns
<1> QED BY <1>9 DEF ResponseStarted, AudioDelta, ResponseDone, ResponseFailed, AnswerEvents

(***************************************************************************)
(* What a cancelled answer still sends changes nothing, however late it    *)
(* arrives and whatever turn is open by then.                              *)
(***************************************************************************)
THEOREM CancelledIsIgnored == Spec => CancelledAnswerIsIgnored
<1>1. [Next]_vars =>
        [RunsAnswerEvent /\ task.turn \in tc.cancelled => UNCHANGED <<state, tc>>]_vars
  <2> SUFFICES ASSUME Next, RunsAnswerEvent, task.turn \in tc.cancelled
               PROVE  UNCHANGED <<state, tc>>
    OBVIOUS
  <2>1. \A type : Ignored(type)
    BY DEF RunsAnswerEvent, Ignored, IsStale
  <2>2. IgnoreEvent
    BY <2>1, AnswerEventActions
  <2> QED BY <2>2 DEF IgnoreEvent
<1> QED BY <1>1, PTL DEF Spec, CancelledAnswerIsIgnored

-----------------------------------------------------------------------------
(***************************************************************************)
(* The order of the loop's queue.  A timer can outlive its question only   *)
(* where a cut finds a capture that began after what it cuts, so the       *)
(* invariant says which cuts may be waiting in which state, and that no    *)
(* activation or resumption waits in front of them.                        *)
(***************************************************************************)

\* A job of these kinds is queued; one at most is; and no cut comes after a
\* job of this kind.
Has(q, D) == \E j \in Queued(q) : j.do \in D
Once(q, D) == \A i, k \in DOMAIN q : q[i].do \in D /\ q[k].do \in D => i = k
NoCutAfter(q, d) == \A i, k \in DOMAIN q : i < k /\ q[i].do = d => q[k].do # "cut"

\* What appending does to the order of a queue.
LEMMA OrderAppend ==
  ASSUME NEW S, NEW q \in Seq(S), NEW j \in S, NEW D, NEW d
  PROVE  /\ Has(Append(q, j), D) <=> Has(q, D) \/ j.do \in D
         /\ HasCut(Append(q, j)) <=> HasCut(q) \/ j.do = "cut"
         /\ Once(q, D) /\ (j.do \in D => ~Has(q, D)) => Once(Append(q, j), D)
         /\ NoCutAfter(q, d) /\ (j.do = "cut" => ~Has(q, {d})) => NoCutAfter(Append(q, j), d)
<1>1. /\ Len(Append(q, j)) = Len(q) + 1
      /\ \A i \in 1 .. Len(q) : Append(q, j)[i] = q[i]
      /\ Append(q, j)[Len(q) + 1] = j
      /\ Append(q, j) \in Seq(S)
  BY AppendProperties
<1>2. /\ Len(q) \in Nat
      /\ DOMAIN q = 1 .. Len(q)
      /\ DOMAIN Append(q, j) = 1 .. Len(q) + 1
  BY <1>1, LenProperties
<1>3. Has(Append(q, j), D) <=> Has(q, D) \/ j.do \in D
  BY QueuedAppend DEF Has
<1>4. HasCut(Append(q, j)) <=> HasCut(q) \/ j.do = "cut"
  BY QueuedAppend DEF HasCut
<1>5. \A i \in DOMAIN q : /\ q[i].do \in D => Has(q, D)
                          /\ q[i].do = d => Has(q, {d})
  BY DEF Has, Queued
<1>6. \A i \in 1 .. Len(q) + 1 : i \in 1 .. Len(q) \/ i = Len(q) + 1
  BY <1>2
<1>7. ASSUME Once(q, D), j.do \in D => ~Has(q, D)
      PROVE  Once(Append(q, j), D)
  <2> SUFFICES ASSUME NEW i \in 1 .. Len(q) + 1, NEW k \in 1 .. Len(q) + 1,
                      Append(q, j)[i].do \in D, Append(q, j)[k].do \in D
               PROVE  i = k
    BY <1>2 DEF Once
  <2> QED BY <1>1, <1>2, <1>5, <1>6, <1>7 DEF Once
<1>8. ASSUME NoCutAfter(q, d), j.do = "cut" => ~Has(q, {d})
      PROVE  NoCutAfter(Append(q, j), d)
  <2> SUFFICES ASSUME NEW i \in 1 .. Len(q) + 1, NEW k \in 1 .. Len(q) + 1, i < k,
                      Append(q, j)[i].do = d
               PROVE  Append(q, j)[k].do # "cut"
    BY <1>2 DEF NoCutAfter
  <2>1. i \in 1 .. Len(q)
    BY <1>2
  <2> QED BY <2>1, <1>1, <1>2, <1>5, <1>6, <1>8 DEF NoCutAfter
<1> QED BY <1>3, <1>4, <1>7, <1>8

\* What taking the head does to it.
LEMMA OrderTail ==
  ASSUME NEW S, NEW q \in Seq(S), q # <<>>, NEW D, NEW d
  PROVE  /\ Has(q, D) <=> Head(q).do \in D \/ Has(Tail(q), D)
         /\ HasCut(q) <=> Head(q).do = "cut" \/ HasCut(Tail(q))
         /\ Once(q, D) => Once(Tail(q), D) /\ (Head(q).do \in D => ~Has(Tail(q), D))
         /\ NoCutAfter(q, d) => NoCutAfter(Tail(q), d) /\ (Head(q).do = d => ~HasCut(Tail(q)))
<1>1. /\ Len(Tail(q)) = Len(q) - 1
      /\ \A i \in 1 .. Len(Tail(q)) : Tail(q)[i] = q[i + 1]
      /\ Tail(q) \in Seq(S)
  BY HeadTailProperties
<1>2. /\ Len(q) \in Nat \ {0}
      /\ DOMAIN q = 1 .. Len(q)
      /\ DOMAIN Tail(q) = 1 .. Len(q) - 1
      /\ Head(q) = q[1]
  BY <1>1, LenProperties
<1>3. \A i \in DOMAIN Tail(q) :
        /\ Tail(q)[i] = q[i + 1] /\ i + 1 \in DOMAIN q /\ 1 \in DOMAIN q /\ 1 < i + 1 /\ i \in Nat
  BY <1>1, <1>2
<1>4. Has(q, D) <=> Head(q).do \in D \/ Has(Tail(q), D)
  BY QueuedTail DEF Has
<1>5. HasCut(q) <=> Head(q).do = "cut" \/ HasCut(Tail(q))
  BY QueuedTail DEF HasCut
<1>6. ASSUME Once(q, D)
      PROVE  Once(Tail(q), D) /\ (Head(q).do \in D => ~Has(Tail(q), D))
  <2>1. \A i, k \in DOMAIN Tail(q) :
          Tail(q)[i].do \in D /\ Tail(q)[k].do \in D => i + 1 = k + 1
    BY <1>3, <1>6 DEF Once
  <2>2. \A i \in DOMAIN Tail(q) : Head(q).do \in D /\ Tail(q)[i].do \in D => i + 1 = 1
    BY <1>2, <1>3, <1>6 DEF Once
  <2>3. Once(Tail(q), D)
    BY <2>1, <1>3 DEF Once
  <2>4. Head(q).do \in D => ~Has(Tail(q), D)
    BY <2>2, <1>3 DEF Has, Queued
  <2> QED BY <2>3, <2>4
<1>7. ASSUME NoCutAfter(q, d)
      PROVE  NoCutAfter(Tail(q), d) /\ (Head(q).do = d => ~HasCut(Tail(q)))
  <2>1. NoCutAfter(Tail(q), d)
    <3> SUFFICES ASSUME NEW i \in DOMAIN Tail(q), NEW k \in DOMAIN Tail(q), i < k,
                        Tail(q)[i].do = d
                 PROVE  Tail(q)[k].do # "cut"
      BY DEF NoCutAfter
    <3>1. i + 1 < k + 1
      BY <1>3
    <3> QED BY <3>1, <1>3, <1>7 DEF NoCutAfter
  <2>2. Head(q).do = d => \A k \in DOMAIN Tail(q) : Tail(q)[k].do # "cut"
    BY <1>2, <1>3, <1>7 DEF NoCutAfter
  <2>3. Head(q).do = d => ~HasCut(Tail(q))
    BY <2>2 DEF HasCut, Queued
  <2> QED BY <2>1, <2>3
<1> QED BY <1>4, <1>5, <1>6, <1>7

\* A queue without jobs of a kind has them in any order.
LEMMA NoneInOrder ==
  ASSUME NEW q, NEW D, NEW d
  PROVE  /\ ~Has(q, D) => Once(q, D)
         /\ ~Has(q, {d}) => NoCutAfter(q, d)
         /\ ~HasCut(q) => Once(q, {"cut"}) /\ NoCutAfter(q, d)
         /\ Has(q, {"cut"}) <=> HasCut(q)
BY DEF Has, Once, NoCutAfter, HasCut, Queued

\* What the teacher asks of the loop, and the states of a turn at work
Asks == {"request", "close"}
Busy == {"CAPTURING_REQUEST", "THINKING", "SPEAKING"}

\* One request of the teacher at a time, wherever it has got to.
OneRequest ==
  /\ pool # "none" \/ task.do \in Asks => ~Has(callbacks, Asks)
  /\ pool # "none" => task.do \notin Asks
  /\ Once(callbacks, Asks)

\* The audio thread judges a phrase with no activation waiting, and with no
\* cut of its own still to tell.
EarAlone ==
  /\ ear # "idle" => task.do # "begin" /\ ~Has(callbacks, {"begin"})
  /\ ear \in {"silence", "interrupt", "wake"} => ~Owes("audio")

\* One cut at most is on its way: owed, queued or running.
CutAlone ==
  /\ Once(callbacks, {"cut"})
  /\ task.do = "cut" => ~Coming
  /\ HasCut(callbacks) => untold = {}
  /\ \A c, d \in untold : c = d

\* No cut is behind a turn at work, one at most behind a class that listens,
\* has been activated or interrupted, and no activation waits before it.
CutsInOrder ==
  /\ state \in Busy => task.do # "cut" /\ ~Coming
  /\ state \in {"INTERRUPTED", "ACTIVATED", "PASSIVE_LISTENING"} => CutAlone
  /\ state \in {"ACTIVATED", "PASSIVE_LISTENING"} => untold = {}
  /\ state = "INTERRUPTED" => \A c \in untold : c.by = "audio"
  /\ state = "ACTIVATED" =>
       NoCutAfter(callbacks, "begin") /\ (task.do = "begin" => ~Coming)

\* A pause has its cuts told and the microphone closed before the next
\* request, so a resumption finds none of them left.
PausedInOrder ==
  state = "PAUSED" =>
    /\ pool # "closeMic" => ~mic /\ ear = "idle" /\ untold = {}
    /\ pool = "resume" => task.do # "cut" /\ ~Coming
    /\ task.do = "request" => ~HasCut(callbacks)
    /\ NoCutAfter(callbacks, "request")

\* All of it
Order == OneRequest /\ EarAlone /\ CutsInOrder /\ PausedInOrder

\* The loop's events, the opening of a capture aside, only end a turn.
LEMMA TurnMoves ==
  ASSUME NEW s \in State, NEW e \in LoopEvents \ {"CAPTURE_STARTED"}
  PROVE  /\ TryDispatch(s, e) \in {s, "PASSIVE_LISTENING"} \cup (Busy \ {"CAPTURING_REQUEST"})
         /\ TryDispatch(s, e) \in Busy => s \in Busy
         /\ TryDispatch(s, e) # s => s \in Busy \cup {"ACTIVATED"}
<1>1. CASE e \in {"TURN_FAILED", "ACTIVATION_EXPIRED"}
  BY <1>1, TurnFailed, ActivationExpired DEF Busy
<1>2. CASE e = "REQUEST_CAPTURED"
  BY <1>2, RequestCaptured DEF Busy
<1>3. CASE e \in {"RESPONSE_STARTED", "RESPONSE_FINISHED"}
  BY <1>3, ResponseStartedMove, ResponseFinishedMove DEF Busy
<1> QED BY <1>1, <1>2, <1>3 DEF LoopEvents

\* The end of a callback that ends a turn, or opens one after its
\* activation, keeps the order.
LEMMA OrderLoopStep ==
  ASSUME TypeOK, Order, Done, UNCHANGED <<callbacks, untold, ear, mic, pool>>,
         \/ state' = state
         \/ \E e \in LoopEvents \ {"CAPTURE_STARTED"} : state' = TryDispatch(state, e)
         \/ task.do = "begin" /\ state' = TryDispatch(state, "CAPTURE_STARTED")
  PROVE  Order'
<1>1. task' = Idle /\ task'.do = "idle"
  BY DEF Done, Idle, Call
<1>2. (Coming <=> Coming') /\ (HasCut(callbacks) <=> HasCut(callbacks'))
  BY DEF Coming
<1>3. OneRequest'
  BY <1>1 DEF Order, OneRequest, Asks
<1>4. EarAlone'
  BY <1>1 DEF Order, EarAlone, Owes
<1>5. \/ state' = state
      \/ state \in Busy /\ state' \in Busy \cup {"PASSIVE_LISTENING"}
      \/ state = "ACTIVATED" /\ state' = "PASSIVE_LISTENING"
      \/ state = "ACTIVATED" /\ task.do = "begin" /\ state' = "CAPTURING_REQUEST"
  <2>1. state \in State
    BY DEF TypeOK
  <2>2. ASSUME NEW e \in LoopEvents \ {"CAPTURE_STARTED"}, state' = TryDispatch(state, e)
        PROVE  \/ state' = state
               \/ state \in Busy /\ state' \in Busy \cup {"PASSIVE_LISTENING"}
               \/ state = "ACTIVATED" /\ state' = "PASSIVE_LISTENING"
    BY <2>1, <2>2, TurnMoves DEF Busy
  <2>3. task.do = "begin" /\ state' = TryDispatch(state, "CAPTURE_STARTED") =>
          state' = state \/ (state = "ACTIVATED" /\ task.do = "begin" /\ state' = "CAPTURING_REQUEST")
    BY <2>1, CaptureStarted
  <2> QED BY <2>2, <2>3
<1>6. CutsInOrder'
  <2>1. ~Coming => CutAlone'
    BY <1>1, <1>2, NoneInOrder DEF Coming, CutAlone
  <2>2. CutAlone => CutAlone'
    BY <1>1, <1>2 DEF CutAlone
  <2>3. ~Coming => untold' = {}
    BY DEF Coming
  <2> QED BY <1>1, <1>2, <1>5, <2>1, <2>2, <2>3 DEF Order, CutsInOrder, Busy
<1>7. PausedInOrder'
  BY <1>1, <1>2, <1>5 DEF Order, PausedInOrder, Busy
<1> QED BY <1>3, <1>4, <1>6, <1>7 DEF Order

\* Taking something to run keeps it.
LEMMA OrderTakes == TypeOK /\ Order /\ LoopTakes => Order'
<1> SUFFICES ASSUME TypeOK, Order, LoopTakes PROVE Order'
  OBVIOUS
<1>1. /\ UNCHANGED <<state, untold, ear, mic, pool>> /\ task.do = "idle"
  BY JobFields DEF LoopTakes, TakeCallback, TakeEvent, TakeTimer, TakeWatch,
                   TakeConnectionChange, Take, audio
<1>2. CASE TakeCallback
  <2>1. callbacks # <<>> /\ task' = Head(callbacks) /\ callbacks' = Tail(callbacks)
        /\ callbacks \in Seq(Job)
    BY <1>2 DEF TakeCallback, Take, TypeOK
  <2>2. \A D, d :
          /\ Has(callbacks, D) <=> task'.do \in D \/ Has(callbacks', D)
          /\ HasCut(callbacks) <=> task'.do = "cut" \/ HasCut(callbacks')
          /\ Once(callbacks, D) =>
               Once(callbacks', D) /\ (task'.do \in D => ~Has(callbacks', D))
          /\ NoCutAfter(callbacks, d) =>
               NoCutAfter(callbacks', d) /\ (task'.do = d => ~HasCut(callbacks'))
    BY <2>1, OrderTail
  <2>3. Coming <=> task'.do = "cut" \/ Coming'
    BY <1>1, <2>2 DEF Coming
  <2>4. OneRequest'
    BY <1>1, <2>2 DEF Order, OneRequest, Asks
  <2>5. EarAlone'
    BY <1>1, <2>2 DEF Order, EarAlone, Owes
  <2>6. CutAlone => CutAlone'
    <3>1. CutAlone => Once(callbacks', {"cut"}) /\ (task'.do = "cut" => ~HasCut(callbacks'))
      BY <2>2, NoneInOrder DEF CutAlone
    <3> QED BY <1>1, <2>2, <3>1 DEF CutAlone, Coming
  <2>7. CutsInOrder'
    BY <1>1, <2>2, <2>3, <2>6 DEF Order, CutsInOrder, Coming
  <2>8. PausedInOrder'
    BY <1>1, <2>2, <2>3 DEF Order, PausedInOrder
  <2> QED BY <2>4, <2>5, <2>7, <2>8 DEF Order
<1>3. CASE ~TakeCallback
  <2>1. callbacks' = callbacks /\ task'.do \notin {"begin", "cut", "request", "close"}
    <3>1. CASE TakeEvent
      <4>1. Head(inbox) \in ServerMessage
        BY <3>1, QueuedTail DEF TakeEvent, TypeOK
      <4> QED BY <3>1, <4>1 DEF TakeEvent, Take, ServerMessage, ServerEvents
    <3>2. CASE TakeTimer
      <4>1. tc.timer \in {"none", "noQuestion", "tooLong"}
        BY DEF TypeOK, TurnController
      <4> QED BY <3>2, <4>1 DEF TakeTimer, Take, Call
    <3>3. CASE TakeWatch
      BY <3>3, JobFields DEF TakeWatch, Take
    <3>4. CASE TakeConnectionChange
      <4>1. task' \in {Call("lost", ""), Call("restored", "")} /\ callbacks' = callbacks
        BY <3>4 DEF TakeConnectionChange, Take
      <4>2. Call("lost", "").do = "lost" /\ Call("restored", "").do = "restored"
        BY DEF Call
      <4> QED BY <4>1, <4>2
    <3> QED BY <1>3, <3>1, <3>2, <3>3, <3>4 DEF LoopTakes
  <2>2. (Coming <=> Coming') /\ (HasCut(callbacks) <=> HasCut(callbacks'))
    BY <1>1, <2>1 DEF Coming
  <2>3. OneRequest'
    BY <1>1, <2>1 DEF Order, OneRequest, Asks
  <2>4. EarAlone'
    BY <1>1, <2>1 DEF Order, EarAlone, Owes
  <2>5. CutAlone => CutAlone'
    BY <1>1, <2>1, <2>2 DEF CutAlone
  <2>6. CutsInOrder'
    BY <1>1, <2>1, <2>2, <2>5 DEF Order, CutsInOrder
  <2>7. PausedInOrder'
    BY <1>1, <2>1, <2>2 DEF Order, PausedInOrder
  <2> QED BY <2>3, <2>4, <2>6, <2>7 DEF Order
<1> QED BY <1>2, <1>3

\* The cut of the turn leaves no other behind it, whichever way it goes.
LEMMA OrderTurnCut == TypeOK /\ Order /\ TurnCut => Order'
<1> SUFFICES ASSUME TypeOK, Order, TurnCut PROVE Order'
  OBVIOUS
<1> DEFINE woken == TryDispatch(state, "WAKE_WORD_DETECTED")
<1>a. state \in State /\ woken \in State
  BY DispatchType DEF TypeOK
<1>1. /\ task.do = "cut" /\ Done /\ UNCHANGED <<callbacks, untold, ear, mic, pool>>
      /\ \/ state' = state
         \/ /\ state = "INTERRUPTED"
            /\ \/ state' = TryDispatch(woken, "TURN_FAILED")
               \/ state' = TryDispatch(woken, "CAPTURE_STARTED")
               \/ state' = TryDispatch(state, "INTERRUPTION_HANDLED")
  BY DEF TurnCut, OpenTurn, audio
<1>2. CASE state' = state
  BY <1>1, <1>2, OrderLoopStep
<1>3. CASE state = "INTERRUPTED" /\ state' # state
  <2>1. state' \in {"PASSIVE_LISTENING", "CAPTURING_REQUEST"}
    BY <1>a, <1>1, <1>3, WakeMove, TurnFailed, CaptureStarted, InterruptionHandledMove
  <2>2. task' = Idle /\ task'.do = "idle"
    BY <1>1 DEF Done, Idle, Call
  <2>3. ~Coming
    BY <1>1, <1>3 DEF Order, CutsInOrder, CutAlone
  <2>4. ~Coming' /\ untold' = {} /\ ~HasCut(callbacks')
    BY <1>1, <2>3 DEF Coming
  <2>5. CutAlone'
    BY <2>2, <2>4, NoneInOrder DEF CutAlone
  <2>6. CutsInOrder'
    BY <2>1, <2>2, <2>4, <2>5 DEF CutsInOrder
  <2>7. OneRequest' /\ EarAlone' /\ PausedInOrder'
    BY <1>1, <2>1, <2>2 DEF Order, OneRequest, Asks, EarAlone, Owes, PausedInOrder
  <2> QED BY <2>6, <2>7 DEF Order
<1> QED BY <1>1, <1>2, <1>3

\* An endpoint of the teacher queues the cut of the answer it interrupts,
\* the only one there is.
LEMMA OrderServeRequest == TypeOK /\ Order /\ ServeRequest => Order'
<1> SUFFICES ASSUME TypeOK, Order, ServeRequest PROVE Order'
  OBVIOUS
<1>a. state \in State /\ callbacks \in Seq(Job)
  BY DEF TypeOK
<1>1. /\ task.do = "request" /\ Done /\ UNCHANGED <<untold, ear, mic>>
      /\ \/ state' = state /\ callbacks' = callbacks /\ pool' \in {pool, task.why}
         \/ /\ pool' = pool /\ state' = TryDispatch(state, "INTERRUPT")
            /\ callbacks' = IF CutBy("INTERRUPT") = {} THEN callbacks
                            ELSE Append(callbacks, Call("cut", "INTERRUPT"))
  BY DEF ServeRequest, audio
<1>2. task' = Idle /\ task'.do = "idle"
  BY <1>1 DEF Done, Idle, Call
<1>3. pool = "none" /\ ~Has(callbacks, Asks)
  BY <1>1 DEF Order, OneRequest, Asks
<1>4. /\ Can(state, "INTERRUPT") <=> state \in {"THINKING", "SPEAKING"}
      /\ TryDispatch(state, "INTERRUPT") =
           IF state \in {"THINKING", "SPEAKING"} THEN "INTERRUPTED" ELSE state
  BY <1>a, InterruptMove
<1>5. \/ state' = state /\ callbacks' = callbacks /\ pool' \in {pool, task.why}
      \/ state \in {"THINKING", "SPEAKING"} /\ state' = "INTERRUPTED" /\ pool' = pool
         /\ callbacks' \in {callbacks, Append(callbacks, Call("cut", "INTERRUPT"))}
  BY <1>1, <1>4 DEF CutBy
<1>6. CASE state' = state /\ callbacks' = callbacks /\ pool' \in {pool, task.why}
  <2>1. (Coming <=> Coming') /\ (HasCut(callbacks) <=> HasCut(callbacks'))
    BY <1>1, <1>6 DEF Coming
  <2>2. OneRequest' /\ EarAlone'
    BY <1>1, <1>2, <1>3, <1>6 DEF Order, OneRequest, Asks, EarAlone, Owes
  <2>3. CutAlone => CutAlone'
    BY <1>1, <1>2, <1>6, <2>1 DEF CutAlone
  <2>4. CutsInOrder'
    BY <1>1, <1>2, <1>6, <2>1, <2>3 DEF Order, CutsInOrder
  <2>5. state = "PAUSED" => ~mic /\ ear = "idle" /\ untold = {} /\ ~HasCut(callbacks)
    BY <1>1, <1>3 DEF Order, PausedInOrder
  <2>6. PausedInOrder'
    BY <1>1, <1>2, <1>6, <2>1, <2>5 DEF Order, PausedInOrder, Coming
  <2> QED BY <2>2, <2>4, <2>6 DEF Order
<1>7. CASE /\ state \in {"THINKING", "SPEAKING"} /\ state' = "INTERRUPTED" /\ pool' = pool
           /\ callbacks' \in {callbacks, Append(callbacks, Call("cut", "INTERRUPT"))}
  <2>1. Call("cut", "INTERRUPT") \in Job /\ Call("cut", "INTERRUPT").do = "cut"
    BY JobType, JobFields DEF Jobs, Event
  <2>2. untold = {} /\ ~HasCut(callbacks)
    BY <1>7 DEF Order, CutsInOrder, Busy, Coming
  <2>3. \A D, d :
          LET q == Append(callbacks, Call("cut", "INTERRUPT"))
          IN  /\ Has(q, D) <=> Has(callbacks, D) \/ "cut" \in D
              /\ Once(callbacks, D) /\ ("cut" \in D => ~Has(callbacks, D)) => Once(q, D)
    BY <1>a, <2>1, OrderAppend
  <2>4. OneRequest' /\ EarAlone'
    BY <1>1, <1>2, <1>3, <1>7, <2>3 DEF Order, OneRequest, Asks, EarAlone, Owes
  <2>5. Once(callbacks', {"cut"})
    BY <1>7, <2>2, <2>3, NoneInOrder
  <2>6. CutsInOrder'
    BY <1>1, <1>2, <1>7, <2>2, <2>5 DEF CutsInOrder, CutAlone, Busy
  <2>7. PausedInOrder'
    BY <1>7 DEF PausedInOrder
  <2> QED BY <2>4, <2>6, <2>7 DEF Order
<1> QED BY <1>5, <1>6, <1>7

\* Every callback of the loop keeps the order.
LEMMA OrderRuns == TypeOK /\ Order /\ LoopRuns => Order'
<1> SUFFICES ASSUME TypeOK, Order, LoopRuns PROVE Order'
  OBVIOUS
<1>1. CASE BeginTurn
  <2>1. /\ Done /\ UNCHANGED <<callbacks, untold, ear, mic, pool>> /\ task.do = "begin"
        /\ \/ state' = state
           \/ state' = TryDispatch(state, "TURN_FAILED")
           \/ state' = TryDispatch(state, "CAPTURE_STARTED")
    BY <1>1 DEF BeginTurn, OpenTurn, audio
  <2> QED BY <2>1, OrderLoopStep DEF LoopEvents
<1>2. CASE TurnCut
  BY <1>2, OrderTurnCut
<1>3. CASE NoQuestion \/ QuestionTooLong \/ AnswerPlayed \/ ConnectionLost
  <2>1. /\ Done /\ UNCHANGED <<callbacks, untold, ear, mic, pool>>
        /\ \/ state' = state
           \/ state' = TryDispatch(state, "ACTIVATION_EXPIRED")
           \/ state' = TryDispatch(state, "REQUEST_CAPTURED")
           \/ state' = TryDispatch(state, "RESPONSE_FINISHED")
           \/ state' = TryDispatch(state, "TURN_FAILED")
    BY <1>3 DEF NoQuestion, QuestionTooLong, AnswerPlayed, ConnectionLost, audio
  <2> QED BY <2>1, OrderLoopStep DEF LoopEvents
<1>4. CASE \/ IgnoreEvent \/ SpeechStarted \/ SpeechStopped \/ InputTranscript
           \/ ResponseStarted \/ AudioDelta \/ ResponseDone \/ ResponseFailed \/ ErrorReported
  <2>1. \E type : Handling(type)
    BY <1>4 DEF IgnoreEvent, SpeechStarted, SpeechStopped, InputTranscript, ResponseStarted,
                AudioDelta, ResponseDone, ResponseFailed, ErrorReported
  <2>2. \/ state' = state
        \/ state' = TryDispatch(state, "REQUEST_CAPTURED")
        \/ state' = TryDispatch(state, "RESPONSE_STARTED")
        \/ state' = TryDispatch(state, "RESPONSE_FINISHED")
        \/ state' = TryDispatch(state, "TURN_FAILED")
    BY <1>4 DEF IgnoreEvent, SpeechStarted, SpeechStopped, InputTranscript, ResponseStarted,
                AudioDelta, ResponseDone, ResponseFailed, ErrorReported, AbortTurn
  <2>3. Done /\ UNCHANGED <<callbacks, untold, ear, mic, pool>>
    BY <2>1 DEF Handling, audio
  <2> QED BY <2>2, <2>3, OrderLoopStep DEF LoopEvents
<1>5. CASE ConnectionRestored \/ Close
  <2>1. Done /\ UNCHANGED <<state, callbacks, untold, ear, mic, pool>>
    BY <1>5 DEF ConnectionRestored, Close, Machine, audio
  <2> QED BY <2>1, OrderLoopStep
<1>6. CASE ServeRequest
  BY <1>6, OrderServeRequest
<1> QED BY <1>1, <1>2, <1>3, <1>4, <1>5, <1>6 DEF LoopRuns
\* Nothing is lost when what the order is about stays as it was.
LEMMA OrderUntouched ==
  ASSUME Order, UNCHANGED <<state, callbacks, untold, task, ear, mic, pool>>
  PROVE  Order'
<1>1. Coming <=> Coming'
  BY DEF Coming
<1> QED BY <1>1 DEF Order, OneRequest, Asks, EarAlone, Owes, CutsInOrder, CutAlone, PausedInOrder

\* The phrase, dispatched by the audio thread: one cut for the answer it
\* interrupts, or an activation with none of an earlier one waiting.
LEMMA OrderPhrase ==
  ASSUME TypeOK, Order, DispatchFromThread("audio", "WAKE_WORD_DETECTED"),
         UNCHANGED <<callbacks, task, mic, pool>>,
         ear \in {"wake", "interrupt"},
         ear' \in {"idle", "notify"}, ~Can(state, "WAKE_WORD_DETECTED") => ear' = "idle"
  PROVE  Order'
<1>a. state \in State
  BY DEF TypeOK
<1>1. /\ state' = TryDispatch(state, "WAKE_WORD_DETECTED")
      /\ untold' = untold \cup {[by |-> "audio", why |-> c] : c \in CutBy("WAKE_WORD_DETECTED")}
      /\ CutBy("WAKE_WORD_DETECTED") \subseteq {"WAKE_WORD_DETECTED"}
  BY DEF DispatchFromThread, CutBy
<1>2. /\ ~Owes("audio") /\ task.do # "begin" /\ ~Has(callbacks, {"begin"})
  BY DEF Order, EarAlone
<1>3. OneRequest' /\ EarAlone'
  BY <1>2 DEF Order, OneRequest, Asks, EarAlone
<1>4. CASE state \in {"PASSIVE_LISTENING", "INTERRUPTED"}
  <2>1. state' = "ACTIVATED"
    BY <1>a, <1>1, <1>4, WakeMove
  <2>2. CutBy("WAKE_WORD_DETECTED") = {}
    BY <1>1, <2>1 DEF CutBy, CutTargets
  <2>3. untold = {} /\ CutAlone
    BY <1>2, <1>4 DEF Order, CutsInOrder, Owes
  <2>4. untold' = {} /\ CutAlone'
    BY <1>1, <2>2, <2>3 DEF CutAlone, Coming
  <2>5. NoCutAfter(callbacks', "begin")
    BY <1>2, NoneInOrder
  <2>6. CutsInOrder' /\ PausedInOrder'
    BY <1>2, <2>1, <2>4, <2>5 DEF CutsInOrder, PausedInOrder, Busy
  <2> QED BY <1>3, <2>6 DEF Order
<1>5. CASE state \in {"THINKING", "SPEAKING"}
  <2>1. state' = "INTERRUPTED"
    BY <1>a, <1>1, <1>5, WakeMove
  <2>2. untold = {} /\ ~HasCut(callbacks) /\ task.do # "cut"
    BY <1>5 DEF Order, CutsInOrder, Busy, Coming
  <2>3. untold' \subseteq {[by |-> "audio", why |-> "WAKE_WORD_DETECTED"]}
    BY <1>1, <2>2
  <2>6. \A c \in untold' : c.by = "audio"
    BY <2>3
  <2>7. (\A c, d \in untold' : c = d) /\ Once(callbacks', {"cut"}) /\ ~HasCut(callbacks')
    BY <2>2, <2>3, NoneInOrder
  <2>4. CutAlone' /\ \A c \in untold' : c.by = "audio"
    BY <2>2, <2>6, <2>7 DEF CutAlone
  <2>5. CutsInOrder' /\ PausedInOrder'
    BY <2>1, <2>4 DEF CutsInOrder, PausedInOrder, Busy
  <2> QED BY <1>3, <2>5 DEF Order
<1>6. CASE state \notin {"PASSIVE_LISTENING", "INTERRUPTED", "THINKING", "SPEAKING"}
  <2>1. state' = state /\ ~Can(state, "WAKE_WORD_DETECTED")
    BY <1>a, <1>1, <1>6, WakeMove
  <2>2. untold' = untold /\ ear' = "idle"
    BY <1>1, <2>1 DEF CutBy
  <2>3. (Coming <=> Coming') /\ (CutAlone => CutAlone')
    BY <2>2 DEF Coming, CutAlone
  <2>4. CutsInOrder' /\ PausedInOrder'
    BY <2>1, <2>2, <2>3 DEF Order, CutsInOrder, PausedInOrder
  <2> QED BY <1>3, <2>4 DEF Order
<1> QED BY <1>4, <1>5, <1>6

\* The audio thread keeps the order, as long as it judges no phrase with an
\* activation waiting.
LEMMA OrderAudio ==
  TypeOK /\ Order /\ ((Hear /\ ~ActivationPending) \/ AudioThread) => Order'
<1> SUFFICES ASSUME TypeOK, Order, (Hear /\ ~ActivationPending) \/ AudioThread PROVE Order'
  OBVIOUS
<1>a. callbacks \in Seq(Job)
  BY DEF TypeOK
<1>1. CASE Hear /\ ~ActivationPending
  <2>1. /\ UNCHANGED <<state, callbacks, untold, task, mic, pool>>
        /\ mic /\ ear = "idle" /\ ~Owes("audio")
    BY <1>1 DEF Hear, Loop, Machine
  <2>2. task.do # "begin" /\ ~Has(callbacks, {"begin"})
    BY <1>1 DEF ActivationPending, Has, Queued
  <2>3. Coming <=> Coming'
    BY <2>1 DEF Coming
  <2>4. OneRequest' /\ EarAlone' /\ CutsInOrder'
    BY <2>1, <2>2, <2>3 DEF Order, OneRequest, Asks, EarAlone, Owes, CutsInOrder, CutAlone
  <2>5. PausedInOrder'
    BY <2>1, <2>3 DEF Order, PausedInOrder
  <2> QED BY <2>4, <2>5 DEF Order
<1>2. CASE SilenceAnswer
  <2>1. /\ UNCHANGED <<state, callbacks, untold, task, mic, pool>>
        /\ ear = "silence" /\ ear' = "interrupt"
    BY <1>2 DEF SilenceAnswer, Machine
  <2>2. Coming <=> Coming'
    BY <2>1 DEF Coming
  <2> QED BY <2>1, <2>2 DEF Order, OneRequest, Asks, EarAlone, Owes, CutsInOrder, CutAlone,
                            PausedInOrder
<1>3. CASE InterruptAnswer
  BY <1>3, OrderPhrase DEF InterruptAnswer, Loop
<1>4. CASE WakeUp
  BY <1>4, OrderPhrase DEF WakeUp, Loop
<1>5. CASE NotifyActivation
  <2>1. /\ callbacks' = Append(callbacks, Call("begin", "")) /\ ear = "notify" /\ ear' = "idle"
        /\ task.do = "idle" /\ UNCHANGED <<state, untold, task, mic, pool>>
    BY <1>5, JobFields DEF NotifyActivation, Loop, BetweenCallbacks
  <2>2. Call("begin", "") \in Job /\ Call("begin", "").do = "begin"
    BY JobType, JobFields DEF Jobs
  <2>3. /\ \A D : Has(callbacks', D) <=> Has(callbacks, D) \/ "begin" \in D
        /\ \A D : Once(callbacks, D) /\ "begin" \notin D => Once(callbacks', D)
        /\ \A d : NoCutAfter(callbacks, d) => NoCutAfter(callbacks', d)
        /\ HasCut(callbacks') <=> HasCut(callbacks)
    BY <1>a, <2>1, <2>2, OrderAppend
  <2>4. Coming <=> Coming'
    BY <2>1, <2>3 DEF Coming
  <2>5. OneRequest' /\ EarAlone'
    BY <2>1, <2>3 DEF Order, OneRequest, Asks, EarAlone
  <2>6. CutAlone => CutAlone'
    BY <2>1, <2>3, <2>4 DEF CutAlone
  <2>7. CutsInOrder' /\ PausedInOrder'
    BY <2>1, <2>3, <2>4, <2>6 DEF Order, CutsInOrder, PausedInOrder
  <2> QED BY <2>5, <2>7 DEF Order
<1> QED BY <1>1, <1>2, <1>3, <1>4, <1>5 DEF AudioThread

\* Telling a cut moves the one that is owed to the end of the queue.
LEMMA OrderTell == TypeOK /\ Order /\ Tell => Order'
<1> SUFFICES ASSUME TypeOK, Order, Tell PROVE Order'
  OBVIOUS
<1>1. PICK c \in untold : /\ callbacks' = Append(callbacks, Call("cut", c.why))
                          /\ untold' = untold \ {c}
  BY DEF Tell
<1>2. UNCHANGED <<state, task, ear, mic, pool>> /\ task.do = "idle"
  BY JobFields DEF Tell, Loop, audio, BetweenCallbacks
<1>3. Call("cut", c.why) \in Job /\ Call("cut", c.why).do = "cut" /\ callbacks \in Seq(Job)
  BY JobType, JobFields DEF Jobs, TypeOK
<1>4. /\ \A D : Has(callbacks', D) <=> Has(callbacks, D) \/ "cut" \in D
      /\ \A D : Once(callbacks, D) /\ ("cut" \in D => ~Has(callbacks, D)) => Once(callbacks', D)
      /\ \A d : NoCutAfter(callbacks, d) /\ ~Has(callbacks, {d}) => NoCutAfter(callbacks', d)
  <2> DEFINE j == Call("cut", c.why)
  <2>1. callbacks' = Append(callbacks, j) /\ j \in Job /\ j.do = "cut" /\ callbacks \in Seq(Job)
    BY <1>1, <1>3
  <2> HIDE DEF j
  <2> QED BY <2>1, OrderAppend
<1>5. OneRequest'
  BY <1>2, <1>4 DEF Order, OneRequest, Asks
<1>6. EarAlone'
  BY <1>1, <1>2, <1>4 DEF Order, EarAlone, Owes
<1>7. CutAlone => CutAlone' /\ untold' = {}
  <2> SUFFICES ASSUME CutAlone PROVE CutAlone' /\ untold' = {}
    OBVIOUS
  <2>1. untold' = {} /\ ~HasCut(callbacks)
    BY <1>1 DEF CutAlone
  <2>2. Once(callbacks', {"cut"})
    BY <1>4, <2>1, NoneInOrder
  <2> QED BY <1>2, <2>1, <2>2 DEF CutAlone
<1>8. CutsInOrder'
  BY <1>1, <1>2, <1>7 DEF Order, CutsInOrder, Coming
<1>9. PausedInOrder'
  <2> SUFFICES ASSUME state = "PAUSED" PROVE PausedInOrder'
    BY <1>2 DEF PausedInOrder
  <2>1. pool = "closeMic"
    BY <1>1 DEF Order, PausedInOrder
  <2>2. ~Has(callbacks, {"request"})
    BY <2>1 DEF Order, OneRequest, Asks, Has
  <2>3. NoCutAfter(callbacks', "request")
    BY <1>4, <2>2, NoneInOrder
  <2> QED BY <1>2, <2>1, <2>3 DEF PausedInOrder
<1> QED BY <1>5, <1>6, <1>8, <1>9 DEF Order

\* A request, and the leave that ends a stop, go to the end of the queue.
LEMMA OrderAsked ==
  ASSUME TypeOK, Order, NEW j \in Job, j.do \in Asks, task.do = "idle",
         ~Has(callbacks, Asks), callbacks' = Append(callbacks, j), pool' = "none",
         UNCHANGED <<state, untold, task, ear, mic>>, pool # "closeMic"
  PROVE  Order'
<1>1. callbacks \in Seq(Job) /\ j.do # "cut" /\ j.do # "begin"
  BY DEF TypeOK, Asks
<1>2. /\ \A D : Has(callbacks', D) <=> Has(callbacks, D) \/ j.do \in D
      /\ \A D : Once(callbacks, D) /\ (j.do \in D => ~Has(callbacks, D)) => Once(callbacks', D)
      /\ \A d : NoCutAfter(callbacks, d) => NoCutAfter(callbacks', d)
      /\ HasCut(callbacks') <=> HasCut(callbacks)
  BY <1>1, OrderAppend
<1>3. Coming <=> Coming'
  BY <1>2 DEF Coming
<1>4. OneRequest'
  BY <1>2 DEF Order, OneRequest, Asks
<1>5. EarAlone'
  BY <1>1, <1>2 DEF Order, EarAlone, Owes
<1>6. CutAlone => CutAlone'
  BY <1>1, <1>2, <1>3 DEF CutAlone
<1>7. CutsInOrder' /\ PausedInOrder'
  BY <1>2, <1>3, <1>6 DEF Order, CutsInOrder, PausedInOrder
<1> QED BY <1>4, <1>5, <1>7 DEF Order

\* The worker thread keeps it: a pause owes its cut before the microphone is
\* closed, and a resumption is served after every cut told before it.
LEMMA OrderWorker == TypeOK /\ Order /\ WorkerThread => Order'
<1> SUFFICES ASSUME TypeOK, Order, WorkerThread PROVE Order'
  OBVIOUS
<1>a. state \in State
  BY DEF TypeOK
<1>b. \A e : DispatchFromThread("worker", e) =>
        /\ state' = TryDispatch(state, e)
        /\ untold' = untold \cup {[by |-> "worker", why |-> c] : c \in CutBy(e)}
        /\ ~Can(state, e) => state' = state /\ untold' = untold
        /\ state' \notin CutTargets => untold' = untold
        /\ Owes("audio")' => Owes("audio")
  <2> SUFFICES ASSUME NEW e, DispatchFromThread("worker", e)
               PROVE  /\ state' = TryDispatch(state, e)
                      /\ untold' = untold \cup {[by |-> "worker", why |-> c] : c \in CutBy(e)}
                      /\ ~Can(state, e) => state' = state /\ untold' = untold
                      /\ state' \notin CutTargets => untold' = untold
                      /\ Owes("audio")' => Owes("audio")
    OBVIOUS
  <2>1. /\ state' = TryDispatch(state, e)
        /\ untold' = untold \cup {[by |-> "worker", why |-> c] : c \in CutBy(e)}
    BY DEF DispatchFromThread
  <2>2. ~Can(state, e) => TryDispatch(state, e) = state
    BY DEF TryDispatch
  <2>3. ~Can(state, e) \/ state' \notin CutTargets => CutBy(e) = {}
    BY <2>1 DEF CutBy
  <2>4. CutBy(e) = {} => untold' = untold
    BY <2>1
  <2>5. \A c \in untold' : c \in untold \/ c.by = "worker"
    BY <2>1
  <2>6. Owes("audio")' => Owes("audio")
    BY <2>5 DEF Owes
  <2> QED BY <2>1, <2>2, <2>3, <2>4, <2>6
<1>c. task.do \notin Asks /\ ~Has(callbacks, Asks) /\ pool # "none"
  BY DEF WorkerThread, Pause, PauseMic, Resume, StopMic, Stop, Leave, Order, OneRequest
<1>1. CASE Pause
  <2>1. /\ DispatchFromThread("worker", "PAUSE") /\ UNCHANGED <<callbacks, task, ear, mic>>
        /\ pool = "pause" /\ pool' = IF Can(state, "PAUSE") THEN "closeMic" ELSE "none"
    BY <1>1 DEF Pause, Worker, audio
  <2>2. OneRequest' /\ EarAlone'
    BY <1>b, <1>c, <2>1 DEF Order, OneRequest, EarAlone
  <2>3. CASE Can(state, "PAUSE")
    <3>1. state' = "PAUSED" /\ pool' = "closeMic"
      BY <1>a, <1>b, <2>1, <2>3, PauseMove
    <3>2. ~Has(callbacks, {"request"}) /\ task.do # "request"
      BY <1>c DEF Has, Asks
    <3>3. NoCutAfter(callbacks, "request")
      BY <3>2, NoneInOrder
    <3>4. CutsInOrder' /\ PausedInOrder'
      BY <2>1, <3>1, <3>2, <3>3 DEF CutsInOrder, PausedInOrder, Busy
    <3> QED BY <2>2, <3>4 DEF Order
  <2>4. CASE ~Can(state, "PAUSE")
    <3>1. UNCHANGED <<state, untold>> /\ pool' = "none"
      BY <1>b, <2>1, <2>4
    <3>2. (Coming <=> Coming') /\ (CutAlone => CutAlone')
      BY <2>1, <3>1 DEF Coming, CutAlone
    <3>3. CutsInOrder' /\ PausedInOrder'
      BY <2>1, <3>1, <3>2 DEF Order, CutsInOrder, PausedInOrder
    <3> QED BY <2>2, <3>3 DEF Order
  <2> QED BY <2>3, <2>4
<1>2. CASE PauseMic \/ StopMic
  <2>1. /\ UNCHANGED <<state, callbacks, untold, task, ear>> /\ ear = "idle" /\ untold = {}
        /\ mic' = FALSE /\ pool' \in {"none", "stopping"}
    BY <1>2 DEF PauseMic, StopMic, Worker, Machine
  <2>2. OneRequest' /\ EarAlone'
    BY <1>c, <2>1 DEF Order, OneRequest, EarAlone
  <2>3. (Coming <=> Coming') /\ (CutAlone => CutAlone')
    BY <2>1 DEF Coming, CutAlone
  <2>4. CutsInOrder' /\ PausedInOrder'
    BY <2>1, <2>3 DEF Order, CutsInOrder, PausedInOrder
  <2> QED BY <2>2, <2>4 DEF Order
<1>3. CASE Resume
  <2>1. /\ pool = "resume" /\ pool' = "none" /\ UNCHANGED <<callbacks, task, ear>>
        /\ \/ state = "PAUSED" /\ DispatchFromThread("worker", "RESUME")
           \/ state = "PAUSED" /\ DispatchFromThread("worker", "FAIL")
           \/ state # "PAUSED" /\ UNCHANGED <<mic, state, untold>>
    BY <1>3 DEF Resume, Worker
  <2>2. OneRequest' /\ EarAlone'
    BY <1>b, <1>c, <2>1 DEF Order, OneRequest, EarAlone, Owes
  <2>3. CASE state = "PAUSED" /\ DispatchFromThread("worker", "RESUME")
    <3>1. state' = "PASSIVE_LISTENING"
      BY <1>a, <1>b, <2>3, ResumeMove
    <3>2. untold' = {} /\ task.do # "cut" /\ ~HasCut(callbacks)
      BY <1>b, <2>1, <2>3, <3>1 DEF Order, PausedInOrder, Coming, CutTargets
    <3>3. CutAlone'
      BY <2>1, <3>2, NoneInOrder DEF CutAlone
    <3>4. CutsInOrder' /\ PausedInOrder'
      BY <3>1, <3>2, <3>3 DEF CutsInOrder, PausedInOrder, Busy
    <3> QED BY <2>2, <3>4 DEF Order
  <2>4. CASE state = "PAUSED" /\ DispatchFromThread("worker", "FAIL")
    <3>1. state' = "ERROR"
      BY <1>a, <1>b, <2>4, FailMove
    <3>2. CutsInOrder' /\ PausedInOrder'
      BY <3>1 DEF CutsInOrder, PausedInOrder, Busy
    <3> QED BY <2>2, <3>2 DEF Order
  <2>5. CASE state # "PAUSED" /\ UNCHANGED <<mic, state, untold>>
    <3>1. (Coming <=> Coming') /\ (CutAlone => CutAlone')
      BY <2>1, <2>5 DEF Coming, CutAlone
    <3>2. CutsInOrder' /\ PausedInOrder'
      BY <2>1, <2>5, <3>1 DEF Order, CutsInOrder, PausedInOrder
    <3> QED BY <2>2, <3>2 DEF Order
  <2> QED BY <2>1, <2>3, <2>4, <2>5
<1>4. CASE Stop
  <2>1. /\ DispatchFromThread("worker", "STOP") /\ UNCHANGED <<callbacks, task, ear>>
        /\ pool' = "leave"
    BY <1>4 DEF Stop, Worker, audio
  <2>2. OneRequest' /\ EarAlone'
    BY <1>b, <1>c, <2>1 DEF Order, OneRequest, EarAlone
  <2>3. state' \in {"IDLE", "STOPPED", "ERROR"}
    BY <1>a, <1>b, <2>1, StopMove DEF State, MicActive
  <2>4. CutsInOrder' /\ PausedInOrder'
    BY <2>3 DEF CutsInOrder, PausedInOrder, Busy
  <2> QED BY <2>2, <2>4 DEF Order
<1>5. CASE Leave
  <2>1. Call("close", "") \in Job /\ Call("close", "").do \in Asks
    BY JobType, JobFields DEF Jobs, Asks
  <2>2. /\ callbacks' = Append(callbacks, Call("close", "")) /\ task.do = "idle"
        /\ UNCHANGED <<state, untold, task, ear, mic>> /\ pool = "leave" /\ pool' = "none"
    BY <1>5, JobFields DEF Leave, Worker, audio, BetweenCallbacks
  <2> QED BY <1>c, <2>1, <2>2, OrderAsked
<1> QED BY <1>1, <1>2, <1>3, <1>4, <1>5 DEF WorkerThread

\* The order holds at first.
LEMMA OrderInit == Init => Order
<1> SUFFICES ASSUME Init PROVE Order
  OBVIOUS
<1>1. /\ \A D : ~Has(callbacks, D)
      /\ ~HasCut(callbacks)
      /\ task.do = "idle" /\ untold = {} /\ ear = "idle" /\ pool = "none"
      /\ state = "PASSIVE_LISTENING"
  BY QueuedShort, JobFields DEF Init, Has, HasCut
<1>2. \A D : Once(callbacks, D)
  BY <1>1, NoneInOrder
<1> QED BY <1>1, <1>2 DEF Order, OneRequest, Asks, EarAlone, CutsInOrder, CutAlone, Busy,
                          PausedInOrder

\* Every step keeps it, if an activation begins before the next phrase.
LEMMA OrderNext == TypeOK /\ Order /\ [PromptNext]_vars => Order'
<1> SUFFICES ASSUME TypeOK, Order, [PromptNext]_vars PROVE Order'
  OBVIOUS
<1>1. CASE PlaybackDrains \/ ServerActs
  <2>1. UNCHANGED <<state, callbacks, untold, task, ear, mic, pool>>
    BY <1>1 DEF PlaybackDrains, ServerActs, ServerHearsSpeech, ServerHearsSilence,
                ServerTranscribes, ServerSpeaks, ServerFinishes, ServerErrs, Client, Machine, audio
  <2> QED BY <2>1, OrderUntouched
<1>2. CASE \E what \in Requests : Request(what)
  <2>1. PICK what \in Requests : Request(what)
    BY <1>2
  <2>2. Call("request", what) \in Job /\ Call("request", what).do \in Asks
    BY JobType, JobFields DEF Asks
  <2>3. /\ callbacks' = Append(callbacks, Call("request", what)) /\ task.do = "idle"
        /\ UNCHANGED <<state, untold, task, ear, mic>> /\ pool = "none" /\ pool' = "none"
        /\ Asked = {}
    BY <2>1, JobFields DEF Request, Loop, audio, BetweenCallbacks
  <2>4. ~Has(callbacks, Asks)
    BY <2>3 DEF Asked, Has, Asks, Queued
  <2> QED BY <2>2, <2>3, <2>4, OrderAsked
<1>3. CASE UNCHANGED vars
  BY <1>3, OrderUntouched DEF vars
<1>4. CASE PromptNext
  BY <1>1, <1>2, <1>4, OrderTakes, OrderRuns, OrderAudio, OrderTell, OrderWorker
     DEF PromptNext, Next
<1> QED BY <1>3, <1>4

-----------------------------------------------------------------------------
(***************************************************************************)
(* The timers.  While a question is captured the microphone is streamed,   *)
(* so a timer runs only as long as something is left for a cut to drop.    *)
(***************************************************************************)

\* A capture streams, from whenever the callback saw it, and so does whatever
\* has a timer; and the end of a wait is never queued by hand.
Timed ==
  /\ state = "CAPTURING_REQUEST" => tc.streaming
  /\ tc.timer # "none" => tc.streaming
  /\ task # Idle /\ seen = "CAPTURING_REQUEST" => tc.streaming
  /\ task.do = "noQuestion" => tc.timer = "none"
  /\ ~Has(callbacks, {"noQuestion"})

\* Only the opening of a turn leads to a capture.
LEMMA NoOtherCapture ==
  ASSUME NEW s \in State,
         NEW e \in (LoopEvents \ {"CAPTURE_STARTED"}) \cup ThreadEvents \cup {"INTERRUPT"},
         TryDispatch(s, e) = "CAPTURING_REQUEST"
  PROVE  s = "CAPTURING_REQUEST"
         /\ e \notin {"TURN_FAILED", "ACTIVATION_EXPIRED", "REQUEST_CAPTURED"}
<1>1. CASE e \in LoopEvents \ {"CAPTURE_STARTED"}
  BY <1>1, TurnFailed, ActivationExpired, RequestCaptured, ResponseStartedMove,
     ResponseFinishedMove DEF LoopEvents
<1>2. CASE e \in ThreadEvents \cup {"INTERRUPT"}
  BY <1>2, WakeMove, PauseMove, ResumeMove, FailMove, StopMove, InterruptMove DEF ThreadEvents
<1> QED BY <1>1, <1>2

\* What each operator on the fields does to the streaming and to the timer.
LEMMA TimerFields ==
  ASSUME NEW t \in TurnController
  PROVE  /\ Dropped(t).timer = "none"
         /\ NewTurn(t).streaming
         /\ QuestionEnded(t).timer = "none"
         /\ Silenced(t).timer = t.timer /\ Silenced(t).streaming = t.streaming
         /\ Recorded([t EXCEPT !.streaming = FALSE]).timer = t.timer
BY DEF TurnController, Dropped, NewTurn, QuestionEnded, Silenced, Recorded

\* A callback that ends keeps the timers if what it leaves is streaming.
LEMMA TimedLoopStep ==
  ASSUME Timed, Done, Has(callbacks', {"noQuestion"}) => Has(callbacks, {"noQuestion"}),
         state' = "CAPTURING_REQUEST" => tc'.streaming,
         tc'.timer # "none" => tc'.streaming
  PROVE  Timed'
<1>1. task' = Idle /\ task'.do = "idle"
  BY DEF Done, Idle, Call
<1> QED BY <1>1 DEF Timed

\* A step outside the loop neither opens a capture nor touches a timer.
LEMMA TimedQuietStep ==
  ASSUME TypeOK, Timed, UNCHANGED <<task, seen>>,
         Has(callbacks', {"noQuestion"}) => Has(callbacks, {"noQuestion"}),
         \/ state' = state
         \/ \E e \in ThreadEvents : state' = TryDispatch(state, e),
         \/ tc' \in {tc, Silenced(tc)}
         \/ tc'.timer = tc.timer /\ tc'.streaming = tc.streaming
  PROVE  Timed'
<1>1. state' = "CAPTURING_REQUEST" => state = "CAPTURING_REQUEST"
  BY NoOtherCapture DEF TypeOK
<1>2. tc'.timer = tc.timer /\ tc'.streaming = tc.streaming
  BY TimerFields DEF TypeOK
<1> QED BY <1>1, <1>2 DEF Timed

\* Taking something to run: a timer that fires is no longer armed.
LEMMA TimedTakes == TypeOK /\ Timed /\ LoopTakes => Timed'
<1> SUFFICES ASSUME TypeOK, Timed, LoopTakes PROVE Timed'
  OBVIOUS
<1>a. tc \in TurnController /\ callbacks \in Seq(Job) /\ inbox \in Seq(ServerMessage)
  BY DEF TypeOK
<1>1. /\ state' = state /\ seen' = state
      /\ tc'.streaming = tc.streaming
      /\ tc'.timer = tc.timer \/ tc'.timer = "none"
  <2>1. /\ state' = state /\ seen' = state
        /\ tc' = tc \/ tc' = [tc EXCEPT !.timer = "none"]
    BY DEF LoopTakes, TakeCallback, TakeEvent, TakeTimer, TakeWatch, TakeConnectionChange, Take
  <2> QED BY <1>a, <2>1 DEF TurnController
<1>2. /\ Has(callbacks', {"noQuestion"}) => Has(callbacks, {"noQuestion"})
      /\ task'.do = "noQuestion" => tc'.timer = "none"
  <2>1. CASE TakeCallback
    <3>1. callbacks # <<>> /\ task' = Head(callbacks) /\ callbacks' = Tail(callbacks)
      BY <2>1 DEF TakeCallback, Take
    <3>2. Has(callbacks, {"noQuestion"}) <=>
            task'.do \in {"noQuestion"} \/ Has(callbacks', {"noQuestion"})
      BY <1>a, <3>1, OrderTail
    <3> QED BY <3>2 DEF Timed
  <2>2. CASE TakeEvent
    <3>1. Head(inbox) \in ServerMessage /\ task' = Head(inbox) /\ callbacks' = callbacks
      BY <1>a, <2>2, QueuedTail DEF TakeEvent, Take
    <3> QED BY <3>1 DEF ServerMessage, ServerEvents
  <2>3. CASE TakeTimer
    BY <1>a, <2>3 DEF TakeTimer, TurnController
  <2>4. CASE TakeWatch
    BY <2>4, JobFields DEF TakeWatch, Take
  <2>5. CASE TakeConnectionChange
    <3>1. task' \in {Call("lost", ""), Call("restored", "")} /\ callbacks' = callbacks
      BY <2>5 DEF TakeConnectionChange, Take
    <3>2. Call("lost", "").do = "lost" /\ Call("restored", "").do = "restored"
      BY DEF Call
    <3> QED BY <3>1, <3>2
  <2> QED BY <2>1, <2>2, <2>3, <2>4, <2>5 DEF LoopTakes
<1> QED BY <1>1, <1>2 DEF Timed

\* Every callback of the loop: one that ends a capture also ends its timers,
\* and the cut of a turn meets no capture but the one it opens.
LEMMA TimedRuns == IInv /\ Order /\ Timed /\ LoopRuns => Timed'
<1> SUFFICES ASSUME IInv, Order, Timed, LoopRuns PROVE Timed'
  OBVIOUS
<1>a. TypeOK /\ state \in State /\ tc \in TurnController /\ callbacks \in Seq(Job)
  BY DEF IInv, TypeOK
<1>b. \A type : Handling(type) => task.do = type /\ Done /\ callbacks' = callbacks
  BY DEF Handling
<1>c. ASSUME NEW e \in (LoopEvents \ {"CAPTURE_STARTED"}) \cup {"INTERRUPT"},
             state' = TryDispatch(state, e), state' = "CAPTURING_REQUEST"
      PROVE  /\ state = "CAPTURING_REQUEST"
             /\ e \notin {"TURN_FAILED", "ACTIVATION_EXPIRED", "REQUEST_CAPTURED"}
  BY <1>a, <1>c, NoOtherCapture
<1>d. AbortTurn => state' # "CAPTURING_REQUEST" /\ tc'.timer = "none"
  <2>1. "TURN_FAILED" \in (LoopEvents \ {"CAPTURE_STARTED"}) \cup {"INTERRUPT"}
    BY DEF LoopEvents
  <2>2. AbortTurn => state' = TryDispatch(state, "TURN_FAILED") /\ tc' = Dropped(tc)
    BY DEF AbortTurn
  <2>3. Dropped(tc).timer = "none"
    BY <1>a, TimerFields
  <2> QED BY <1>c, <2>1, <2>2, <2>3
<1>1. CASE BeginTurn
  <2>1. /\ Done /\ callbacks' = callbacks
        /\ \/ state' = state /\ tc' = tc
           \/ state' = TryDispatch(state, "TURN_FAILED") /\ tc' = tc
           \/ tc' = NewTurn(tc)
    BY <1>1 DEF BeginTurn, OpenTurn
  <2>2. state' = TryDispatch(state, "TURN_FAILED") => state' # "CAPTURING_REQUEST"
    BY <1>c DEF LoopEvents
  <2>3. NewTurn(tc).streaming
    BY <1>a, TimerFields
  <2>4. (state' = "CAPTURING_REQUEST" => tc'.streaming) /\ (tc'.timer # "none" => tc'.streaming)
    BY <2>1, <2>2, <2>3 DEF Timed
  <2> QED BY <2>1, <2>4, TimedLoopStep
<1>2. CASE TurnCut
  <2> DEFINE woken == TryDispatch(state, "WAKE_WORD_DETECTED")
  <2>1. PICK t \in {tc, Dropped(tc)} :
          /\ task.do = "cut" /\ Done /\ callbacks' = callbacks
          /\ \/ state' = state /\ tc' = t
             \/ state' = TryDispatch(woken, "TURN_FAILED") /\ tc' = t
             \/ tc' = NewTurn(t)
             \/ state' = TryDispatch(state, "INTERRUPTION_HANDLED") /\ tc' = t
    <3>1. tc.current # 0 \/ tc.stream # "none" \/ tc.streaming \/
          ~(tc.current # 0 \/ tc.stream # "none" \/ tc.streaming)
      OBVIOUS
    <3> QED BY <1>2 DEF TurnCut, OpenTurn
  <2>2. state # "CAPTURING_REQUEST"
    BY <2>1 DEF Order, CutsInOrder, Busy
  <2>3. woken \in State /\ t \in TurnController
    <3>1. turns \in Nat
      BY <1>a DEF TypeOK
    <3> QED BY <1>a, <3>1, DispatchType, FieldTypes
  <2>4. /\ TryDispatch(woken, "TURN_FAILED") # "CAPTURING_REQUEST"
        /\ TryDispatch(state, "INTERRUPTION_HANDLED") # "CAPTURING_REQUEST"
    BY <1>a, <2>2, <2>3, TurnFailed, InterruptionHandledMove
  <2>5. NewTurn(t).streaming /\ (t.timer # "none" => t.streaming)
    BY <1>a, <2>3, TimerFields DEF Timed
  <2>6. (state' = "CAPTURING_REQUEST" => tc'.streaming) /\ (tc'.timer # "none" => tc'.streaming)
    BY <2>1, <2>2, <2>4, <2>5
  <2> QED BY <2>1, <2>6, TimedLoopStep
<1>3. CASE NoQuestion
  <2>1. /\ Done /\ callbacks' = callbacks /\ tc.timer = "none"
        /\ \/ state' = state /\ tc' = tc
           \/ /\ tc' = Recorded([tc EXCEPT !.streaming = FALSE])
              /\ state' = TryDispatch(state, "ACTIVATION_EXPIRED")
    BY <1>3 DEF NoQuestion, Timed
  <2>2. (state' = "CAPTURING_REQUEST" => tc'.streaming) /\ (tc'.timer # "none" => tc'.streaming)
    BY <1>a, <1>c, <2>1, TimerFields DEF Timed, LoopEvents
  <2> QED BY <2>1, <2>2, TimedLoopStep
<1>4. CASE QuestionTooLong \/ SpeechStopped
  <2>1. /\ Done /\ callbacks' = callbacks
        /\ \/ state' = state /\ tc' = tc
           \/ tc' = QuestionEnded(tc) /\ state' = TryDispatch(state, "REQUEST_CAPTURED")
    BY <1>4, <1>b DEF QuestionTooLong, SpeechStopped
  <2>2. (state' = "CAPTURING_REQUEST" => tc'.streaming) /\ (tc'.timer # "none" => tc'.streaming)
    BY <1>a, <1>c, <2>1, TimerFields DEF Timed, LoopEvents
  <2> QED BY <2>1, <2>2, TimedLoopStep
<1>5. CASE SpeechStarted
  <2>1. Done /\ callbacks' = callbacks /\ task.do = "speechStarted" /\ seen = "CAPTURING_REQUEST"
    BY <1>5, <1>b DEF SpeechStarted, Ignored
  <2>2. tc'.streaming
    BY <1>a, <1>5, <2>1, JobFields DEF SpeechStarted, Timed, TurnController
  <2> QED BY <2>1, <2>2, TimedLoopStep
<1>6. CASE IgnoreEvent \/ InputTranscript \/ ResponseStarted \/ AudioDelta \/ ResponseDone
           \/ ResponseFailed \/ ErrorReported
  <2>1. Done /\ callbacks' = callbacks
    BY <1>6, <1>b DEF IgnoreEvent, InputTranscript, ResponseStarted, AudioDelta, ResponseDone,
                      ResponseFailed, ErrorReported
  <2>2. \/ AbortTurn
        \/ /\ \/ state' = state
              \/ state' = TryDispatch(state, "RESPONSE_STARTED")
              \/ state' = TryDispatch(state, "RESPONSE_FINISHED")
           /\ tc'.timer = tc.timer /\ tc'.streaming = tc.streaming
    <3>1. CASE IgnoreEvent
      BY <3>1 DEF IgnoreEvent
    <3>2. CASE InputTranscript \/ ResponseStarted
      BY <1>a, <3>2 DEF InputTranscript, ResponseStarted, TurnController
    <3>3. CASE AudioDelta
      BY <1>a, <3>3 DEF AudioDelta, TurnController
    <3>4. CASE ResponseDone
      BY <1>a, <3>4 DEF ResponseDone, Recorded, TurnController
    <3>5. CASE ResponseFailed \/ ErrorReported
      BY <3>5 DEF ResponseFailed, ErrorReported
    <3> QED BY <1>6, <3>1, <3>2, <3>3, <3>4, <3>5
  <2>3. (state' = "CAPTURING_REQUEST" => tc'.streaming) /\ (tc'.timer # "none" => tc'.streaming)
    BY <1>c, <1>d, <2>2 DEF Timed, LoopEvents
  <2> QED BY <2>1, <2>3, TimedLoopStep
<1>7. CASE ConnectionLost \/ ConnectionRestored
  <2>1. /\ Done /\ callbacks' = callbacks
        /\ \/ state' = state /\ tc' = tc
           \/ tc' = Dropped(tc) /\ state' = TryDispatch(state, "TURN_FAILED")
    BY <1>7 DEF ConnectionLost, ConnectionRestored
  <2>2. (state' = "CAPTURING_REQUEST" => tc'.streaming) /\ (tc'.timer # "none" => tc'.streaming)
    BY <1>a, <1>c, <2>1, TimerFields DEF Timed, LoopEvents
  <2> QED BY <2>1, <2>2, TimedLoopStep
<1>8. CASE AnswerPlayed
  <2>1. /\ Done /\ callbacks' = callbacks
        /\ state' \in {state, TryDispatch(state, "RESPONSE_FINISHED")}
        /\ tc'.timer = tc.timer /\ tc'.streaming = tc.streaming
    BY <1>a, <1>8 DEF AnswerPlayed, Recorded, TurnController
  <2>2. (state' = "CAPTURING_REQUEST" => tc'.streaming) /\ (tc'.timer # "none" => tc'.streaming)
    BY <1>c, <2>1 DEF Timed, LoopEvents
  <2> QED BY <2>1, <2>2, TimedLoopStep
<1>9. CASE ServeRequest
  <2>1. /\ Done /\ callbacks' \in {callbacks, Append(callbacks, Call("cut", "INTERRUPT"))}
        /\ state' \in {state, TryDispatch(state, "INTERRUPT")}
        /\ tc' \in {tc, Silenced(tc)}
    BY <1>9 DEF ServeRequest
  <2>2. Has(callbacks', {"noQuestion"}) => Has(callbacks, {"noQuestion"})
    <3>1. Call("cut", "INTERRUPT") \in Job /\ Call("cut", "INTERRUPT").do = "cut"
      BY JobType, JobFields DEF Jobs, Event
    <3> QED BY <1>a, <2>1, <3>1, OrderAppend
  <2>3. (state' = "CAPTURING_REQUEST" => tc'.streaming) /\ (tc'.timer # "none" => tc'.streaming)
    BY <1>a, <1>c, <2>1, TimerFields DEF Timed
  <2> QED BY <2>1, <2>2, <2>3, TimedLoopStep
<1>10. CASE Close
  <2>1. Done /\ callbacks' = callbacks /\ state' = state /\ tc' = Dropped(tc) /\ Over
    BY <1>10 DEF Close, Machine, IInv, ClosingMeansOver
  <2>2. state' # "CAPTURING_REQUEST" /\ tc'.timer = "none"
    BY <1>a, <2>1, TimerFields DEF Over
  <2> QED BY <2>1, <2>2, TimedLoopStep
<1> QED BY <1>1, <1>2, <1>3, <1>4, <1>5, <1>6, <1>7, <1>8, <1>9, <1>10 DEF LoopRuns

\* The other threads, the device and the server leave the timers alone.
LEMMA TimedOutside ==
  TypeOK /\ Timed /\ (Hear \/ AudioThread \/ Tell \/ (\E what \in Requests : Request(what))
                      \/ WorkerThread \/ PlaybackDrains \/ ServerActs)
    => Timed'
<1> SUFFICES ASSUME TypeOK, Timed,
                    \/ Hear \/ AudioThread \/ Tell \/ (\E what \in Requests : Request(what))
                    \/ WorkerThread \/ PlaybackDrains \/ ServerActs
             PROVE  Timed'
  OBVIOUS
<1>a. tc \in TurnController /\ callbacks \in Seq(Job)
  BY DEF TypeOK
<1>b. ASSUME NEW j \in Job, j.do # "noQuestion", callbacks' = Append(callbacks, j)
      PROVE  Has(callbacks', {"noQuestion"}) => Has(callbacks, {"noQuestion"})
  BY <1>a, <1>b, OrderAppend
<1>c. \A by, e : DispatchFromThread(by, e) => state' = TryDispatch(state, e)
  BY DEF DispatchFromThread
<1>1. CASE Hear \/ SilenceAnswer \/ PauseMic \/ StopMic \/ ServerActs
  <2>1. /\ UNCHANGED <<task, seen, callbacks, state>> /\ tc' \in {tc, Silenced(tc)}
    BY <1>1 DEF Hear, SilenceAnswer, PauseMic, StopMic, ServerActs, Loop, Worker, Machine,
                ServerHearsSpeech, ServerHearsSilence, ServerTranscribes, ServerSpeaks,
                ServerFinishes, ServerErrs, Client
  <2> QED BY <2>1, TimedQuietStep
<1>2. CASE InterruptAnswer \/ WakeUp \/ Pause \/ Resume \/ Stop
  <2>1. /\ UNCHANGED <<task, seen, callbacks, tc>>
        /\ state' = state \/ \E e \in ThreadEvents : state' = TryDispatch(state, e)
    BY <1>2, <1>c DEF InterruptAnswer, WakeUp, Pause, Resume, Stop, Loop, Worker, ThreadEvents
  <2> QED BY <2>1, TimedQuietStep
<1>3. CASE NotifyActivation
  <2>1. /\ UNCHANGED <<task, seen, state, tc>>
        /\ callbacks' = Append(callbacks, Call("begin", ""))
    BY <1>3 DEF NotifyActivation, Loop
  <2>2. Call("begin", "") \in Job /\ Call("begin", "").do # "noQuestion"
    BY JobType, JobFields DEF Jobs
  <2> QED BY <1>b, <2>1, <2>2, TimedQuietStep
<1>4. CASE Tell
  <2>1. PICK c \in untold : callbacks' = Append(callbacks, Call("cut", c.why))
    BY <1>4 DEF Tell
  <2>2. Call("cut", c.why) \in Job /\ Call("cut", c.why).do # "noQuestion"
    <3>1. Call("cut", c.why) \in Job /\ Call("cut", c.why).do = "cut"
      BY JobType, JobFields DEF Jobs, TypeOK
    <3> QED BY <3>1
  <2>3. UNCHANGED <<task, seen, state, tc>>
    BY <1>4 DEF Tell, Loop
  <2> QED BY <1>b, <2>1, <2>2, <2>3, TimedQuietStep
<1>5. CASE \E what \in Requests : Request(what)
  <2>1. PICK what \in Requests : Request(what)
    BY <1>5
  <2>2. Call("request", what) \in Job /\ Call("request", what).do # "noQuestion"
    BY JobType, JobFields
  <2>3. /\ UNCHANGED <<task, seen, state, tc>>
        /\ callbacks' = Append(callbacks, Call("request", what))
    BY <2>1 DEF Request, Loop
  <2> QED BY <1>b, <2>2, <2>3, TimedQuietStep
<1>6. CASE Leave
  <2>1. /\ UNCHANGED <<task, seen, state, tc>>
        /\ callbacks' = Append(callbacks, Call("close", ""))
    BY <1>6 DEF Leave, Worker
  <2>2. Call("close", "") \in Job /\ Call("close", "").do # "noQuestion"
    BY JobType, JobFields DEF Jobs
  <2> QED BY <1>b, <2>1, <2>2, TimedQuietStep
<1>7. CASE PlaybackDrains
  <2>1. /\ UNCHANGED <<task, seen, callbacks, state>>
        /\ tc'.timer = tc.timer /\ tc'.streaming = tc.streaming
    BY <1>a, <1>7 DEF PlaybackDrains, Machine, TurnController
  <2> QED BY <2>1, TimedQuietStep
<1> QED BY <1>1, <1>2, <1>3, <1>4, <1>5, <1>6, <1>7 DEF AudioThread, WorkerThread

\* No timer runs at first.
LEMMA TimedInit == Init => Timed
<1> SUFFICES ASSUME Init PROVE Timed
  OBVIOUS
<1>1. ~Has(callbacks, {"noQuestion"}) /\ task.do = "idle"
  BY QueuedShort, JobFields DEF Init, Has
<1> QED BY <1>1 DEF Init, Timed

\* Every step keeps the timers with their capture.
LEMMA TimedNext == IInv /\ Order /\ Timed /\ [Next]_vars => Timed'
<1> SUFFICES ASSUME IInv, Order, Timed, [Next]_vars PROVE Timed'
  OBVIOUS
<1>1. CASE UNCHANGED vars
  BY <1>1, TimedQuietStep DEF vars, IInv
<1>2. CASE Next
  BY <1>2, TimedTakes, TimedRuns, TimedOutside DEF Next, IInv
<1> QED BY <1>1, <1>2

(***************************************************************************)
(* Where an activation begins before the phrase is heard again, no timer   *)
(* of a question outlives its capture but for the cut on its way: it       *)
(* cannot end the next question.  For any number of detections, requests,  *)
(* drops and errors.                                                       *)
(***************************************************************************)
THEOREM TimersAreOfTheCapture == PromptSpec => []TimersOnlyWhileCapturing
<1>1. Init => IInv /\ Order /\ Timed
  BY InitInv, OrderInit, TimedInit
<1>2. IInv /\ Order /\ Timed /\ [PromptNext]_vars => (IInv /\ Order /\ Timed)'
  <2>1. [PromptNext]_vars => [Next]_vars
    BY DEF PromptNext
  <2>2. IInv => TypeOK
    BY DEF IInv
  <2> QED BY <2>1, <2>2, NextInv, OrderNext, TimedNext
<1>3. IInv /\ Order /\ Timed => TimersOnlyWhileCapturing
  BY CutIsPending DEF IInv, Consistent, Timed, TimersOnlyWhileCapturing
<1> QED BY <1>1, <1>2, <1>3, PTL DEF PromptSpec

==============================================================================

----------------------------- MODULE ClassLifecycle ---------------------------
(***************************************************************************)
(* The life of a class (session/controller.py behind the endpoints of      *)
(* api/app.py): prepare, start, pause, resume, stop and recover, the       *)
(* microphone each of them opens or closes, the conversation session that  *)
(* goes with a running class, and the activation timer that Phase 0 uses   *)
(* when there is no conversation.  The actors are                          *)
(*                                                                         *)
(*   - the windows of the interface, each with one request at a time.  An  *)
(*     endpoint starts on the event loop, goes on in a worker thread that  *)
(*     takes the controller's lock, and ends on the loop;                  *)
(*   - the audio thread of the capture, which takes no lock of the         *)
(*     controller: closing the capture waits for its callback to return;   *)
(*   - the threads of the activation timers;                               *)
(*   - the spoken turn, in detail in module Turn, which moves the class    *)
(*     state inside a class and never out of it.                           *)
(***************************************************************************)
EXTENDS Naturals, ClassStates

CONSTANTS
  Windows,        \* the windows of the interface
  Modes,          \* values AppContext.conversation may have
  MaxRequests,    \* bound: requests of all the windows
  MaxDetections   \* bound: detections of the phrase

ASSUME ClassAssumption ==
  Modes \subseteq BOOLEAN /\ {MaxRequests, MaxDetections} \subseteq Nat

VARIABLES
  state,         \* the class state, SessionStateMachine._state
  conversation,  \* AppContext.conversation
  request,       \* for each window, the request it has under way
  active,        \* TurnController.active: the class has its session
  engine,        \* the engine in SessionController._engine, 0 for none
  mics,          \* the engines with an open capture
  ear,           \* where the audio callback is
  timers,        \* the activation timers
  offered,       \* operations that some state so far has offered a button for
  stale,         \* history: what requests have done to a class that had moved on
  spent          \* how much of each bound has been used

vars == <<state, conversation, request, active, engine, mics, ear, timers, offered,
          stale, spent>>

Operations == {"prepare", "start", "pause", "resume", "stop", "recover"}

\* ClassControls.tsx: the states in which the button of an operation is shown
OfferedIn(op) ==
  CASE op = "prepare" -> {"IDLE", "STOPPED"}
    [] op = "start"   -> {"READY"}
    [] op = "pause"   -> MicActive
    [] op = "resume"  -> {"PAUSED"}
    [] op = "stop"    -> MicActive \cup {"PAUSED"}
    [] op = "recover" -> {"ERROR"}

\* _IN_CLASS and PAUSED
Running == MicActive \cup {"PAUSED"}

\* try_dispatch, or dispatch guarded by Can.  A window shows the last snapshot
\* it has fetched.  Messages are dropped, refreshes fail and answers are late,
\* so that it may be any state so far, and its buttons are those of that state.
Move(event) ==
  /\ state' = TryDispatch(state, event)
  /\ offered' = offered \cup {op \in Operations : state' \in OfferedIn(op)}

shown == <<state, offered>>

\* What goes wrong with a request that finds another class than its window
\* shows.  torn: a recover that is refused has closed the microphone;
\* robbed: the session is closed in a class that runs; kept: a prepare out of
\* ERROR leaves the session open.
Stale == {"torn", "robbed", "kept"}

\* TurnController.close
CloseSession ==
  /\ active' = FALSE
  /\ stale' = (stale \ {"kept"}) \cup (IF active /\ state \in Running THEN {"robbed"} ELSE {})

\* The steps made holding SessionController._lock
Inside == {"preparing", "openMic", "announce", "closeMic", "closing"}

\* `closes`: the endpoint closes the session if the controller raises
RequestRecord ==
  [op     : Operations \cup {"none"},
   pc     : {"idle", "asked", "opening", "waiting", "returned", "raised"} \cup Inside,
   closes : BOOLEAN]
NoRequest == [op |-> "none", pc |-> "idle", closes |-> FALSE]

Goto(c, pc) == request' = [request EXCEPT ![c].pc = pc]

LockFree == \A c \in Windows : request[c].pc \notin Inside

\* A worker thread that holds the request of c takes the lock
Locks(c, op) == request[c].op = op /\ request[c].pc = "waiting" /\ LockFree

Answering == {"THINKING", "SPEAKING"}

Init ==
  /\ state = "IDLE"
  /\ conversation \in Modes
  /\ request = [c \in Windows |-> NoRequest]
  /\ active = FALSE
  /\ engine = 0
  /\ mics = {}
  /\ ear = "idle"
  /\ timers = [armed |-> {}, woken |-> {}, due |-> {}, last |-> 0]
  /\ offered = {op \in Operations : "IDLE" \in OfferedIn(op)}
  /\ stale = {}
  /\ spent = [requests |-> 0, detections |-> 0]

(***************************************************************************)
(* The event loop                                                          *)
(***************************************************************************)
\* A button of what the window shows.  It is busy until its request has ended,
\* not until it shows what the request has done.
Press(c, op) ==
  /\ request[c] = NoRequest
  /\ op \in offered
  /\ spent.requests < MaxRequests
  /\ request' = [request EXCEPT ![c] = [op |-> op, pc |-> "asked", closes |-> FALSE]]
  /\ spent' = [spent EXCEPT !.requests = @ + 1]
  /\ UNCHANGED <<shown, conversation, active, engine, mics, ear, timers, stale>>

\* Mutation of Serve: a class started again goes on without a session
ServeOnlyFirst(c) ==
  /\ request[c].pc = "asked"
  /\ LET start  == request[c].op = "start"
         closes == start /\ state # "PAUSED"
         opens  == closes /\ conversation /\ ~active /\ engine = 0
     IN /\ active' = (active \/ opens)
        /\ request' = [request EXCEPT ![c].pc = IF opens THEN "opening" ELSE "waiting",
                                      ![c].closes = closes]
  /\ UNCHANGED <<shown, conversation, engine, mics, ear, timers, stale, spent>>

\* start_class opens the session first, and TurnController.open makes it the
\* current one before it awaits anything; with no key it refuses at once.
Serve(c) ==
  /\ request[c].pc = "asked"
  /\ LET start  == request[c].op = "start"
         closes == start /\ state # "PAUSED"
         opens  == closes /\ conversation /\ ~active
     IN \/ /\ opens
           /\ active' = TRUE
           /\ request' = [request EXCEPT ![c].pc = "opening", ![c].closes = TRUE]
        \/ /\ opens
           /\ request' = [request EXCEPT ![c] = NoRequest]
           /\ UNCHANGED active
        \/ /\ ~opens
           /\ request' = [request EXCEPT ![c].pc = "waiting", ![c].closes = closes]
           /\ UNCHANGED active
  /\ UNCHANGED <<shown, conversation, engine, mics, ear, timers, stale, spent>>

\* session.start: connected or still trying, or refused for good
SessionOpens(c) ==
  /\ request[c].pc = "opening"
  /\ \/ Goto(c, "waiting") /\ UNCHANGED <<active, stale>>
     \/ request' = [request EXCEPT ![c] = NoRequest] /\ CloseSession
  /\ UNCHANGED <<shown, conversation, engine, mics, ear, timers, spent>>

\* Mutation of Answer: the session outlives the class
AnswerOnly(c) ==
  /\ request[c].pc \in {"returned", "raised"}
  /\ request' = [request EXCEPT ![c] = NoRequest]
  /\ IF request[c].pc = "raised" /\ request[c].closes THEN CloseSession
                                                       ELSE UNCHANGED <<active, stale>>
  /\ UNCHANGED <<shown, conversation, engine, mics, ear, timers, spent>>

\* The endpoint goes on: turns.close after stop and recover, and after a
\* start that raised
Answer(c) ==
  /\ request[c].pc \in {"returned", "raised"}
  /\ request' = [request EXCEPT ![c] = NoRequest]
  /\ LET closes == IF request[c].pc = "returned" THEN request[c].op \in {"stop", "recover"}
                                                 ELSE request[c].closes
     IN IF closes THEN CloseSession ELSE UNCHANGED <<active, stale>>
  /\ UNCHANGED <<shown, conversation, engine, mics, ear, timers, spent>>

(***************************************************************************)
(* SessionController, in a worker thread                                   *)
(***************************************************************************)
\* _cancel_activation_timer: too late for a timer that has woken up
TimerCancelled == [timers EXCEPT !.armed = @ \ {timers.last}, !.last = 0]

\* prepare: one dispatch at a time
Prepare(c) ==
  /\ Locks(c, "prepare") \/ request[c].pc = "preparing"
  /\ LET first == request[c].pc = "waiting" IN
     /\ \/ /\ state = "READY"
           /\ Goto(c, "returned") /\ UNCHANGED shown
        \/ /\ first /\ state \in {"STOPPED", "ERROR"}
           /\ Move("RESET") /\ Goto(c, "preparing")
        \/ /\ state = "IDLE"
           /\ Move("CREATE_SESSION") /\ Goto(c, "preparing")
        \/ /\ ~first /\ state = "PREPARING"
           /\ Move("SESSION_PREPARED") /\ Goto(c, "returned")
        \/ /\ first /\ state \in Running \cup {"PREPARING"}
           /\ Goto(c, "raised") /\ UNCHANGED shown
     /\ stale' = IF first /\ state = "ERROR" /\ active THEN stale \cup {"kept"} ELSE stale
  /\ UNCHANGED <<conversation, active, engine, mics, ear, timers, spent>>

\* Mutation of StartClass: nobody asks whether a class can start
StartClassUnchecked(c) ==
  /\ Locks(c, "start")
  /\ engine' = engine + 1 /\ Goto(c, "openMic")
  /\ UNCHANGED <<shown, conversation, active, mics, ear, timers, stale, spent>>

\* start_class up to the microphone.  A paused class is resumed instead; the
\* detector may be unavailable.
StartClass(c) ==
  /\ Locks(c, "start")
  /\ \/ /\ state = "PAUSED"
        /\ request' = [request EXCEPT ![c].op = "resume", ![c].pc = "openMic"]
        /\ UNCHANGED <<shown, engine, stale>>
     \/ /\ state # "PAUSED" /\ ~Can(state, "START_CLASS")
        /\ Goto(c, "raised") /\ UNCHANGED <<shown, engine, stale>>
     \/ /\ Can(state, "START_CLASS")
        /\ Move("FAIL") /\ Goto(c, "raised") /\ UNCHANGED <<engine, stale>>
     \/ /\ Can(state, "START_CLASS")
        /\ engine' = engine + 1 /\ Goto(c, "openMic") /\ UNCHANGED shown
        /\ stale' = stale \ {"robbed"}
  /\ UNCHANGED <<conversation, active, mics, ear, timers, spent>>

Resume(c) ==
  /\ Locks(c, "resume")
  /\ Goto(c, IF state = "PAUSED" /\ engine # 0 THEN "openMic" ELSE "raised")
  /\ UNCHANGED <<shown, conversation, active, engine, mics, ear, timers, stale, spent>>

\* Mutation of OpenMic: a microphone that does not open is not noticed
OpenMicUnnoticed(c) ==
  /\ request[c].pc = "openMic"
  /\ \/ mics' = mics \cup {engine}
     \/ engine \notin mics /\ UNCHANGED mics
  /\ Goto(c, "announce")
  /\ stale' = stale \ {"torn"}
  /\ UNCHANGED <<shown, conversation, active, engine, ear, timers, spent>>

\* WakeWordListener.start.  A start that fails is torn down.
OpenMic(c) ==
  /\ request[c].pc = "openMic"
  /\ \/ /\ mics' = mics \cup {engine}
        /\ Goto(c, "announce")
        /\ stale' = stale \ {"torn"}
        /\ UNCHANGED <<shown, timers>>
     \/ /\ engine \notin mics
        /\ Move("FAIL")
        /\ timers' = IF request[c].op = "start" THEN TimerCancelled ELSE timers
        /\ Goto(c, "raised")
        /\ UNCHANGED <<mics, stale>>
  /\ UNCHANGED <<conversation, active, engine, ear, spent>>

\* Only now may the state say that the microphone is open
Announce(c) ==
  /\ request[c].pc = "announce"
  /\ LET event == IF request[c].op = "start" THEN "START_CLASS" ELSE "RESUME"
     IN /\ Move(event)
        /\ Goto(c, IF Can(state, event) THEN "returned" ELSE "raised")
  /\ UNCHANGED <<conversation, active, engine, mics, ear, timers, stale, spent>>

\* Mutation of Pause: the microphone is left open
PauseListening(c) ==
  /\ Locks(c, "pause")
  /\ Move("PAUSE")
  /\ Goto(c, IF Can(state, "PAUSE") THEN "returned" ELSE "raised")
  /\ UNCHANGED <<conversation, active, engine, mics, ear, timers, stale, spent>>

Pause(c) ==
  /\ Locks(c, "pause")
  /\ Move("PAUSE")
  /\ Goto(c, IF Can(state, "PAUSE") THEN "closeMic" ELSE "raised")
  /\ UNCHANGED <<conversation, active, engine, mics, ear, timers, stale, spent>>

\* The rest of pause, and _teardown of stop and recover: from here on no
\* frame is delivered, but the callback may still be running
CloseMic(c) ==
  /\ request[c].pc = "closeMic" \/ Locks(c, "stop") \/ Locks(c, "recover")
  /\ timers' = TimerCancelled
  /\ mics' = mics \ {engine}
  /\ Goto(c, "closing")
  /\ UNCHANGED <<shown, conversation, active, engine, ear, stale, spent>>

\* Mutation of MicClosed: the stream is not waited for
MicClosedAtOnce(c) ==
  /\ request[c].pc = "closing"
  /\ LET event == IF request[c].op = "stop" THEN "STOP" ELSE "RECOVER" IN
     IF request[c].op = "pause"
     THEN Goto(c, "returned") /\ UNCHANGED shown
     ELSE Move(event) /\ Goto(c, "returned")
  /\ UNCHANGED <<conversation, active, engine, mics, ear, timers, stale, spent>>

\* The stream closes when its callback has returned.  stop moves the machine
\* if it can; recover raises if it cannot.
MicClosed(c) ==
  /\ request[c].pc = "closing"
  /\ ear = "idle"
  /\ \/ /\ request[c].op = "pause"
        /\ Goto(c, "returned") /\ UNCHANGED <<shown, stale>>
     \/ /\ request[c].op = "stop"
        /\ Move("STOP") /\ Goto(c, "returned") /\ UNCHANGED stale
     \/ /\ request[c].op = "recover" /\ Can(state, "RECOVER")
        /\ Move("RECOVER") /\ Goto(c, "returned") /\ UNCHANGED stale
     \/ /\ request[c].op = "recover" /\ ~Can(state, "RECOVER")
        /\ stale' = stale \cup {"torn"} /\ Goto(c, "raised") /\ UNCHANGED shown
  /\ UNCHANGED <<conversation, active, engine, mics, ear, timers, spent>>

(***************************************************************************)
(* The audio thread: one callback at a time                                *)
(***************************************************************************)
Hearing == <<conversation, request, active, engine, mics, stale>>

FrameArrives ==
  /\ ear = "idle" /\ mics # {}
  /\ ear' = "frame"
  /\ UNCHANGED <<Hearing, shown, timers, spent>>

\* No detection in the frame, or the echo guard drops it
NothingHeard ==
  /\ ear = "frame"
  /\ ear' = "idle"
  /\ UNCHANGED <<Hearing, shown, timers, spent>>

\* _handle_detection reads the state
PhraseHeard ==
  /\ ear = "frame"
  /\ spent.detections < MaxDetections
  /\ ear' = IF state \in Answering THEN "over" ELSE "wake"
  /\ spent' = [spent EXCEPT !.detections = @ + 1]
  /\ UNCHANGED <<Hearing, shown, timers>>

\* Mutation of WakeUp: an interruption is waited for like an activation
WakeUpAlwaysNotifies ==
  /\ ear \in {"over", "wake"}
  /\ Move("WAKE_WORD_DETECTED")
  /\ ear' = IF ~Can(state, "WAKE_WORD_DETECTED") THEN "idle"
            ELSE IF ear = "wake" THEN "notify" ELSE "notifyCut"
  /\ UNCHANGED <<Hearing, timers, spent>>

\* _handle_detection dispatches; only a wake-up it saw coming is notified
WakeUp ==
  /\ ear \in {"over", "wake"}
  /\ Move("WAKE_WORD_DETECTED")
  /\ ear' = IF ear = "wake" /\ Can(state, "WAKE_WORD_DETECTED") THEN "notify" ELSE "idle"
  /\ UNCHANGED <<Hearing, timers, spent>>

\* Mutations of NotifyDetection: the lock of the controller is taken, the new
\* timer is cancelled with the old one
NotifyDetectionLocked ==
  /\ ear = "notify" /\ LockFree
  /\ ear' = "idle"
  /\ UNCHANGED <<Hearing, shown, timers, spent>>
NotifyDetectionUntimed ==
  /\ ear = "notify"
  /\ timers' = IF active THEN timers ELSE TimerCancelled
  /\ ear' = "idle"
  /\ UNCHANGED <<Hearing, shown, spent>>

\* _notify_detection: the turn takes over or, without one, a timer is set
NotifyDetection ==
  /\ ear = "notify"
  /\ timers' = IF active THEN timers
               ELSE [TimerCancelled EXCEPT !.armed = @ \cup {spent.detections},
                                           !.last = spent.detections]
  /\ ear' = "idle"
  /\ UNCHANGED <<Hearing, shown, spent>>

(***************************************************************************)
(* The activation timers, each a thread.  Between waking up, forgetting    *)
(* the timer and moving the machine anything may happen.                   *)
(***************************************************************************)
Ticking == <<Hearing, ear, spent>>

TimerWakes ==
  \E t \in timers.armed :
    /\ timers' = [timers EXCEPT !.armed = @ \ {t}, !.woken = @ \cup {t}]
    /\ UNCHANGED <<Ticking, shown>>

TimerForgotten ==
  \E t \in timers.woken :
    /\ timers' = [timers EXCEPT !.woken = @ \ {t}, !.due = @ \cup {t}, !.last = 0]
    /\ UNCHANGED <<Ticking, shown>>

ExpireActivation ==
  \E t \in timers.due :
    /\ timers' = [timers EXCEPT !.due = @ \ {t}]
    /\ Move("ACTIVATION_EXPIRED")
    /\ UNCHANGED Ticking

(***************************************************************************)
(* What the turn and the stop button of an answer do to the state          *)
(***************************************************************************)
TurnEvents ==
  {"CAPTURE_STARTED", "REQUEST_CAPTURED", "RESPONSE_STARTED", "RESPONSE_FINISHED",
   "TURN_FAILED", "ACTIVATION_EXPIRED", "INTERRUPT", "INTERRUPTION_HANDLED"}

TurnMoves ==
  /\ conversation
  /\ \E e \in TurnEvents \cup (IF state = "INTERRUPTED" THEN {"WAKE_WORD_DETECTED"} ELSE {}) :
       Can(state, e) /\ Move(e)
  /\ UNCHANGED <<Ticking, timers>>

-----------------------------------------------------------------------------
Controller(c) ==
  \/ Prepare(c) \/ StartClass(c) \/ Resume(c) \/ OpenMic(c) \/ Announce(c)
  \/ Pause(c) \/ CloseMic(c) \/ MicClosed(c)

Endpoint(c) == Serve(c) \/ SessionOpens(c) \/ Controller(c) \/ Answer(c)

AudioCallback == NothingHeard \/ PhraseHeard \/ WakeUp \/ NotifyDetection

Timers == TimerWakes \/ TimerForgotten \/ ExpireActivation

Next ==
  \/ \E c \in Windows : Endpoint(c) \/ \E op \in Operations : Press(c, op)
  \/ FrameArrives \/ AudioCallback \/ Timers \/ TurnMoves

Spec == Init /\ [][Next]_vars

\* Threads and callbacks go on; nobody has to press a button or to speak.
Fairness ==
  /\ \A c \in Windows : WF_vars(Endpoint(c))
  /\ WF_vars(AudioCallback)
  /\ WF_vars(Timers)

FairSpec == Spec /\ Fairness

-----------------------------------------------------------------------------
\* Every variable has its type.
TypeOK ==
  /\ state \in State
  /\ conversation \in BOOLEAN
  /\ request \in [Windows -> RequestRecord]
  /\ active \in BOOLEAN
  /\ engine \in Nat
  /\ mics \in SUBSET Nat
  /\ ear \in {"idle", "frame", "over", "wake", "notify"}
  /\ timers \in [armed : SUBSET Nat, woken : SUBSET Nat, due : SUBSET Nat, last : Nat]
  /\ offered \in SUBSET Operations
  /\ stale \in SUBSET Stale
  /\ spent \in [requests : Nat, detections : Nat]

\* Spec section 19: when no operation of the controller is half way, an open
\* microphone is one the state shows as open.
OpenMicIsAnnounced == LockFree /\ mics # {} => state \in MicActive

\* At most one microphone is open, the one of the engine the controller still
\* holds: none is left open behind an engine nobody can close.
OneMicrophone == mics \subseteq {engine}

\* Once the operation that closed the microphone is over, no audio callback
\* is still running: nothing is heard after pause or stop has returned.
ClosedMicIsQuiet == LockFree /\ mics = {} => ear = "idle"

\* Every request is answered: closing the capture waits for the callback with
\* the controller's lock held, so the callback must never wait for that lock.
RequestsAreAnswered ==
  \A c \in Windows : request[c] # NoRequest ~> request[c] = NoRequest

\* Without a session an activation ends by itself (the Phase 0 timer), however
\* pause, resume, stop and the timers of earlier activations cross with it.
\* Only a refused recover, which cancels the timer too, leaves it there.
ActivationEnds ==
  state = "ACTIVATED" /\ ~conversation ~> state # "ACTIVATED" \/ "torn" \in stale

\* All the windows have their answers
Quiet == \A c \in Windows : request[c] = NoRequest

\* The other half of spec section 19: the state never shows as open a
\* microphone that is closed (session/state.py, module doc).
IndicatorIsHonest == LockFree /\ state \in MicActive => mics # {}

\* What holds of it: only a refused recover closes the microphone of a class
\* that goes on, and it is open again when a start or a resume has succeeded.
SilentOnlyWhenTorn == "torn" \notin stale => IndicatorIsHonest

\* With the conversation on, a class that runs has its session.
ClassHasItsSession ==
  Quiet /\ conversation /\ state \in Running => active

\* What holds of it for one window: only the end of a start that found the
\* class running takes its session away.
LosesSessionOnlyRobbed == "robbed" \notin stale => ClassHasItsSession

\* A class that is over, or has not started, keeps no session open, but for
\* the one that a prepare out of ERROR leaves there.
NoSessionWithoutClass ==
  Quiet /\ active /\ "kept" \notin stale => state \in Running \cup {"ERROR"}
==============================================================================

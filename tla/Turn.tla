-------------------------------- MODULE Turn ---------------------------------
(***************************************************************************)
(* The spoken turn of a running class (session/turn.py): from "Oye Chat"   *)
(* to the end of the answer, and every way of cutting it.  Four actors     *)
(* share the class state:                                                  *)
(*                                                                         *)
(*   - the event loop, which runs one callback at a time.  A callback      *)
(*     reads the class state first (`seen`) and acts on what it read, so   *)
(*     taking it and running it are two steps;                             *)
(*   - the audio thread, which judges a detection of the phrase against    *)
(*     the state, silences the answer, moves the machine and hands over    *)
(*     the activation, in four steps (audio/listener.py);                  *)
(*   - a worker thread, which runs the endpoints that block: pause,        *)
(*     resume and stop (session/controller.py, api/app.py);                *)
(*   - the Realtime server, which hears what is streamed and answers       *)
(*     through a FIFO of events (external; realtime/events.py).            *)
(*                                                                         *)
(* A turn is named by its number, and so are its response and its events:  *)
(* the code cannot see that number, only a response id it has been told.   *)
(***************************************************************************)
EXTENDS Naturals, Sequences, ClassStates

CONSTANTS
  MaxDetections,  \* bound: detections of the phrase
  MaxRequests,    \* bound: requests of the teacher
  MaxDrops,       \* bound: connections lost
  MaxErrors,      \* bound: errors the server reports on its own
  MaxPieces,      \* bound: pieces of audio in an answer
  MaxInbox        \* bound: events in flight before the server says more

ASSUME BoundsAssumption ==
  {MaxDetections, MaxRequests, MaxDrops, MaxErrors, MaxPieces, MaxInbox} \subseteq Nat

VARIABLES
  state,      \* the class state, SessionStateMachine._state
  tc,         \* the fields of TurnController
  callbacks,  \* FIFO of callbacks handed to the loop with call_soon
  untold,     \* cuts a thread owes: it moved the machine, and tells next
  inbox,      \* FIFO of events the server has sent and the loop not read
  task,       \* the callback the loop is running
  seen,       \* the class state that callback read
  ear,        \* where the audio thread is in _handle_detection
  mic,        \* whether capture is open
  pool,       \* what the worker thread is doing
  link,       \* the session: "ready", "lost" or "closed"
  server,     \* what the Realtime server knows
  turns,      \* turns begun so far, which numbers them
  spent       \* how much of each bound has been used

vars == <<state, tc, callbacks, untold, inbox, task, seen, ear, mic, pool, link,
          server, turns, spent>>

audio == <<ear, mic>>

(***************************************************************************)
(* Records                                                                 *)
(***************************************************************************)

Requests == {"pause", "resume", "stop", "stopAnswer"}

ServerEvents ==
  {"speechStarted", "speechStopped", "transcript", "created", "audio",
   "done", "failed", "error"}

\* Events that carry a response_id, the ones _is_stale judges
AnswerEvents == {"created", "audio", "done", "failed"}

Jobs == ServerEvents \cup
  {"idle", "begin", "cut", "request", "close", "noQuestion", "tooLong",
   "watch", "lost", "restored"}

\* `why` is the event that queued a cut, or what a request asks for
Job ==
  {j \in [do : Jobs, why : Event \cup Requests \cup {""}, turn : Nat] :
     j.do = "request" => j.why \in Requests}
ServerMessage == [do : ServerEvents, why : {""}, turn : Nat]

Call(do, why) == [do |-> do, why |-> why, turn |-> 0]
Message(type, k) == [do |-> type, why |-> "", turn |-> k]
Idle == Call("idle", "")

\* A stream that is "playing" or "draining" (finish() was called) sounds; a
\* "silent" one has played out or was stopped, and is still referenced.
TurnController ==
  [current    : Nat,          \* 0 when `current` is None
   question   : BOOLEAN,      \* record.question is not empty
   streaming  : BOOLEAN,
   timer      : {"none", "noQuestion", "tooLong"},
   stream     : {"none", "playing", "draining", "silent"},
   watcher    : BOOLEAN,
   responseId : Nat,          \* 0 when `_response_id` is None
   cancelled  : SUBSET Nat]   \* _cancelled_responses

Server ==
  [speech : BOOLEAN,          \* the VAD hears speech in the input buffer
   heard  : Nat,              \* the last turn it heard speech in
   answer : Nat,              \* the turn it is answering, 0 for none
   said   : 0 .. MaxPieces,   \* pieces of audio it has sent of that answer
   owed   : SUBSET Nat]       \* questions whose transcript is still to come

FreshServer == [speech |-> FALSE, heard |-> turns, answer |-> 0, said |-> 0,
                owed |-> {}]

Sounding == tc.stream \in {"playing", "draining"}

\* engine.stop_playback as the stream sees it
Silenced(t) ==
  [t EXCEPT !.stream = IF @ \in {"playing", "draining"} THEN "silent" ELSE @]

\* Mutation of Dropped: the stream is let go without being stopped
DroppedStillSounding(t) ==
  [t EXCEPT !.current = 0, !.question = FALSE, !.streaming = FALSE,
            !.timer = "none", !.watcher = FALSE, !.responseId = 0,
            !.cancelled = @ \cup ({t.responseId} \ {0})]

\* What _abort_turn and _on_turn_cut both do to the fields: stop streaming,
\* stop the playback and its watcher, cancel the timers, remember the
\* response as cancelled and close the record.
Dropped(t) ==
  [t EXCEPT !.current = 0, !.question = FALSE, !.streaming = FALSE,
            !.timer = "none", !.stream = "none", !.watcher = FALSE,
            !.responseId = 0,
            !.cancelled = @ \cup ({t.responseId} \ {0})]

\* Mutation of Recorded: the record is closed and not let go
RecordedNotReleased(t) == [t EXCEPT !.question = FALSE]

\* _finish_record
Recorded(t) == [t EXCEPT !.current = 0, !.question = FALSE]

\* Mutations of QuestionEnded: the capture goes on, a timer goes on, a timer
\* is left in no known state
QuestionEndedStreaming(t) == [t EXCEPT !.timer = "none"]
QuestionEndedTimed(t) == [t EXCEPT !.streaming = FALSE]
QuestionEndedUntyped(t) == [t EXCEPT !.streaming = FALSE, !.timer = "cancelled"]

\* _end_question
QuestionEnded(t) == [t EXCEPT !.streaming = FALSE, !.timer = "none"]

\* What the server does with response.cancel: an answer under way ends as
\* "cancelled"; with none, its error is one _HARMLESS_ERRORS ignores.
Cancelled(sv) == [sv EXCEPT !.answer = 0, !.said = 0]
CancelReply(sv) ==
  IF sv.answer # 0 THEN <<Message("failed", sv.answer)>> ELSE <<>>

\* What the server does with input_audio_buffer.clear
Cleared(sv) == [sv EXCEPT !.speech = FALSE]

(***************************************************************************)
(* _on_transition: PAUSED, STOPPED, ERROR and INTERRUPTED put a cut in the *)
(* loop's queue, from whichever thread moved the machine.  dispatch tells  *)
(* its listeners after it has released the lock of the machine, so on the  *)
(* other threads the move and the cut are two steps.                       *)
(***************************************************************************)
\* Mutation of CutTargets: an interruption cuts nothing
CutTargetsWithoutInterrupted == {"PAUSED", "STOPPED", "ERROR"}

CutTargets == {"PAUSED", "STOPPED", "ERROR", "INTERRUPTED"}

CutBy(e) ==
  IF link # "closed" /\ Can(state, e) /\ TryDispatch(state, e) \in CutTargets
  THEN {e} ELSE {}

(***************************************************************************)
(* A step of another actor that neither moves the machine nor depends on   *)
(* the callback the loop has taken gives the same states before the taking *)
(* as after it, so it is only considered then.                             *)
(***************************************************************************)
BetweenCallbacks == task = Idle

\* A dispatch made on another thread: the move, and the cut it will queue
Owes(by) == \E c \in untold : c.by = by

DispatchFromThread(by, e) ==
  /\ state' = TryDispatch(state, e)
  /\ untold' = untold \cup {[by |-> by, why |-> c] : c \in CutBy(e)}

Init ==
  /\ state = "PASSIVE_LISTENING"
  /\ tc = [current |-> 0, question |-> FALSE, streaming |-> FALSE,
           timer |-> "none", stream |-> "none", watcher |-> FALSE,
           responseId |-> 0, cancelled |-> {}]
  /\ callbacks = <<>>
  /\ untold = {}
  /\ inbox = <<>>
  /\ task = Idle
  /\ seen = "IDLE"
  /\ ear = "idle"
  /\ mic = TRUE
  /\ pool = "none"
  /\ link \in {"ready", "lost"}   \* a class starts without a network too
  /\ turns = 0
  /\ server = FreshServer
  /\ spent = [detections |-> 0, requests |-> 0, drops |-> 0, errors |-> 0]

(***************************************************************************)
(* The event loop takes the next thing to run, and reads the state.        *)
(***************************************************************************)
Take(job) ==
  /\ task = Idle
  /\ task' = job
  /\ seen' = state

TakeCallback ==
  /\ callbacks # <<>>
  /\ Take(Head(callbacks))
  /\ callbacks' = Tail(callbacks)
  /\ UNCHANGED <<state, tc, untold, inbox, audio, pool, link, server, turns, spent>>

TakeEvent ==
  /\ inbox # <<>>
  /\ Take(Head(inbox))
  /\ inbox' = Tail(inbox)
  /\ UNCHANGED <<state, tc, callbacks, untold, audio, pool, link, server, turns, spent>>

\* loop.call_later: a timer that fires is no longer armed
TakeTimer ==
  /\ tc.timer # "none"
  /\ Take(Call(tc.timer, ""))
  /\ tc' = [tc EXCEPT !.timer = "none"]
  /\ UNCHANGED <<state, callbacks, untold, inbox, audio, pool, link, server, turns,
                 spent>>

\* The watcher polls until the stream is no longer active
TakeWatch ==
  /\ tc.watcher
  /\ ~Sounding
  /\ Take(Call("watch", ""))
  /\ UNCHANGED <<state, tc, callbacks, untold, inbox, audio, pool, link, server,
                 turns, spent>>

\* The supervisor notices a dropped connection, or opens the next one
TakeConnectionChange ==
  /\ \/ link = "ready" /\ spent.drops < MaxDrops /\ Take(Call("lost", ""))
     \/ link = "lost" /\ Take(Call("restored", ""))
  /\ UNCHANGED <<state, tc, callbacks, untold, inbox, audio, pool, link, server,
                 turns, spent>>

\* The end of every callback
Done == task' = Idle /\ seen' = "IDLE"

(***************************************************************************)
(* _begin_turn.  OpenTurn is its body after the check on the state; s, t   *)
(* and sv are the state, the fields and the server it starts from.         *)
(***************************************************************************)
NewTurn(t) ==
  [t EXCEPT !.current = turns + 1, !.question = FALSE, !.responseId = 0,
            !.streaming = TRUE, !.timer = "noQuestion"]

OpenTurn(s, t, sv) ==
  IF link # "ready"
  THEN /\ state' = TryDispatch(s, "TURN_FAILED")
       /\ tc' = t /\ server' = sv /\ turns' = turns
  ELSE /\ state' = TryDispatch(s, "CAPTURE_STARTED")
       /\ tc' = NewTurn(t) /\ server' = Cleared(sv) /\ turns' = turns + 1

BeginTurn ==
  /\ task.do = "begin"
  /\ IF seen = "ACTIVATED"
     THEN OpenTurn(state, tc, server)
     ELSE UNCHANGED <<state, tc, server, turns>>
  /\ Done
  /\ UNCHANGED <<callbacks, untold, inbox, audio, pool, link, spent>>

(***************************************************************************)
(* _on_turn_cut.  The tail looks at the state as it is by then.            *)
(***************************************************************************)
TurnCut ==
  /\ task.do = "cut"
  /\ LET busy == tc.current # 0 \/ tc.stream # "none" \/ tc.streaming
         t    == IF busy THEN Dropped(tc) ELSE tc
         sv   == IF busy THEN Cancelled(server) ELSE server
         attend == state = "INTERRUPTED" /\ task.why \in {"WAKE_WORD_DETECTED", "INTERRUPT"}
     IN /\ inbox' = IF busy THEN inbox \o CancelReply(server) ELSE inbox
        /\ \/ /\ ~attend
              /\ tc' = t /\ server' = sv /\ UNCHANGED <<state, turns>>
           \/ /\ attend /\ task.why = "WAKE_WORD_DETECTED"
              /\ OpenTurn(TryDispatch(state, "WAKE_WORD_DETECTED"), t, sv)
           \/ /\ attend /\ task.why = "INTERRUPT"
              /\ state' = TryDispatch(state, "INTERRUPTION_HANDLED")
              /\ tc' = t /\ server' = sv /\ UNCHANGED turns
  /\ Done
  /\ UNCHANGED <<callbacks, untold, audio, pool, link, spent>>

(***************************************************************************)
(* Timers of the question                                                  *)
(***************************************************************************)
NoQuestion ==
  /\ task.do = "noQuestion"
  /\ IF seen = "CAPTURING_REQUEST" /\ ~(tc.current # 0 /\ tc.question)
     THEN /\ tc' = Recorded([tc EXCEPT !.streaming = FALSE])
          /\ server' = Cleared(server)
          /\ state' = TryDispatch(state, "ACTIVATION_EXPIRED")
     ELSE UNCHANGED <<state, tc, server>>
  /\ Done
  /\ UNCHANGED <<callbacks, untold, inbox, audio, pool, link, turns, spent>>

\* commit_audio and create_response: with no speech in the buffer, because
\* the server ended the question by itself meanwhile, both are errors.
QuestionTooLong ==
  /\ task.do = "tooLong"
  /\ IF seen = "CAPTURING_REQUEST"
     THEN /\ tc' = QuestionEnded(tc)
          /\ state' = TryDispatch(state, "REQUEST_CAPTURED")
          /\ IF server.speech /\ server.answer = 0
             THEN /\ server' = [server EXCEPT !.speech = FALSE, !.answer = turns,
                                              !.owed = @ \cup {turns}]
                  /\ inbox' = Append(inbox, Message("created", turns))
             ELSE /\ inbox' = inbox \o <<Message("error", turns), Message("error", turns)>>
                  /\ UNCHANGED server
     ELSE UNCHANGED <<state, tc, server, inbox>>
  /\ Done
  /\ UNCHANGED <<callbacks, untold, audio, pool, link, turns, spent>>

(***************************************************************************)
(* _on_event, one action per kind of event                                 *)
(***************************************************************************)
\* Mutation of IsStale: the cancelled responses are forgotten
IsStaleById(job) ==
  /\ job.do \in AnswerEvents
  /\ tc.responseId # 0 /\ job.turn # tc.responseId

IsStale(job) ==
  /\ job.do \in AnswerEvents
  /\ \/ job.turn \in tc.cancelled
     \/ tc.responseId # 0 /\ job.turn # tc.responseId

\* _TURN_STATES
TurnStates == {"ACTIVATED", "CAPTURING_REQUEST", "THINKING", "SPEAKING"}
Answering == {"THINKING", "SPEAKING"}

\* _abort_turn with a reason
AbortTurn ==
  /\ tc' = Dropped(tc)
  /\ server' = Cancelled(server)
  /\ inbox' = inbox \o CancelReply(server)
  /\ state' = TryDispatch(state, "TURN_FAILED")

Handling(type) ==
  /\ task.do = type
  /\ Done
  /\ UNCHANGED <<callbacks, untold, audio, pool, link, turns, spent>>

\* Nothing to do: stale, or not for the state or the record there is
Ignored(type) ==
  LET idle == tc.current = 0 IN
  \/ IsStale(task)
  \/ type \in {"speechStarted", "speechStopped"} /\ seen # "CAPTURING_REQUEST"
  \/ type \in {"transcript", "created", "audio", "done", "failed"} /\ idle
  \/ type \in {"created", "audio"} /\ seen \notin Answering
  \/ type = "error" /\ seen \notin TurnStates

IgnoreEvent ==
  \E type \in ServerEvents :
    /\ Handling(type)
    /\ Ignored(type)
    /\ UNCHANGED <<state, tc, server, inbox>>

SpeechStarted ==
  /\ Handling("speechStarted")
  /\ ~Ignored("speechStarted")
  /\ tc' = [tc EXCEPT !.timer = "tooLong"]
  /\ UNCHANGED <<state, server, inbox>>

SpeechStopped ==
  /\ Handling("speechStopped")
  /\ ~Ignored("speechStopped")
  /\ tc' = QuestionEnded(tc)
  /\ state' = TryDispatch(state, "REQUEST_CAPTURED")
  /\ UNCHANGED <<server, inbox>>

\* The words may turn out to be none
InputTranscript ==
  /\ Handling("transcript")
  /\ ~Ignored("transcript")
  /\ \E heard \in BOOLEAN : tc' = [tc EXCEPT !.question = heard]
  /\ UNCHANGED <<state, server, inbox>>

ResponseStarted ==
  /\ Handling("created")
  /\ ~Ignored("created")
  /\ tc' = [tc EXCEPT !.responseId = task.turn]
  /\ UNCHANGED <<state, server, inbox>>

\* The first piece opens the stream, which may fail; the others are fed to it
AudioDelta ==
  /\ Handling("audio")
  /\ ~Ignored("audio")
  /\ \/ /\ tc.stream = "none"
        /\ tc' = [tc EXCEPT !.stream = "playing"]
        /\ state' = TryDispatch(state, "RESPONSE_STARTED")
        /\ UNCHANGED <<server, inbox>>
     \/ tc.stream = "none" /\ AbortTurn
     \/ tc.stream # "none" /\ UNCHANGED <<state, tc, server, inbox>>

\* Mutation of ResponseDone: nobody watches the stream play out
ResponseDoneUnwatched ==
  /\ Handling("done")
  /\ ~Ignored("done")
  /\ IF tc.stream = "none"
     THEN /\ tc' = Recorded(tc)
          /\ state' = TryDispatch(state, "RESPONSE_FINISHED")
     ELSE /\ tc' = [tc EXCEPT !.stream = IF @ = "playing" THEN "draining" ELSE @]
          /\ UNCHANGED state
  /\ UNCHANGED <<server, inbox>>

ResponseDone ==
  /\ Handling("done")
  /\ ~Ignored("done")
  /\ IF tc.stream = "none"
     THEN /\ tc' = Recorded(tc)
          /\ state' = TryDispatch(state, "RESPONSE_FINISHED")
     ELSE /\ tc' = [tc EXCEPT !.watcher = TRUE,
                              !.stream = IF @ = "playing" THEN "draining" ELSE @]
          /\ UNCHANGED state
  /\ UNCHANGED <<server, inbox>>

\* response.done with another status: "cancelled", "incomplete" or "failed"
ResponseFailed ==
  /\ Handling("failed")
  /\ ~Ignored("failed")
  /\ AbortTurn

ErrorReported ==
  /\ Handling("error")
  /\ ~Ignored("error")
  /\ AbortTurn

\* ConnectionChanged: what the server had sent and not delivered is lost
ConnectionLost ==
  /\ task.do = "lost"
  /\ link' = "lost"
  /\ server' = FreshServer
  /\ inbox' = <<>>
  /\ spent' = [spent EXCEPT !.drops = @ + 1]
  /\ IF seen \in TurnStates /\ tc.current # 0
     THEN tc' = Dropped(tc) /\ state' = TryDispatch(state, "TURN_FAILED")
     ELSE UNCHANGED <<tc, state>>
  /\ Done
  /\ UNCHANGED <<callbacks, untold, audio, pool, turns>>

ConnectionRestored ==
  /\ task.do = "restored"
  /\ link' = "ready"
  /\ Done
  /\ UNCHANGED <<state, tc, callbacks, untold, inbox, audio, pool, server, turns,
                 spent>>

\* _watch_playback once the stream has gone quiet
AnswerPlayed ==
  /\ task.do = "watch"
  /\ IF seen = "SPEAKING"
     THEN /\ tc' = Recorded([tc EXCEPT !.stream = "none", !.watcher = FALSE])
          /\ state' = TryDispatch(state, "RESPONSE_FINISHED")
     ELSE tc' = [tc EXCEPT !.watcher = FALSE] /\ UNCHANGED state
  /\ Done
  /\ UNCHANGED <<callbacks, untold, inbox, audio, pool, link, server, turns, spent>>

(***************************************************************************)
(* The audio thread: WakeWordListener._handle_detection                    *)
(***************************************************************************)
Loop == <<tc, inbox, task, seen, pool, link, server, turns>>
Machine == <<state, callbacks, untold>>

\* The detector fires; the state is read once, here
Hear ==
  /\ BetweenCallbacks
  /\ mic /\ ear = "idle" /\ ~Owes("audio")
  /\ spent.detections < MaxDetections
  /\ ear' = IF state \in Answering THEN "silence" ELSE "wake"
  /\ spent' = [spent EXCEPT !.detections = @ + 1]
  /\ UNCHANGED <<Loop, Machine, mic>>

\* engine.stop_playback, before the machine is moved
SilenceAnswer ==
  /\ BetweenCallbacks
  /\ ear = "silence"
  /\ tc' = Silenced(tc)
  /\ ear' = "interrupt"
  /\ UNCHANGED <<Machine, inbox, task, seen, mic, pool, link, server, turns, spent>>

\* Over an answer the phrase does not call on_detection: the cut is to go on
InterruptAnswer ==
  /\ ear = "interrupt"
  /\ DispatchFromThread("audio", "WAKE_WORD_DETECTED")
  /\ ear' = "idle"
  /\ UNCHANGED <<Loop, callbacks, mic, spent>>

WakeUp ==
  /\ ear = "wake"
  /\ DispatchFromThread("audio", "WAKE_WORD_DETECTED")
  /\ ear' = IF Can(state, "WAKE_WORD_DETECTED") THEN "notify" ELSE "idle"
  /\ UNCHANGED <<Loop, callbacks, mic, spent>>

\* on_detection, _notify_detection, _on_activation: the loop is told
NotifyActivation ==
  /\ BetweenCallbacks
  /\ ear = "notify" /\ ~Owes("audio")
  /\ callbacks' = Append(callbacks, Call("begin", ""))
  /\ ear' = "idle"
  /\ UNCHANGED <<Loop, state, untold, mic, spent>>

(***************************************************************************)
(* dispatch calls the listeners: the thread queues the cut it owes.  What  *)
(* it does next waits for that (~Owes above and below).                    *)
(***************************************************************************)
Tell ==
  /\ BetweenCallbacks
  /\ \E c \in untold :
       /\ callbacks' = Append(callbacks, Call("cut", c.why))
       /\ untold' = untold \ {c}
  /\ UNCHANGED <<Loop, state, audio, spent>>

(***************************************************************************)
(* The teacher's requests: the endpoint runs on the loop, and all but the  *)
(* stop button of an answer go on in the worker thread.                    *)
(***************************************************************************)
Asked == {i \in DOMAIN callbacks : callbacks[i].do \in {"request", "close"}}

\* One request at a time: the interface waits for the answer
Request(what) ==
  /\ link # "closed" /\ pool = "none" /\ Asked = {} /\ ~Owes("worker")
  /\ BetweenCallbacks
  /\ spent.requests < MaxRequests
  /\ callbacks' = Append(callbacks, Call("request", what))
  /\ spent' = [spent EXCEPT !.requests = @ + 1]
  /\ UNCHANGED <<Loop, state, untold, audio>>

\* stop_answer, and the start of pause_class, resume_class and stop_class
ServeRequest ==
  /\ task.do = "request"
  /\ IF task.why = "stopAnswer"
     THEN /\ IF seen \in Answering
             THEN /\ tc' = Silenced(tc)
                  /\ state' = TryDispatch(state, "INTERRUPT")
                  /\ callbacks' = IF CutBy("INTERRUPT") = {} THEN callbacks
                                  ELSE Append(callbacks, Call("cut", "INTERRUPT"))
             ELSE UNCHANGED <<tc, state, callbacks>>
          /\ UNCHANGED pool
     ELSE pool' = task.why /\ UNCHANGED <<tc, state, callbacks>>
  /\ Done
  /\ UNCHANGED <<untold, inbox, audio, link, server, turns, spent>>

Worker == <<inbox, task, seen, link, server, turns, spent>>

\* SessionController.pause: the state first, then the microphone
Pause ==
  /\ pool = "pause"
  /\ DispatchFromThread("worker", "PAUSE")
  /\ pool' = IF Can(state, "PAUSE") THEN "closeMic" ELSE "none"
  /\ UNCHANGED <<Worker, tc, callbacks, audio>>

\* Closing the capture waits for the audio callback to return
PauseMic ==
  /\ pool = "closeMic" /\ ear = "idle" /\ untold = {}
  /\ mic' = FALSE
  /\ pool' = "none"
  /\ UNCHANGED <<Worker, Machine, tc, ear>>

\* SessionController.resume: the microphone first; it may not open
Resume ==
  /\ pool = "resume"
  /\ pool' = "none"
  /\ \/ state = "PAUSED" /\ mic' = TRUE /\ DispatchFromThread("worker", "RESUME")
     \/ state = "PAUSED" /\ UNCHANGED mic /\ DispatchFromThread("worker", "FAIL")
     \/ state # "PAUSED" /\ UNCHANGED <<mic, state, untold>>
  /\ UNCHANGED <<Worker, tc, callbacks, ear>>

\* SessionController.stop: _teardown, and only then the state
StopMic ==
  /\ pool = "stop" /\ ear = "idle" /\ untold = {}
  /\ mic' = FALSE
  /\ tc' = Silenced(tc)
  /\ pool' = "stopping"
  /\ UNCHANGED <<Worker, Machine, ear>>

Stop ==
  /\ pool = "stopping"
  /\ DispatchFromThread("worker", "STOP")
  /\ pool' = "leave"
  /\ UNCHANGED <<Worker, tc, callbacks, audio>>

\* The endpoint goes on in the loop, with turns.close
Leave ==
  /\ BetweenCallbacks
  /\ pool = "leave" /\ ~Owes("worker")
  /\ callbacks' = Append(callbacks, Call("close", ""))
  /\ pool' = "none"
  /\ UNCHANGED <<Worker, state, untold, tc, audio>>

\* TurnController.close: abort without a reason, and leave the session
Close ==
  /\ task.do = "close"
  /\ tc' = Dropped(tc)
  /\ link' = "closed"
  /\ inbox' = <<>>
  /\ server' = FreshServer
  /\ Done
  /\ UNCHANGED <<Machine, audio, pool, turns, spent>>

(***************************************************************************)
(* The output device and the Realtime server (external)                    *)
(***************************************************************************)
PlaybackDrains ==
  /\ BetweenCallbacks
  /\ tc.stream = "draining"
  /\ tc' = [tc EXCEPT !.stream = "silent"]
  /\ UNCHANGED <<Machine, inbox, task, seen, audio, pool, link, server,
                 turns, spent>>

Client == <<Machine, tc, task, seen, audio, pool, link, turns>>
ServerTurn == BetweenCallbacks /\ Len(inbox) < MaxInbox

ServerHearsSpeech ==
  /\ ServerTurn
  /\ link = "ready" /\ tc.streaming /\ ~server.speech
  /\ server.heard < turns   \* bound: one utterance in a turn
  /\ server' = [server EXCEPT !.speech = TRUE, !.heard = turns]
  /\ inbox' = Append(inbox, Message("speechStarted", turns))
  /\ UNCHANGED <<Client, spent>>

\* Silence ends the question: it is committed and, unless another answer is
\* under way (interrupt_response is off), answered
ServerHearsSilence ==
  /\ ServerTurn
  /\ link = "ready" /\ tc.streaming /\ server.speech
  /\ server' = [server EXCEPT !.speech = FALSE, !.owed = @ \cup {turns},
                              !.answer = IF @ = 0 THEN turns ELSE @]
  /\ inbox' = inbox \o <<Message("speechStopped", turns),
                         IF server.answer = 0 THEN Message("created", turns)
                                              ELSE Message("error", turns)>>
  /\ UNCHANGED <<Client, spent>>

\* The transcription runs beside the answer and comes when it comes
ServerTranscribes ==
  /\ ServerTurn
  /\ \E k \in server.owed :
    /\ server' = [server EXCEPT !.owed = @ \ {k}]
    /\ inbox' = Append(inbox, Message("transcript", k))
    /\ UNCHANGED <<Client, spent>>

ServerSpeaks ==
  /\ ServerTurn
  /\ server.answer # 0
  /\ server.said < MaxPieces
  /\ server' = [server EXCEPT !.said = @ + 1]
  /\ inbox' = Append(inbox, Message("audio", server.answer))
  /\ UNCHANGED <<Client, spent>>

ServerFinishes ==
  /\ ServerTurn
  /\ server.answer # 0
  /\ \E outcome \in {"done", "failed"} :
       inbox' = Append(inbox, Message(outcome, server.answer))
  /\ server' = Cancelled(server)
  /\ UNCHANGED <<Client, spent>>

ServerErrs ==
  /\ ServerTurn
  /\ link = "ready" /\ spent.errors < MaxErrors
  /\ inbox' = Append(inbox, Message("error", turns))
  /\ spent' = [spent EXCEPT !.errors = @ + 1]
  /\ UNCHANGED <<Client, server>>

-----------------------------------------------------------------------------
LoopTakes ==
  TakeCallback \/ TakeEvent \/ TakeTimer \/ TakeWatch \/ TakeConnectionChange

LoopRuns ==
  \/ BeginTurn \/ TurnCut \/ NoQuestion \/ QuestionTooLong
  \/ IgnoreEvent \/ SpeechStarted \/ SpeechStopped \/ InputTranscript
  \/ ResponseStarted \/ AudioDelta \/ ResponseDone \/ ResponseFailed
  \/ ErrorReported \/ ConnectionLost \/ ConnectionRestored \/ AnswerPlayed
  \/ ServeRequest \/ Close

AudioThread ==
  SilenceAnswer \/ InterruptAnswer \/ WakeUp \/ NotifyActivation

WorkerThread == Pause \/ PauseMic \/ Resume \/ StopMic \/ Stop \/ Leave

ServerActs ==
  \/ ServerHearsSpeech \/ ServerHearsSilence \/ ServerTranscribes
  \/ ServerSpeaks \/ ServerFinishes \/ ServerErrs

Next ==
  \/ LoopTakes \/ LoopRuns
  \/ Hear \/ AudioThread \/ Tell
  \/ \E what \in Requests : Request(what)
  \/ WorkerThread
  \/ PlaybackDrains \/ ServerActs

Spec == Init /\ [][Next]_vars

\* The loop, the two threads and the device keep running, timers fire, and
\* the server finishes what it answers.  Nobody has to speak, and neither the
\* teacher, the phrase nor the network does anything by obligation.
Fairness ==
  /\ WF_vars(TakeCallback) /\ WF_vars(TakeEvent) /\ WF_vars(TakeTimer)
  /\ WF_vars(TakeWatch) /\ WF_vars(LoopRuns)
  /\ WF_vars(AudioThread) /\ WF_vars(WorkerThread) /\ WF_vars(Tell)
  /\ WF_vars(PlaybackDrains) /\ WF_vars(ServerFinishes)

FairSpec == Spec /\ Fairness

(***************************************************************************)
(* An activation the loop has been handed and has not begun.  The detector *)
(* is deaf for its refractory window after a detection (2 s by default,    *)
(* audio/wakeword.py), far longer than a callback waits in the loop's      *)
(* queue, so an activation normally begins before the phrase can be heard  *)
(* again.  Spec does not assume it; PromptSpec does.                       *)
(***************************************************************************)
ActivationPending ==
  task.do = "begin" \/ \E i \in DOMAIN callbacks : callbacks[i].do = "begin"

PromptNext == Next /\ (Hear => ~ActivationPending)

PromptSpec == Init /\ [][PromptNext]_vars

-----------------------------------------------------------------------------
(***************************************************************************)
(* Properties                                                              *)
(***************************************************************************)

\* Every variable has its type.
TypeOK ==
  /\ state \in State
  /\ tc \in TurnController
  /\ callbacks \in Seq(Job)
  /\ untold \in SUBSET [by : {"audio", "worker"}, why : Event]
  /\ inbox \in Seq(ServerMessage)
  /\ task \in Job
  /\ seen \in State
  /\ ear \in {"idle", "silence", "interrupt", "wake", "notify"}
  /\ mic \in BOOLEAN
  /\ pool \in {"none", "pause", "closeMic", "resume", "stop", "stopping", "leave"}
  /\ link \in {"ready", "lost", "closed"}
  /\ server \in Server
  /\ turns \in Nat
  /\ spent \in [detections : Nat, requests : Nat, drops : Nat, errors : Nat]

\* A cut has been queued, or is about to be, and has not run yet.
CutPending ==
  \/ task.do = "cut"
  \/ untold # {}
  \/ \E i \in DOMAIN callbacks : callbacks[i].do = "cut"

\* Privacy (module doc of session/turn.py): frames leave the machine only
\* while the class is capturing a question, or until the cut that whoever
\* ended the capture queues.
StreamsOnlyWhileCapturing ==
  tc.streaming => state = "CAPTURING_REQUEST" \/ CutPending

\* A timer of the question outlives the capture no longer than that cut
\* either, so no timer of one question can end the next one.  This is of
\* PromptSpec: _on_turn_cut cancels no timer when nothing else is open, and
\* without the refractory window four detections lead there.
TimersOnlyWhileCapturing ==
  tc.timer # "none" => state = "CAPTURING_REQUEST" \/ CutPending

\* An answer sounds only while the state says SPEAKING, or until that
\* cut: nothing goes on playing behind another state.
SoundsOnlyWhileSpeaking ==
  Sounding => state = "SPEAKING" \/ CutPending

\* INTERRUPTED has no timer: the cut that leaves it is always on its way,
\* whichever thread interrupted and whatever ran in between.
InterruptionIsAttended ==
  state = "INTERRUPTED" =>
    \/ task.do = "cut" /\ task.why \in {"WAKE_WORD_DETECTED", "INTERRUPT"}
    \/ \E c \in untold : c.why = "WAKE_WORD_DETECTED"
    \/ \E i \in DOMAIN callbacks :
         /\ callbacks[i].do = "cut"
         /\ callbacks[i].why \in {"WAKE_WORD_DETECTED", "INTERRUPT"}

\* When the class is back to listening the turn's record is closed and its
\* stream let go, so no question stays "en curso" forever.
ListeningHasNoOpenTurn ==
  state = "PASSIVE_LISTENING" =>
    (tc.current = 0 /\ tc.stream = "none") \/ CutPending

\* Running an event of an answer
RunsAnswerEvent == task.do \in AnswerEvents /\ task' = Idle

\* Once a response is known to be cancelled, nothing it still sends moves the
\* class, the record or the speaker.
CancelledAnswerIsIgnored ==
  [][RunsAnswerEvent /\ task.turn \in tc.cancelled => UNCHANGED <<state, tc>>]_vars

\* An interruption is always handled: INTERRUPTED is left.
InterruptionEnds == state = "INTERRUPTED" ~> state # "INTERRUPTED"

\* An answer that started to sound ends: played out, cut or failed.
AnswerEnds == state = "SPEAKING" ~> state # "SPEAKING"

\* ACTIVATED has no timer either in a conversation: the activation that led
\* to it must be on its way to _begin_turn.  The comment on the table says
\* that ACTIVATED has a way out besides pause and stop; the code does not keep
\* it when an answer ends between judging a detection and dispatching it.
ActivatedIsAttended ==
  state = "ACTIVATED" =>
    \/ ear = "notify"
    \/ task.do = "begin"
    \/ \E i \in DOMAIN callbacks : callbacks[i].do = "begin"

\* What an answer sends is never taken for the answer of another turn, as the
\* comment on _response_id says.
AnswerBelongsToItsTurn ==
  [][RunsAnswerEvent /\ task.turn # tc.current => UNCHANGED <<state, tc>>]_vars

\* A capture ends by itself: with a question, or without one when its time is
\* over.
CaptureEnds == state = "CAPTURING_REQUEST" ~> state # "CAPTURING_REQUEST"
==============================================================================

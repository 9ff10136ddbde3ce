# A verification of AI Classroom Live

AI Classroom Live is a classroom assistant: a Python backend (FastAPI on one
asyncio event loop, PortAudio threads, worker threads), a React interface and a
Tauri shell. A teacher starts a class; the backend listens locally for a wake
phrase ("Oye Chat"), streams the question that follows to a Realtime API or to a
local server, and plays the answer. This directory holds TLA+ modules of its
core logic, TLC configurations that check them, and proofs that TLAPS checks.

Paths below are relative to `src/backend/src/aiclassroom/`.

## Inventory of the system

| Component | State it keeps | Operations | Hard part |
|---|---|---|---|
| session state machine (`session/state.py`) | the class state, listeners, history | `can`, `dispatch`, `try_dispatch`, `subscribe` | listeners run after the lock is released |
| spoken turn (`session/turn.py`) | the record, streaming flag, timers, playback stream, watcher, response id, cancelled responses | activation, event handlers, timers, cut, open, close | everything interleaves with everything |
| wake-word listener (`audio/listener.py`) | capture, statistics | start, stop, frame handling | judges a state, then moves it |
| controller (`session/controller.py`) | engine, listener, activation timer | prepare, start, pause, resume, stop, recover | a lock held while a stream closes |
| endpoints (`api/app.py`) | `AppContext`, event queues | one per button | state read before an await |
| audio engine, playback (`audio/engine.py`, `audio/playback.py`) | input stream, output stream, buffer | open, close, feed, finish, stop, read | three threads on one buffer |
| Realtime session (`realtime/session.py`, `client.py`, `events.py`) | connection, supervisor, `_in_turn`, loss event | start, stop, renew, reconnect, send | renewal against a turn, stop against a handshake |
| local session (`realtime/local.py`) | frames, gate, answer task, history | the same surface as the Realtime session | cancelled task against late events |
| probe (`realtime/probe.py`) and voice training (`voice/session.py`) | task, takes, training thread | start, cancel; record, train, accept | share the microphone with the class |
| wake-word detector (`audio/wakeword.py`) | score window, refractory period | `process`, `reset` | numeric thresholds |
| interface (`frontend/src`) | snapshot, busy flag | the buttons, the event socket | refreshes out of order |
| settings, secrets, diagnostics, shell | files, processes | load, save, run | I/O |

Interactions. The audio thread calls the listener, which moves the machine and
hands an activation to the loop with `call_soon_threadsafe`. The machine tells
the turn of PAUSED, STOPPED, ERROR and INTERRUPTED the same way. Endpoints start
on the loop, go on in a worker thread under the controller's lock, and end on
the loop. Closing the capture waits for the audio callback. The session delivers
server events on the loop.

What makes each part correct: the indicator never disagrees with the microphone
(spec section 19, quoted in `session/state.py`); frames leave the machine only
while a question is captured (`session/turn.py`, module doc); every turn ends;
a cut silences and is attended; what a cancelled answer still sends is ignored;
a class has a session exactly as long as it runs; no request waits forever. The
hazards, each at its line, with the property that covers it or the reason none
does, are listed in `PROJECT.json`.

## Modules

| Module | What it is |
|---|---|
| `ClassStates` | the state machine: states, events, table, `Can`, `TryDispatch` |
| `Turn` | the spoken turn of a running class with its four actors |
| `ClassLifecycle` | the class from IDLE to STOPPED: windows, controller, microphone, session, activation timers |
| `SessionLink` | what a class's session promises its listeners, without saying how |
| `RealtimeSession` | the supervisor, the sockets and their readers, the turn's calls and `stop()`; implements `SessionLink` |
| `Playback` | the buffer between the turn and the sound device |
| `LocalAnswer` | a question and its answer on the teacher's own server, with `Playback` and the turn |
| `ConversationProbe` | the conversation test: task, session events, microphone, loudspeakers |
| `VoiceTraining` (`VoiceData`) | takes, the training thread, pending and installed models (and the decisions about data it makes) |
| `SettingsStore` | the API key on disk, and the passphrase and cipher in memory |
| `EventHub` | how a window follows the class: hub, queue, socket, snapshots |
| `WakeWord` | frames, detector, echo guard, and the count of activations of the training |
| `Diagnostics` | the checks of the computer and the report a class may start on |
| `Application` | composes the six parts above, with the class that shares their microphone |
| `...Proofs` | theorems about the module in the name |

`Turn` and `ClassLifecycle` both move their class state with `ClassStates`. They
are two views of the same class: `ClassLifecycle` keeps of the turn only its
dispatches (`TurnMoves`), `Turn` keeps of the controller only what a running
class can ask of it (pause, resume, stop). `RealtimeSession` and `LocalAnswer`
are the two sessions a turn can use; each keeps of the turn the calls it makes
and what it does with an event.

### `Turn` and `session/turn.py`

- `tc` is the `TurnController` object. The numbers of turns stand for response
  ids; the code never sees them except through `responseId` and `cancelled`,
  which it fills from `response.created`.
- One callback of the loop is two steps: `Take...` picks it and reads the class
  state into `seen`, as the first line of `_on_event`, `_begin_turn` and the
  timers do; the action named after the handler does the rest, all of it. Other
  threads move the machine in between.
- `BetweenCallbacks` guards the steps of other actors that neither move the
  machine nor depend on the callback taken: such a step commutes with the taking,
  so the order in which it comes second is the only one considered. Steps that
  move the machine carry no such guard.
- `untold` holds a dispatch made on a thread whose listeners have not been called
  yet: `dispatch` calls them after it has released the lock. `Tell` calls them.
- The worker thread (`pool`) runs pause, resume and stop. The audio thread
  (`ear`) runs `_handle_detection` in the order of its statements.
- The server is external: voice activity, transcription beside the answer,
  cancel, clear, errors, in a FIFO that a lost connection empties.

Abstracted: the words of questions and answers (a question is empty or not), the
pre-roll, truncation, usage, reasons, publishing.

### `ClassLifecycle` and `session/controller.py`, `api/app.py`

- `request[c]` is the request a window has under way, with its place in the
  endpoint or the controller; places in `Inside` hold the controller's lock.
- `Press` sends a request for a button of what the window shows, which may be any
  state so far (`offered`): `control` in `App.tsx` frees the buttons when a request
  returns, while the snapshot it calls for is fetched later, and its message may be
  dropped, its request fail or an older answer come last (module `EventHub`).
- `stale` is a history of what requests have done to a class that had moved on:
  `torn`, a recover that was refused closed the microphone; `robbed`, the session
  was closed in a class that runs; `kept`, a prepare out of ERROR left it open.
- `active` is `TurnController.active`; it becomes true before the session's start
  is awaited and false as soon as `close` is called.
- An engine is a number: `start_class` makes a new one. `mics` is the set of
  engines with an open capture.
- `ear` is the audio callback; `MicClosed` waits for it, with the lock held.
- `timers` keeps each activation timer through being armed, woken, and past the
  point where `_expire_activation` has forgotten the current timer.

### `RealtimeSession`, `SessionLink` and `realtime/session.py`

- `run` is the await in which the coroutine that opens connections is suspended,
  `by` whose it is: `start()` of a class, of a probe, or the supervisor's task.
  Between two awaits nothing else of the loop runs, so `_open` is a step up to its
  first await, one per await, and one to its end.
- `socket[c]` tells a connection the network has closed (`"cut"`) from one whose
  reader has got to that end, because `_lost` is set by the reader. `wire[c]` is
  the FIFO of events nobody has read yet, so a replaced connection can still be
  heard until it has closed.
- `inTurn` is `_in_turn`. `append_audio` sets it from the audio thread (`Frame`),
  every `response.done` clears it, also that of an answer cut long before.
- `stop` does not cancel the `start` of a class, which nobody holds; `abandoned`
  remembers it, and nothing is promised about the session from then on.
- `SessionLink` sees `state` (or "abandoned"), `serving` and the connection whose
  event was delivered last. `Link == INSTANCE SessionLink WITH status <- ...` is
  the refinement; `LinkSpec` is checked by TLC and proved.
- A question that is too long is committed after its longest time; no event is in
  flight for that long. A socket that is closed is used again for a later
  connection.

### `Playback`, `LocalAnswer` and `audio/playback.py`, `realtime/local.py`

- `speaker` is a stream and its `PlaybackBuffer`. Samples are counted. `Read` is
  the device's callback: prebuffer, whole or partial block, silence on an
  underrun, `done` after the last one.
- `tasks[q]` is the task of the answer to question `q`: transcription, the model's
  sentences, their speech, and its end by completion, failure or cancellation.
  `loop` holds the callbacks queued with `call_soon_threadsafe`, in order: the
  end of a question, a cut, a status. Events that the task emits itself reach the
  turn within the task's step, as `_emit` does.
- `_answer`, `_response_id` and `_spoken` are one variable each, shared by one
  answer and the next as they are in the code.
- `BeginTurn` is `_begin_turn` with `clear_audio` and the pre-roll, which goes
  through `append_audio` as live frames do: it may hold nothing, speech, or speech
  and the silence that ends the question, since `config/settings.py` allows a
  pre-roll of 2000 ms and a silence of 300 ms.
- `TaskOver` is the `finally` of `_respond`, which opens the question whoever closed
  it. `reopened` marks that it did so to a question whose end was queued: that
  question ends twice. A sentence is one piece of sound.
- `crossed` marks the other race the properties except: a cut between the moment the
  audio thread decides that the question is over and the callback that takes the
  question. `_question_ended` asks only whether the session is ready, so a
  question nobody waits for is answered.

### `Application` and the modules it composes

- `Application` has the endpoints that open and close the class's microphone as
  steps of their own (`door`), because `start_class` asks about the microphone and
  then awaits, and `resume_class` asks nobody.
- `ConversationProbe`: one step per await of `_run`; events of the session between
  them; `checking` is `start` between its check and its task.
- `VoiceTraining`: the session's lock is held for one step; recording and training
  happen outside it. A take is the number of the training it was asked for, a
  model the phrase it was trained on, `pending` and `installed` are the folders
  by file name. `TakeEnds` accepts a recording with `AnalyseSpeech` and `Analyse`
  of `VoiceData`, over every sequence of levels in the bounds.
- `SettingsStore`: a token is told by what opens it. `UnlockTries` and `UnlockSets`
  are the two halves of `unlock`, which runs in a thread.
- `EventHub`: the class is the number of its moves, a message a move or a text, a
  snapshot the number of moves it was taken after. `Show` puts whatever arrives
  last on the screen. `RefreshFails` is the `catch` of `refresh`: what it was asked
  for is gone. `OnItsWay` is everything that still brings the window the class as it
  is or makes it ask; `lost` is set by a drop or a failure that leaves nothing of it.
- `WakeWord`: `Block` cuts what the device delivers into frames, `HearFrame` runs
  the detector (`Observed`), the echo guard and, beside them, the training's count
  (`CountedAlso`) on the same score. `TreatedApart` names the frames the two treat
  differently on purpose.
- `Diagnostics`: a trouble is one way in which a check's question can be answered.
  Each check maps the troubles present at its await to its result, `Ends` skips
  the rest.
- `Restart` is the application killed and started again: files stay, memory goes.

Histories (`crossed`, `reopened`, `stale`, `late`, `overdue`, `renamed`, `unsaved`, `overtaken`, `lost`,
`apart`, `outdated`) mark, each, one crossing that the code does not prevent and
that its property names as the exception. They are written, and read by no action but
to go on with them. A property with such an exception does not catch the crossing it
names; it says that nothing else leads to what the crossing leads to.

## Runs

| Run | Question | Bounds | Result |
|---|---|---|---|
| `turn_safety` | do streaming, sound, timers and the record agree with the class state, or is a cut on its way? | 2 detections, 2 requests, 1 drop, 1 server error, 2 pieces of audio, 2 events in flight | holds, about 8.5 million states |
| `turn_liveness` | do interruptions and answers end? | 2 detections, 1 request, 1 drop, 1 piece | holds |
| `turn_activated` | is every activation attended? | 2 detections | violated |
| `turn_crossed` | can an answer act on another turn? | 2 detections, 1 request | violated |
| `turn_capture` | does every capture end? | 2 detections | violated |
| `class_windows` | with two windows: microphone and state agree both ways, one microphone, no session without a class, every request is answered | 5 requests, 2 detections, with and without conversation | holds, about 580 000 states |
| `class_window` | with one window: a running class keeps its session, activations end | 8 requests, 3 detections | holds, about 830 000 states |
| `class_recover` | the honest indicator with two windows, no exception | 6 requests | violated |
| `class_session` | the session of a running class with one window, no exception | 6 requests | violated |
| `realtime_session` | is every loss noticed, is a live answer kept through renewals, does the session come back, does it implement `SessionLink`? | 2 sockets, 2 questions, 2 lost connections, 2 renewals, 1 failed attempt, 3 events in flight | holds, about 290 000 states |
| `local_answer` | is the answer that sounds this turn's, heard whole, remembered in order, and does it end? | 2 turns, answers of 2 sentences, 1 failure (service or device), pieces of up to 2 samples, blocks of 2, prebuffer of 3; at most 4 questions ended (`MaxQuestions`) | holds, about 1.15 million states |
| `application` | microphone, test, takes, models, key, window, detector and report | 1 restart; 2 phrases, 2 trainings, recordings of 5 frames; 2 passphrases; 3 moves, 2 texts, queues of 2, 1 close; 9 frames; 2 troubles, 1 change | holds, about 1.5 million states |

Deadlock is not checked: a class that was stopped, or whose bounded requests are
used up, really has nothing more to do.

Why the bounds are enough. Two detections give an interruption and the turn after
it, and every crossing found involves two turns. Two requests give pause and
resume, or a stop after the stop button. One lost connection reaches every point
of a turn. Two pieces of audio tell the one that opens the stream from one that
feeds it. Two windows give every race between two requests; five requests are
enough for prepare, start and three more, and eight with one window for a class
that is stopped and started again with a failure in it. One window is enough for
`robbed`, because a window may show any state so far. The proofs below do not
depend on any of these.

One bound of `turn_safety` does matter. `TimersOnlyWhileCapturing` holds there, and
with three detections and one request, but with four it is false: an activation can
wait in the loop's queue while the phrase is heard twice more; it then opens a turn
in front of an earlier cut, the cut stops the stream and leaves CAPTURING_REQUEST,
and a pause after that finds nothing streaming, so `_on_turn_cut`
(`session/turn.py:441`) cancels no timer. What excludes it is time: after a detection
the detector is deaf for its refractory window (`_ScoreTracker.observe`; 2 s by
default), and a callback waits for the loop a small part of that. `PromptSpec`
assumes it, and it alone: an activation that the loop has been handed begins before
the phrase is heard again. Under it the property holds with four detections (one
request, one event in flight, no losses: 3.9 million states) and is proved for any
number. No other property needs it and no other theorem assumes it.

For the session: two sockets are what it can hold (the serving one and the one
that replaces it), and two losses, two renewals and a failed attempt put a loss
before, inside and after the replacement of a connection, with a question or an
answer under way. For the local answer: a second turn is what a late event of the
first can disturb, the second sentence what a cut between two leaves out, and a
prebuffer of 3 with pieces and blocks of up to 2 has answers shorter than the
prebuffer, underruns and a partial last block. In `application` a take slot, two
phrases and two trainings give a take, a model or a phrase of the wrong training;
a queue of 2 overflows with the 5 messages there are.

The parts in `application` share no state but the microphone and the takes, so a
behaviour exercises one group of them (`Groups`): "microphone" is the class, the
test and a take together, "training" a take and the trainings, and the key, the
windows, the detector and the diagnostics are one each. `Restart` belongs to all
but the windows, which end with the application, and the detector, which a new
engine starts where `StartListening` leaves it. The product of the groups adds
interleavings, not behaviours of a part.

Fairness. The loop keeps running callbacks, timers fire, threads go on once they
have something to do, the device plays what it was given: weak fairness of each.
`ServerFinishes` is fair because the liveness of an answer is the server's to
give; nothing is assumed of speech, of the teacher or of the network. In
`ClassLifecycle` the endpoint of each window is fair by itself: it is a thread
that waits for a lock, and the lock's holder always ends. In `RealtimeSession` the
coroutine and the readers go on; attempts fail a bounded number of times, so weak
fairness of `Attempt` says that the network comes back sometime, which is what
`_reconnect`'s endless retries count on. In `LocalAnswer` each request of an answer
ends, because httpx has a timeout for each. `Application` states no fairness and
checks safety only.

## What the violated runs show

1. `turn_activated`: `_handle_detection` judges a detection against the state it
   read and then dispatches. If the answer ends in between, the dispatch moves
   PASSIVE_LISTENING to ACTIVATED, and that branch does not call `on_detection`:
   nobody begins a turn and no timer is set.
2. `turn_crossed`: a cut in THINKING before `response.created` was read has no id
   to remember, so the rest of that answer is taken for the next turn's.
3. `turn_capture`: a transcript is written to the current record whatever
   question it belongs to; a late one makes `_no_question` return, and no other
   timer is armed.
4. `class_recover`: `recover` closes the microphone before it knows whether
   RECOVER applies; a second window's late request closes a running class's.
5. `class_session`: a start that the controller refuses closes the session, which
   an earlier start opened for the class that runs. One window is enough: prepare,
   start, and start again while the window still shows READY.

## Where the code's own words do not hold

Beside the violated runs, these were met while modelling. Each is an exception
that a property names; without it TLC finds the behaviour.

- `api/app.py:110-112` says of the microphone's users that "each refuses while the
  class or the other one holds it". `start_class` asks and then awaits, and
  `resume_class` does not ask: a class paused, a test begun and the class resumed
  are two users (`OneMicrophoneUser`).
- `voice/training.py:552` says the count of activations "mirrors the detector". The
  detector has a refractory period and can fire again within one run of frames;
  the count does not (`CountMirrorsDetector`, `TreatedApart`).
- `voice/training.py:219` says that balancing leaves negatives that are "never the
  minority"; with fewer than two negatives it returns both sets as they came
  (assumption of `BalanceKeepsNegatives`).
- `realtime/local.py:728` keeps "only what was heard of a cut answer". An answer
  that was whole and still playing has been remembered whole, and the cut adds
  what was heard of it after that (`HistoryInOrder` allows it).
- `realtime/local.py:658` opens the question for the next turn when a task ends. A
  task that was cut can end after the next turn has begun and its pre-roll has
  closed the question: the question ends twice and has two answers. They are spoken
  and remembered at once, only the later one is in `_answer` for a cut to cancel, and
  the other may go on into the next turn (`reopened` in `HistoryInOrder` and
  `AnswerIsToItsTurn`; TLC finds the last part with three turns).
- `session/controller.py:225`: the recover that is refused also cancels the
  activation timer, so that a class without conversation stays in ACTIVATED (`torn`
  in `ActivationEnds`).
- `session/controller.py:146`: `prepare` leaves ERROR as `recover` does, without
  closing the session; it stays open until the next class stops (`kept` in
  `NoSessionWithoutClass`).
- `lib/useBackend.ts:59` leaves recovery from a failed refresh to the socket's
  reconnection. While the socket stays open nothing asks again: the window keeps
  the old state, marked as not connected, until the class moves (`lost` in
  `WindowIsTold`).
- `realtime/session.py` renews between turns, and takes a turn to end with
  `response.done`: an answer that has arrived whole and is still playing does not
  put a renewal off, and the change of connection cuts it. `LiveAnswerIsKept` is
  about answers that are still arriving.
- `realtime/probe.py:209`: a piece of the answer that comes while the session
  closes moves a test that is over back to ANSWERING (`ProbeSettles`).
- `voice/session.py:193` writes a take without asking again whether its training
  has begun, and `:229` names the model's file from the phrase of the settings when
  the thread starts (`TakesGoWithTraining`, `ModelIsForItsPhrase`).
- `config/store.py:71` sets a cipher tried before another key was saved, and
  `set_api_key` changes the cipher before the write that can fail
  (`UnlockedKeyIsRead`).
- `diagnostics`: a handshake that the service refuses for now is only a warning, and
  an issuer that is not public hides the certificate's date (`Hidden`).

## Proofs

`ClassStatesProofs` has one lemma per event: the states it leaves, and where to.
The others cite these, so no proof expands the table.

`TurnProofs` proves, for all bounds: `TypeCorrect`, `StreamingIsCapturing`,
`SoundingIsSpeaking`, `InterruptionAttended`, `ListeningIsClean` and
`CancelledIsIgnored`. None of these invariants is inductive alone, because the
fields of the controller disagree with the class state from the moment a thread
moves it until the cut runs. `IInv` says exactly when: either the fields agree
(`Consistent`), or a cut is running, queued or owed; and besides

- `InClass`: the class is running, paused, stopped or in ERROR;
- `ClosingMeansOver`: once stop has moved the machine, only `close` is left;
- `SeenStillHolds`: where a callback acts on the state it read, that state still
  holds or a cut is on its way;
- an interrupted class has a cut on its way whose event will end the interruption.

`TimersAreOfTheCapture` is a theorem of `PromptSpec`. It needs, beside `IInv`, the
order in which activations, cuts and requests wait for the loop (`Order`: one
request of the teacher at a time; no cut behind a turn at work, one at most behind a
class that listens or has been activated, and no activation in front of it; and no
cut left for the class that a pause is resumed to) and, resting on it, `Timed`: a capture
streams, and so does whatever has a timer.

There is one lemma per group of actions (loop, threads, outside), with a step per
action; `LoopStep` and `ThreadStep` reduce each to what it does to the fields.

`ClassLifecycleProofs` proves, for any set of windows and whatever they show:
`TypeCorrect`, `MicAnnounced`, `MicShownIsOpen`, `SingleMicrophone`, `ClosedIsQuiet`
and `NoSessionLeft`; and `OneWindowHasSession` for a single window (`OneWindow`, its
hypothesis: with two, a stop that is still closing the session takes it away from
the class another window has started meanwhile, which is `robbed` too, but a start
can also find the session of that stop still there and go on without one).
Its `IInv` has mutual
exclusion of the controller's lock, what the holder knows at each of its steps
(`Midway`: nobody else leaves READY, PAUSED, IDLE or PREPARING meanwhile, and the
microphone is open or closed as the step requires), and that state, microphone
and callback agree whenever the lock is free.

`RealtimeSessionProofs` proves, for any set of sockets and any bounds,
`SessionTypeCorrect`, `NoLossForgotten` and the refinement `SessionImplementsLink`
(`Spec => LinkSpec`). The invariant, `LinkInv`, is needed because what the
listeners were told, where the coroutine is and which sockets are open are kept in
three places:

- `RunFitsState`: the await the coroutine is in, for what the listeners were told;
- `RunFitsOwner`: only the supervisor waits or retries, and not once `stop` ran;
- `SocketsFit`: only the serving connection and the one being closed are open, they
  differ, and a session that is ready closes none, so that whatever is read
  then comes from the serving connection;
- `LossKnownEarlier`: from the moment a connection takes over, not only once the
  supervisor watches it, it is open, or its end is yet to be read, or the loss is set.

The mapping: `Start` is `Begin`; the end of a handshake `TakeOver`; the end of `_open`
`Ready`; a failed attempt `Lose`, `Fail` or invisible; a loss or a renewal `Lose`;
`stop` is `Abandon`, `Close` or, with a connection to close, invisible until
`Stopped`; an event read is `Hear`; the rest is invisible.

`AnswerAlwaysInTurn` and `LiveAnswerAlwaysKept` need what every server has still to
say. `AnswerInv` adds to `LinkInv`:

- `Fit`, of the serving connection's wire: events come turn by turn, each answer is
  to the turn it names and starts once, and from the start of an answer on the mark
  `inTurn` is set or what sets it is yet to be read;
- `TurnRests`, `WiresRest`: no turn is under way while the session is not ready, and a
  connection that has just taken over has nothing to say of an earlier one;
- `LossIsReal`: when the supervisor finds the loss set, the serving connection is not
  open, so a live one is never replaced for it.

TLC checked it first, also beyond the bounds of the run (four turns, wires of
seven). `LiveAnswerIsKept` is a property of steps: of the ones that dial again,
`ReplaceLost` has a lost connection by `LossIsReal`, and `Renew` a turn that is over
by `AnswerIsInTurn`.

`LocalAnswerProofs` first proves `SpeakerTypeCorrect` and `AnswerHeardWhole` of the
speaker fed and read in any order: what was fed is queued or consumed until it is
stopped, and a stream is done by itself only with an empty queue. Then, of the
whole answer and for any number of turns and sentences, `AnswerTypeCorrect`,
`LocalAnswerHeardWhole`, `QuestionAlwaysHeard`, `AnswerOfItsTurn` and
`HistoryAlwaysInOrder`. One invariant, `AnswerInv`, carries them all, because they
rest on each other. Always: the cut and the turn that follows it wait on the loop
once and in this order (`CallsFit`), what the turn holds fits where it is
(`TurnFits`), and a question that takes no more audio has its end on the loop
(`QuestionFits`). Unless a cut crossed the end of a question or a task reopened one:
at most one answer can still come, it is to the question of this turn, and none can
while the end of the question is queued (`AnswerFits`); and the last thing said is
the question that is being answered or the answer that sounds (`HistoryFits`).

`WakeWordProofs` proves `CountMirrors`: detector and count agree in what they have
counted and in the run of frames they are in (`Together`), outside the cases
`TreatedApart` names. `VoiceTrainingProofs` has the invariant of the takes
(`TakesFresh`: no take kept is older than the last training that dropped them) and
of the models (`ModelsNamed`), and three theorems of arithmetic about data:
`TakeHoldsItsSpeech`, `PositiveWindowsEndByThePhrase`, `BalanceKeepsNegatives`.

`ApplicationProofs` puts them together. Its invariant is one conjunct per part
(`SettingsInv`, `HubInv`, `ProbeInv`, `VoiceInv`, `WakeInv`, `DiagnosticsInv`) and
`MicInv` for what they share: who holds the microphone while nobody has crossed a
check, with `DiagnosticsFits` and `RestFits` for the types the others leave out.
Every property of `application` is a theorem: `WindowTold`
rests on a move being on its way, at every station between the machine and the
screen, until the newest snapshot has it; `UnlockedKeyRead` on the cipher
following the passphrase; `ReportTrue` on each result kept being what its check
says of troubles that have not changed since.

The proofs assume the named assumptions on the constants: bounds are natural
numbers, modes are Booleans, `None` is not one of the values it stands beside, and
sizes that divide are not zero.

Every invariant and every property of steps that a passing run checks is a theorem.
Only model-checked are the liveness properties (`InterruptionEnds`, `AnswerEnds` of
`Turn` and of `LocalAnswer`, `RequestsAreAnswered`, `ActivationEnds`, `Reconnects`):
the prover does not reach fairness. `VoiceData` defines percentiles by `CHOOSE` over
the levels; what they return is checked in the runs of `VoiceTraining`, not proved.

## What is left

A refinement still to show: the class state as `ClassLifecycle` moves it,
implemented by `Turn` inside a class.

## Not modelled

The neural networks, features, augmentation and gradient descent of the training
(`voice/personal.py`, most of `voice/training.py`, `scripts/train_wakeword.py`):
numerical, and a model checker sees nothing in them; what is decided with their
numbers is in `VoiceData` and `WakeWord`. Resampling, the encoding of audio and the
prompt: data without control. Encryption of the key: a token is told by what opens
it. Settings other than the key and the phrase: values without behaviour. Device
selection: I/O; a device that is missing is a trouble of `Diagnostics` or a capture
that fails to open. The process and the shell: operating system I/O; what they do
to the backend is `Restart`. `warm_up` of the local session changes no state. The
wording of anything. `/api/state/event` moves the machine directly and only tests
call it; `acknowledge_interruption` has no caller in the backend. Two runs of the
diagnostics at once are left out: the window disables its button meanwhile.

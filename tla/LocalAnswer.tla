----------------------------- MODULE LocalAnswer ------------------------------
(***************************************************************************)
(* A question and its answer on the teacher's own server                   *)
(* (realtime/local.py), the turn that asks it (session/turn.py, seen here  *)
(* through the calls it makes and the events it gets) and the speaker that *)
(* plays the answer (module Playback).                                     *)
(*                                                                         *)
(* Three threads: the audio thread appends frames and decides that a       *)
(* question ended, the event loop runs callbacks in the order they were    *)
(* queued (`loop`) and the tasks of the answers between them, the device's *)
(* thread plays.  The three services are external; each request of theirs  *)
(* ends, with an answer, an error or a timeout.                            *)
(***************************************************************************)
EXTENDS Playback, Sequences, FiniteSets

CONSTANTS
  HistoryMessages,  \* HISTORY_MESSAGES
  Latency,          \* samples the device holds when played_ms is asked for
  MaxTurns,         \* bound: turns begun
  MaxQuestions,     \* bound: questions that end and are answered
  MaxSentences,     \* bound: sentences of an answer
  MaxFailures       \* bound: services that fail

ASSUME LocalAssumption ==
  {HistoryMessages, Latency, MaxTurns, MaxQuestions, MaxSentences, MaxFailures}
    \subseteq Nat

\* A question ends once, and once more for each answer that ends on its way and
\* reopens it
Questions == 1..MaxQuestions

VARIABLES
  state,       \* ConnectionState
  life,        \* where start() and stop() are
  by,          \* whether start() keeps trying (a class) or raises (a probe)
  retrying,    \* _retry sleeps or checks
  frames,      \* the turn whose audio _frames holds, 0 when empty
  heardSpeech, \* _heard_speech
  closed,      \* _question_closed
  loop,        \* callbacks queued on the event loop, oldest first
  tasks,       \* the task of each answer, and what it has made of it
  answer,      \* _answer, by its question; 0 for none
  responseId,  \* _response_id and _assistant_item
  spoken,      \* _spoken
  history,     \* _history
  turn,        \* the turn
  cancelled,   \* _cancelled_responses of the turn
  asked,       \* history: the turn each question was asked in, 0 for none
  crossed,     \* history: a question ended that no turn waited for
  reopened,    \* history: a task that ended reopened a question on its way,
               \* which then ends twice and has two answers
  failures     \* bound used

session == <<state, life, by, retrying>>
question == <<frames, heardSpeech, closed>>
answers == <<tasks, answer, responseId, spoken, history, asked>>
turns == <<turn, cancelled, speaker>>
notes == <<crossed, reopened>>
vars == <<session, question, loop, answers, turns, notes, failures>>

Stages ==
  {"none", "created", "transcribing", "speaking", "unwinding", "over"}

\* An answer with so many sentences and so many pieces of sound
Tasks == [stage : Stages, sentences : 0..MaxSentences, pieces : 0..MaxSentences]
Task(stage) == [stage |-> stage, sentences |-> 0, pieces |-> 0]

Phases == {"none", "capturing", "thinking", "speaking", "cut"}

\* "cut": the machine has left the turn and its callback is queued
Turns ==
  [n : 0..MaxTurns, phase : Phases,
   record : BOOLEAN,             \* current
   question : BOOLEAN,           \* current.question is not empty
   response : Questions \cup {0}, item : Questions \cup {0},
   timer : {"none", "activation", "question"}, streaming : BOOLEAN]

NoTurn ==
  [n |-> 0, phase |-> "none", record |-> FALSE, question |-> FALSE,
   response |-> 0, item |-> 0, timer |-> "none", streaming |-> FALSE]

Call(name, q) == [name |-> name, of |-> q]
Calls == [name : {"started", "ended", "begin", "cancelled", "cut", "again"},
          of : Questions \cup {0}]
Queued(name) == \E i \in DOMAIN loop : loop[i].name = name

Entries ==
  [role : {"user", "assistant", "cut"}, of : Questions, sentences : Nat,
   part : BOOLEAN]

Init ==
  /\ state = "disconnected" /\ life = "new" /\ by \in {"class", "probe"}
  /\ retrying = FALSE
  /\ frames = 0 /\ heardSpeech = FALSE /\ closed = FALSE
  /\ loop = <<>>
  /\ tasks = [q \in Questions |-> Task("none")]
  /\ answer = 0 /\ responseId = 0 /\ spoken = <<>> /\ history = <<>>
  /\ turn = NoTurn /\ cancelled = {} /\ speaker = Silence
  /\ asked = [q \in Questions |-> 0] /\ crossed = FALSE /\ reopened = FALSE
  /\ failures = 0

Ready == state = "ready"
InTurn == turn.phase \in {"capturing", "thinking", "speaking"}
Live(q) == q # 0 /\ tasks[q].stage \notin {"none", "over"}

\* _is_stale
Stale(q) == q \in cancelled \/ (turn.response # 0 /\ turn.response # q)

-----------------------------------------------------------------------------
(***************************************************************************)
(* What the turn and the session do to each other                          *)
(***************************************************************************)

\* Mutation of TasksAfter: the task of the answer goes on
TasksKept(over) ==
  [q \in Questions |-> IF q = over THEN Task("over") ELSE tasks[q]]

\* cancel_response: the answer's task is cancelled, and one that has not taken
\* its first step never will.  `over` is a task that fails and so aborts the
\* turn: it ends in the same step.
TasksAfter(over) ==
  [q \in Questions |->
     IF q = over \/ (q = answer /\ tasks[q].stage = "created") THEN Task("over")
     ELSE IF q = answer /\ Live(q) THEN Task("unwinding") ELSE tasks[q]]

\* A response.done "cancelled" follows, behind what the loop has to do
LoopAfter(before) ==
  IF Live(answer) /\ responseId # 0
  THEN Append(before, Call("cancelled", responseId)) ELSE before

\* The question is open again once its answer is cancelled or its task ended
ClosedAfter(over) == closed /\ ~Live(answer) /\ over = 0

\* What _abort_turn and _on_turn_cut both let go of
Released == [turn EXCEPT !.phase = "none", !.record = FALSE, !.question = FALSE,
                         !.response = 0, !.timer = "none", !.streaming = FALSE]
LetGo ==
  /\ turn' = Released
  /\ cancelled' = cancelled \cup ({turn.response} \ {0})
  /\ speaker' = Silence

\* end_turn, which empties the question and leaves it closed if it was
EndTurn == frames' = 0 /\ heardSpeech' = FALSE

\* _abort_turn, before the calls `before` are followed
AbortTurn(before, over) ==
  /\ LetGo
  /\ tasks' = TasksAfter(over)
  /\ loop' = LoopAfter(before)
  /\ closed' = ClosedAfter(over)
  /\ EndTurn

\* The end of an answer's task that disturbs no turn.  It reopens the question,
\* whoever's it is by now.
TaskOver(q) ==
  /\ tasks' = [tasks EXCEPT ![q] = Task("over")]
  /\ closed' = FALSE
  /\ reopened' = (reopened \/ (closed /\ Queued("ended")))
  /\ UNCHANGED crossed
  /\ UNCHANGED <<loop, frames, heardSpeech>>

-----------------------------------------------------------------------------
(***************************************************************************)
(* The session's life                                                      *)
(***************************************************************************)
Start ==
  /\ life = "new"
  /\ life' = "starting" /\ state' = "connecting"
  /\ UNCHANGED <<by, retrying, question, loop, answers, turns, notes, failures>>

\* start, once the services are checked
Started ==
  /\ life = "starting"
  /\ life' = "running"
  /\ \/ state' = "ready" /\ UNCHANGED <<retrying, failures>>
     \/ /\ failures < MaxFailures /\ failures' = failures + 1
        /\ \E fatal \in BOOLEAN :
             /\ retrying' = (by = "class" /\ ~fatal)
             /\ state' = IF retrying' THEN "reconnecting"
                         ELSE IF fatal THEN "failed" ELSE "disconnected"
  /\ UNCHANGED <<by, question, loop, answers, turns, notes>>

\* _retry, once it has slept and checked.  A server that is still unreachable
\* changes nothing.
Retry ==
  /\ life = "running" /\ retrying
  /\ state' \in {"ready", "failed"} /\ retrying' = FALSE
  /\ UNCHANGED <<life, by, question, loop, answers, turns, notes, failures>>

\* TurnController.close, which aborts the turn, and stop up to its first wait
Stop ==
  /\ life = "running"
  /\ life' = "stopping" /\ retrying' = FALSE
  /\ AbortTurn(loop, 0)
  /\ UNCHANGED <<state, by, answer, responseId, spoken, history, asked,
                 notes, failures>>

\* The answer's task has unwound and the services are closed
Stopped ==
  /\ life = "stopping" /\ ~\E q \in Questions : tasks[q].stage = "unwinding"
  /\ life' = "stopped" /\ state' = "disconnected"
  /\ UNCHANGED <<by, retrying, question, loop, answers, turns, notes, failures>>

-----------------------------------------------------------------------------
(***************************************************************************)
(* The question                                                            *)
(***************************************************************************)

\* append_audio, from the audio thread: a frame of the question, ...
Appends == turn.streaming /\ Ready /\ ~closed

Frame ==
  /\ Appends /\ frames # turn.n
  /\ frames' = turn.n
  /\ UNCHANGED <<session, heardSpeech, closed, loop, answers, turns, notes,
                 failures>>

\* ... the first one with speech ...
SpeechBegins ==
  /\ Appends /\ ~heardSpeech
  /\ frames' = turn.n /\ heardSpeech' = TRUE
  /\ loop' = Append(loop, Call("started", 0))
  /\ UNCHANGED <<session, closed, answers, turns, notes, failures>>

\* ... or the last of a silence long enough.  A question that is reopened has had
\* its silence.
SilenceEnds ==
  /\ Appends /\ heardSpeech
  /\ frames' = turn.n /\ closed' = TRUE
  /\ loop' = Append(loop, Call("ended", 0))
  /\ UNCHANGED <<session, heardSpeech, answers, turns, notes, failures>>

\* The turn of an activation, whose pre-roll is the beginning of its question
NextTurn ==
  [NoTurn EXCEPT !.n = turn.n + 1, !.phase = "capturing", !.record = TRUE,
                 !.timer = "activation", !.streaming = TRUE]

\* Mutation of BeginTurn: the question is not reopened
BeginTurnClosed(before) ==
  /\ turn' = NextTurn
  /\ UNCHANGED closed
  /\ \E loud \in BOOLEAN :
       /\ frames' \in {0, turn.n + 1} /\ heardSpeech' = loud
       /\ loop' = IF loud THEN Append(before, Call("started", 0)) ELSE before

\* _begin_turn with the session ready: clear_audio, and append_audio of the
\* pre-roll.  Its frames may hold speech and, since preroll_ms may be 2000 and
\* turn_silence_ms 300, the silence that ends the question.
BeginTurn(before) ==
  /\ turn' = NextTurn
  /\ \/ /\ closed' = FALSE /\ heardSpeech' = FALSE /\ frames' \in {0, turn.n + 1}
        /\ loop' = before
     \/ /\ heardSpeech' = TRUE /\ frames' = turn.n + 1
        /\ \/ closed' = FALSE /\ loop' = Append(before, Call("started", 0))
           \/ /\ closed' = TRUE
              /\ loop' = before \o <<Call("started", 0), Call("ended", 0)>>

\* The activation is queued on the loop behind everything before it
Activated ==
  /\ life = "running" /\ Ready /\ turn.phase = "none" /\ loop = <<>>
  /\ turn.n < MaxTurns
  /\ BeginTurn(loop)
  /\ UNCHANGED <<session, answers, cancelled, speaker, notes, failures>>

\* _no_question and clear_audio
NoQuestion ==
  /\ turn.phase = "capturing" /\ turn.timer = "activation" /\ ~turn.question
  /\ turn' = [Released EXCEPT !.response = turn.response]
  /\ EndTurn /\ closed' = FALSE
  /\ UNCHANGED <<session, loop, answers, cancelled, speaker, notes, failures>>

\* _question_too_long, _end_question and commit_audio
QuestionTooLong ==
  /\ turn.phase = "capturing" /\ turn.timer = "question"
  /\ turn' = [turn EXCEPT !.phase = "thinking", !.timer = "none", !.streaming = FALSE]
  /\ closed' = TRUE
  /\ loop' = IF closed THEN loop ELSE Append(loop, Call("ended", 0))
  /\ UNCHANGED <<session, frames, heardSpeech, answers, cancelled, speaker, notes,
                 failures>>

\* The machine leaves the turn, from another thread: paused, stopped, failed
\* or interrupted, "again" by the wake word over the answer
Leave(name) ==
  /\ life = "running" /\ InTurn
  /\ name = "again" => turn.phase # "capturing" /\ turn.n < MaxTurns
  /\ turn' = [turn EXCEPT !.phase = "cut"]
  /\ loop' = Append(loop, Call(name, 0))
  /\ UNCHANGED <<session, question, answers, cancelled, speaker, notes, failures>>

-----------------------------------------------------------------------------
(***************************************************************************)
(* The callbacks of the loop, in their order                               *)
(***************************************************************************)
Runs(name) == loop # <<>> /\ Head(loop).name = name

\* SpeechStarted: the question has its own time from now on
RunStarted ==
  /\ Runs("started")
  /\ loop' = Tail(loop)
  /\ turn' = IF turn.phase = "capturing" THEN [turn EXCEPT !.timer = "question"]
             ELSE turn
  /\ UNCHANGED <<session, question, answers, cancelled, speaker, notes, failures>>

\* _question_ended: the turn hears SpeechStopped and an answer begins
RunEnded ==
  /\ Runs("ended")
  /\ Ready => answer < MaxQuestions
  /\ IF Ready
     THEN LET q == answer + 1 IN
          /\ turn' = IF turn.phase = "capturing"
                     THEN [turn EXCEPT !.phase = "thinking", !.timer = "none",
                                       !.streaming = FALSE]
                     ELSE turn
          /\ frames' = 0 /\ heardSpeech' = FALSE
          /\ answer' = q
          /\ tasks' = [tasks EXCEPT ![q] = Task("created")]
          /\ loop' = Append(Tail(loop), Call("begin", q))
          /\ asked' = [asked EXCEPT ![q] = IF turn.record THEN turn.n ELSE 0]
          /\ crossed' = (crossed \/ ~turn.record)
     ELSE /\ loop' = Tail(loop)
          /\ UNCHANGED <<turn, frames, heardSpeech, answer, tasks, asked, crossed>>
  /\ UNCHANGED <<session, closed, responseId, spoken, history, cancelled,
                 speaker, reopened, failures>>

\* The first step of an answer's task, up to the transcription.  (Without audio
\* there is none to wait for.)
RunBegin ==
  /\ Runs("begin")
  /\ loop' = Tail(loop)
  /\ IF tasks[Head(loop).of].stage = "created"
     THEN /\ tasks' = [tasks EXCEPT ![Head(loop).of] = Task("transcribing")]
          /\ responseId' = 0
     ELSE UNCHANGED <<tasks, responseId>>
  /\ UNCHANGED <<session, question, answer, spoken, history, asked, turns,
                 notes, failures>>

\* ResponseDone "cancelled", which a turn that has let go of the answer ignores
RunCancelled ==
  /\ Runs("cancelled")
  /\ IF ~Stale(Head(loop).of) /\ turn.record
     THEN AbortTurn(Tail(loop), 0)
     ELSE /\ loop' = Tail(loop)
          /\ UNCHANGED <<turn, cancelled, speaker, tasks, question>>
  /\ UNCHANGED <<session, answer, responseId, spoken, history, asked, notes,
                 failures>>

\* Samples of the first i sentences
Upto(i) ==
  LET sum[j \in 0..Len(spoken)] ==
        IF j = 0 THEN 0 ELSE sum[j - 1] + spoken[j].samples
  IN sum[i]

\* What truncate keeps of an answer of which so much was heard
Kept(heard) ==
  [role |-> "cut", of |-> turn.item,
   sentences |-> Cardinality({i \in DOMAIN spoken :
                   Upto(i - 1) < heard /\ Upto(i) <= heard}),
   part |-> \E i \in DOMAIN spoken : Upto(i - 1) < heard /\ heard < Upto(i)]

\* Mutation of Remembered: one message too many
RememberedOneMore(entry) ==
  LET all == Append(history, entry) IN
  SubSeq(all, IF Len(all) > HistoryMessages THEN Len(all) - HistoryMessages ELSE 1,
         Len(all))

\* _remember
Remembered(entry) ==
  LET all == Append(history, entry) IN
  SubSeq(all, IF Len(all) > HistoryMessages THEN Len(all) - HistoryMessages + 1 ELSE 1,
         Len(all))

\* _truncate_heard and truncate: an item that is not the last one is refused
Truncate ==
  LET heard == IF speaker.consumed > Latency THEN speaker.consumed - Latency ELSE 0
      kept == Kept(heard)
  IN IF speaker.open /\ turn.item # 0 /\ turn.item = responseId /\ spoken # <<>>
     THEN /\ spoken' = <<>>
          /\ history' = IF heard > 0 THEN Remembered(kept) ELSE history
     ELSE UNCHANGED <<spoken, history>>

\* _on_turn_cut.  Streaming stops last: a frame in between stays in a question
\* that is over.  The wake word over an answer begins the next turn at once,
\* unless the machine has moved on.
RunCut ==
  /\ Runs("cut") \/ Runs("again")
  /\ \E again \in BOOLEAN :
       /\ again => Runs("again") /\ life = "running" /\ Ready
       /\ LET held == turn.record \/ speaker.open \/ turn.streaming
              before == IF held THEN LoopAfter(Tail(loop)) ELSE Tail(loop)
          IN
          /\ IF held
             THEN /\ Truncate
                  /\ cancelled' = cancelled \cup ({turn.response} \ {0})
                  /\ speaker' = Silence
                  /\ tasks' = TasksAfter(0)
             ELSE UNCHANGED <<spoken, history, cancelled, speaker, tasks>>
          /\ IF again
             THEN BeginTurn(before)
             ELSE /\ turn' = Released
                  /\ loop' = before
                  /\ IF held
                     THEN /\ closed' = ClosedAfter(0)
                          /\ heardSpeech' = FALSE
                          /\ frames' \in {0} \cup (IF Appends THEN {turn.n} ELSE {})
                     ELSE UNCHANGED question
  /\ UNCHANGED <<session, answer, responseId, asked, notes, failures>>

-----------------------------------------------------------------------------
(***************************************************************************)
(* The task of an answer: _respond and _speak_answer                       *)
(***************************************************************************)

\* InputTranscript and ResponseStarted
Transcribed(q) ==
  /\ tasks[q].stage = "transcribing" /\ life # "stopped"
  /\ tasks' = [tasks EXCEPT ![q] = Task("speaking")]
  /\ responseId' = q /\ spoken' = <<>>
  /\ history' = Remembered([role |-> "user", of |-> q, sentences |-> 0, part |-> FALSE])
  /\ turn' = IF ~turn.record THEN turn
             ELSE [turn EXCEPT !.question = TRUE,
                     !.response = IF turn.phase \in {"thinking", "speaking"} /\ ~Stale(q)
                                  THEN q ELSE @]
  /\ UNCHANGED <<session, question, loop, answer, asked, cancelled, speaker,
                 notes, failures>>

\* The model has written a sentence, and the one before has been turned into
\* sound (in the model into one piece of it; only the last may have none)
Sentence(q) ==
  /\ tasks[q].stage = "speaking" /\ tasks[q].sentences < MaxSentences
  /\ tasks[q].pieces = tasks[q].sentences
  /\ tasks' = [tasks EXCEPT ![q].sentences = @ + 1]
  /\ spoken' = Append(spoken, [of |-> q, samples |-> 0])
  /\ UNCHANGED <<session, question, loop, answer, responseId, history, asked,
                 turns, notes, failures>>

\* The speaker after a piece of the answer, the first of which opens it
Heard == Pushed(IF speaker.open THEN speaker ELSE NewSpeaker, MaxPiece)

\* A piece of the sentence counts for whoever truncates the answer, ...
Counted(q) ==
  LET mine == {i \in DOMAIN spoken : spoken[i].of = q} IN
  [i \in DOMAIN spoken |->
     IF i \in mine /\ \A j \in mine : j <= i
     THEN [spoken[i] EXCEPT !.samples = @ + MaxPiece] ELSE spoken[i]]

\* ... and is an AudioDelta: it opens the speaker or is pushed into it
Piece(q) ==
  /\ tasks[q].stage = "speaking" /\ tasks[q].pieces < tasks[q].sentences
  /\ tasks' = [tasks EXCEPT ![q].pieces = @ + 1]
  /\ spoken' = Counted(q)
  /\ IF ~Stale(q) /\ turn.record /\ turn.phase \in {"thinking", "speaking"}
     THEN /\ turn' = [turn EXCEPT !.phase = "speaking", !.item = q]
          /\ speaker' = Heard
     ELSE UNCHANGED <<turn, speaker>>
  /\ UNCHANGED <<session, question, loop, answer, responseId, history, asked,
                 cancelled, notes, failures>>

\* The speaker cannot be opened: the turn is aborted and the answer with it
NoSpeaker(q) ==
  /\ tasks[q].stage = "speaking" /\ tasks[q].pieces < tasks[q].sentences
  /\ failures < MaxFailures /\ failures' = failures + 1
  /\ ~Stale(q) /\ turn.record /\ turn.phase = "thinking"
  /\ spoken' = Counted(q)
  /\ AbortTurn(loop, 0)
  /\ UNCHANGED <<session, answer, responseId, history, asked, notes>>

\* What the turn makes of ResponseDone "completed": an answer without sound
\* ends the turn, one that sounds ends when it has been played
TurnFinishes ==
  IF speaker.open
  THEN /\ speaker' = Finished(speaker)
       /\ UNCHANGED turn
  ELSE /\ turn' = [turn EXCEPT !.record = FALSE, !.question = FALSE,
                     !.phase = IF @ = "thinking" THEN "none" ELSE @]
       /\ UNCHANGED speaker

\* Mutation of Completed: an answer without sound says nothing
CompletedSilently(q) ==
  /\ tasks[q].stage = "speaking"
  /\ history' = Remembered([role |-> "assistant", of |-> q,
                            sentences |-> tasks[q].sentences, part |-> FALSE])
  /\ IF ~Stale(q) /\ turn.record /\ tasks[q].pieces > 0
     THEN TurnFinishes ELSE UNCHANGED <<turn, speaker>>
  /\ TaskOver(q)
  /\ UNCHANGED <<session, answer, responseId, spoken, asked, cancelled,
                 failures>>

Completed(q) ==
  /\ tasks[q].stage = "speaking"
  /\ history' = Remembered([role |-> "assistant", of |-> q,
                            sentences |-> tasks[q].sentences, part |-> FALSE])
  /\ IF ~Stale(q) /\ turn.record THEN TurnFinishes ELSE UNCHANGED <<turn, speaker>>
  /\ TaskOver(q)
  /\ UNCHANGED <<session, answer, responseId, spoken, asked, cancelled,
                 failures>>

\* ServerUnreachable: _lost, which tells the turn and has _retry run
Unreachable(q) ==
  /\ tasks[q].stage \in {"transcribing", "speaking"}
  /\ failures < MaxFailures /\ failures' = failures + 1
  /\ IF life = "running"
     THEN /\ state' = "reconnecting" /\ retrying' = TRUE
          /\ IF InTurn /\ turn.record THEN AbortTurn(loop, q) /\ UNCHANGED notes
             ELSE TaskOver(q) /\ UNCHANGED <<turn, cancelled, speaker>>
     ELSE TaskOver(q) /\ UNCHANGED <<state, retrying, turn, cancelled, speaker>>
  /\ UNCHANGED <<life, by, answer, responseId, spoken, history, asked>>

\* ServiceFailed or any other error, for one a closed client's: ApiError
Fails(q) ==
  /\ tasks[q].stage \in {"transcribing", "speaking"}
  /\ \/ failures < MaxFailures /\ failures' = failures + 1
     \/ life = "stopped" /\ UNCHANGED failures
  /\ IF InTurn THEN AbortTurn(loop, q) /\ UNCHANGED notes
     ELSE TaskOver(q) /\ UNCHANGED <<turn, cancelled, speaker>>
  /\ UNCHANGED <<session, answer, responseId, spoken, history, asked>>

\* Mutation of Unwinds: what was written of the answer is remembered
UnwindsRemembering(q) ==
  /\ tasks[q].stage = "unwinding"
  /\ TaskOver(q)
  /\ history' = Remembered([role |-> "assistant", of |-> q, sentences |-> 1,
                            part |-> TRUE])
  /\ UNCHANGED <<session, answer, responseId, spoken, asked, turns, failures>>

\* CancelledError
Unwinds(q) ==
  /\ tasks[q].stage = "unwinding"
  /\ TaskOver(q)
  /\ UNCHANGED <<session, answer, responseId, spoken, history, asked, turns, failures>>

-----------------------------------------------------------------------------
(***************************************************************************)
(* The speaker                                                             *)
(***************************************************************************)
Device ==
  /\ Plays \/ (failures < MaxFailures /\ DeviceEnds)
  /\ failures' = IF speaker'.failed # speaker.failed THEN failures + 1 ELSE failures
  /\ UNCHANGED <<session, question, loop, answers, turn, cancelled, notes>>

\* _watch_playback, once the answer is finished
Played ==
  /\ speaker.open /\ speaker.finished /\ speaker.done /\ turn.phase = "speaking"
  /\ turn' = [turn EXCEPT !.record = FALSE, !.question = FALSE, !.phase = "none"]
  /\ speaker' = Silence
  /\ UNCHANGED <<session, question, loop, answers, cancelled, notes, failures>>

-----------------------------------------------------------------------------
Listen == Frame \/ SpeechBegins \/ SilenceEnds

RunLoop == RunStarted \/ RunEnded \/ RunBegin \/ RunCancelled \/ RunCut

Answer(q) ==
  \/ Transcribed(q) \/ Sentence(q) \/ Piece(q) \/ NoSpeaker(q)
  \/ Completed(q) \/ Unreachable(q) \/ Fails(q) \/ Unwinds(q)

Next ==
  \/ Start \/ Started \/ Retry \/ Stop \/ Stopped
  \/ Listen \/ Activated \/ NoQuestion \/ QuestionTooLong
  \/ Leave("cut") \/ Leave("again")
  \/ RunLoop \/ Device \/ Played
  \/ \E q \in Questions : Answer(q)

Spec == Init /\ [][Next]_vars

\* The loop runs what is queued and the tasks that can go on, the requests of
\* an answer end (httpx's timeouts), and the device asks for blocks.
Fairness ==
  /\ WF_vars(Started) /\ WF_vars(Retry) /\ WF_vars(Stopped)
  /\ WF_vars(RunLoop) /\ WF_vars(Device) /\ WF_vars(Played)
  /\ \A q \in Questions : WF_vars(Answer(q))

FairSpec == Spec /\ Fairness

-----------------------------------------------------------------------------
(***************************************************************************)
(* Properties                                                              *)
(***************************************************************************)

\* Every variable has its type, and the answers begun are the first ones.
TypeOK ==
  /\ SpeakerType
  /\ state \in {"disconnected", "connecting", "ready", "reconnecting", "failed"}
  /\ life \in {"new", "starting", "running", "stopping", "stopped"}
  /\ by \in {"class", "probe"} /\ {retrying, heardSpeech, closed} \subseteq BOOLEAN
  /\ {crossed, reopened} \subseteq BOOLEAN
  /\ frames \in 0..MaxTurns
  /\ loop \in Seq(Calls)
  /\ tasks \in [Questions -> Tasks]
  /\ {answer, responseId} \subseteq Questions \cup {0}
  /\ spoken \in Seq([of : Questions, samples : Nat])
  /\ history \in Seq(Entries) /\ Len(history) <= HistoryMessages
  /\ turn \in Turns /\ cancelled \subseteq Questions
  /\ asked \in [Questions -> 0..MaxTurns]
  /\ failures \in 0..MaxFailures
  /\ \A q \in Questions : tasks[q].stage # "none" <=> q <= answer

\* A question that no longer takes audio is on its way to an answer: its end is
\* queued.  Otherwise the turn would listen to itself forever, since the timer
\* of the question only closes it (local.py, commit_audio: "if closed, True").
QuestionIsHeard ==
  turn.phase = "capturing" /\ Ready /\ closed => Queued("ended")

\* The answer that sounds is the answer to this turn's question, although
\* _answer, _response_id and _spoken are shared by one answer and the next.
\* Two answers of one question are too many for it: only the later one is in
\* _answer to be cancelled, and the other may sound in the next turn.
AnswerIsToItsTurn ==
  turn.phase = "speaking" /\ ~crossed /\ ~reopened => asked[turn.item] = turn.n

\* The model is sent the conversation in its order: what is remembered of an
\* answer comes right after its question, and nothing more of it once it was cut
\* (local.py: "Keep in the history only what was heard of a cut answer").  What
\* an answer that was already whole adds when it is cut comes after the whole.
\* Two answers of one question are said at once, and in no order.
HistoryInOrder ==
  ~crossed /\ ~reopened => \A i \in 2..Len(history) :
    history[i].role # "user" =>
      history[i - 1].of = history[i].of /\ history[i - 1].role # "cut"

\* THINKING ends, with an answer, an error or a loss, and SPEAKING ends: an
\* answer that is finished is played, however short, and whatever was cut before.
AnswerEnds ==
  turn.phase \in {"thinking", "speaking"} /\ ~crossed
    ~> turn.phase \notin {"thinking", "speaking"} \/ crossed
==============================================================================

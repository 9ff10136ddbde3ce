--------------------------- MODULE ConversationProbe ---------------------------
(***************************************************************************)
(* The conversation test of realtime/probe.py: one question by voice and   *)
(* its answer, outside a class.  A task on the event loop opens a session, *)
(* records the question, closes the microphone and waits for the answer;   *)
(* the session's events come between its steps, and the answer sounds as   *)
(* it arrives.  The handlers of the session's events and the endpoints     *)
(* share the loop with the task, so each of them is one step.              *)
(*                                                                         *)
(* Starting is two steps: line 152 asks whether the microphone is in use   *)
(* and line 171 makes the task that shows it is.  The loop does nothing    *)
(* else between them, but the threads that record takes do.                *)
(***************************************************************************)

VARIABLES
  test,        \* ProbeState, what the window shows
  task,        \* how far _run has come
  checking,    \* start has passed its checks and not made the task yet
  cancelling,  \* cancel waits for the task to end
  probeMic,    \* engine is not None: the test holds the microphone
  link,        \* the session's reader is delivering events
  heard,       \* the asyncio events set: speech, ended, done
  committed,   \* the question was ended by hand
  outcome,     \* final["status"] of the answer
  pieces,      \* _answer is not empty
  speakers,    \* _stream and playback_error
  late         \* history: a piece of the answer came when the test was over

probeVars == <<test, task, checking, cancelling, probeMic, link, heard,
               committed, outcome, pieces, speakers, late>>

ProbeState ==
  {"IDLE", "CONNECTING", "LISTENING", "WAITING", "ANSWERING", "DONE", "FAILED"}

\* The awaits of _run, in their order.
Steps ==
  {"none", "opening", "speech", "question", "answer", "closing", "over"}

\* A stream is "open" until finish is called, and active until it has played.
Speakers == {"none", "refused", "open", "finished", "over"}

ProbeType ==
  /\ test \in ProbeState
  /\ task \in Steps
  /\ checking \in BOOLEAN
  /\ cancelling \in BOOLEAN
  /\ probeMic \in BOOLEAN
  /\ link \in BOOLEAN
  /\ heard \subseteq {"speech", "ended", "done"}
  /\ committed \in BOOLEAN
  /\ outcome \in {"none", "completed", "failed"}
  /\ pieces \in BOOLEAN
  /\ speakers \in Speakers
  /\ late \in BOOLEAN

ProbeInit ==
  /\ test = "IDLE" /\ task = "none" /\ checking = FALSE /\ cancelling = FALSE
  /\ probeMic = FALSE /\ link = FALSE /\ heard = {} /\ committed = FALSE
  /\ outcome = "none" /\ pieces = FALSE /\ speakers = "none" /\ late = FALSE

ProbeRunning == task \notin {"none", "over"}
Playing == speakers \in {"open", "finished"}
Cut(s) == IF s \in {"open", "finished"} THEN "over" ELSE s

-----------------------------------------------------------------------------
(* Starting and cancelling *)

\* The answer of a session that was not closed is over before another test is
\* started by hand: its socket closes in moments.
ProbeCheck(inUse) ==
  /\ ~ProbeRunning /\ ~inUse /\ ~checking /\ ~link
  /\ checking' = TRUE
  /\ UNCHANGED <<test, task, cancelling, probeMic, link, heard, committed,
                 outcome, pieces, speakers, late>>

\* No key is stored, or its passphrase has not been given.
ProbeHasNoKey ==
  /\ checking
  /\ checking' = FALSE
  /\ UNCHANGED <<test, task, cancelling, probeMic, link, heard, committed,
                 outcome, pieces, speakers, late>>

\* Fault: start forgets stop_playback.
ProbeStartOverAnswer ==
  /\ checking
  /\ checking' = FALSE
  /\ test' = "CONNECTING"
  /\ task' = "opening"
  /\ heard' = {} /\ committed' = FALSE /\ outcome' = "none"
  /\ pieces' = FALSE
  /\ late' = FALSE
  /\ UNCHANGED <<cancelling, probeMic, link, speakers>>

ProbeStart ==
  /\ checking
  /\ checking' = FALSE
  /\ test' = "CONNECTING"
  /\ task' = "opening"
  /\ heard' = {} /\ committed' = FALSE /\ outcome' = "none"
  /\ pieces' = FALSE
  /\ speakers' = "none"
  /\ late' = FALSE
  /\ UNCHANGED <<cancelling, probeMic, link>>

\* The state cancel leaves when the task has ended.
Settled(s) == IF s \in {"DONE", "FAILED"} THEN s ELSE "IDLE"

\* Fault: the microphone is not closed on the way out.
CancelKeepingMicrophone ==
  /\ ProbeRunning /\ task # "closing" /\ ~checking
  /\ cancelling' = TRUE
  /\ test' = "IDLE"
  /\ task' = "closing"
  /\ speakers' = Cut(speakers)
  /\ UNCHANGED <<checking, probeMic, link, heard, committed, outcome, pieces, late>>

\* CancelledError reaches the await the task is in.
Cancel ==
  /\ ProbeRunning /\ task # "closing" /\ ~checking
  /\ cancelling' = TRUE
  /\ test' = "IDLE"
  /\ task' = "closing"
  /\ probeMic' = FALSE
  /\ speakers' = Cut(speakers)
  /\ UNCHANGED <<checking, link, heard, committed, outcome, pieces, late>>

\* The task is already closing its session: stop swallows the cancellation
\* while it waits for the supervisor, and is broken off while it waits for the
\* socket, which leaves the reader to end by itself.
CancelClosing ==
  /\ task = "closing" /\ ~checking
  /\ \/ cancelling' = TRUE /\ UNCHANGED <<task, test>>
     \/ /\ link
        /\ cancelling' = FALSE
        /\ task' = "over"
        /\ test' = Settled(test)
  /\ UNCHANGED <<checking, probeMic, link, heard, committed, outcome, pieces,
                 speakers, late>>

-----------------------------------------------------------------------------
(* The task *)

Fails ==
  /\ test' = "FAILED"
  /\ task' = "closing"
  /\ probeMic' = FALSE
  /\ UNCHANGED <<checking, cancelling, link, heard, committed, outcome, pieces,
                 speakers, late>>

SessionOpens ==
  /\ task = "opening" /\ ~checking
  /\ link' = TRUE
  /\ probeMic' = TRUE
  /\ test' = "LISTENING"
  /\ task' = "speech"
  /\ UNCHANGED <<checking, cancelling, heard, committed, outcome, pieces,
                 speakers, late>>

\* RealtimeUnavailable: the key, the network or the time limit.
SessionFails == task = "opening" /\ ~checking /\ Fails

\* AudioError: the session opened and the microphone did not.
MicrophoneFails ==
  /\ task = "opening" /\ ~checking
  /\ link' = TRUE
  /\ test' = "FAILED"
  /\ task' = "closing"
  /\ UNCHANGED <<checking, cancelling, probeMic, heard, committed, outcome,
                 pieces, speakers, late>>

QuestionHeard ==
  /\ task = "speech" /\ "speech" \in heard /\ ~checking
  /\ task' = "question"
  /\ UNCHANGED <<test, checking, cancelling, probeMic, link, heard, committed,
                 outcome, pieces, speakers, late>>

NoQuestionHeard == task = "speech" /\ ~checking /\ Fails

\* The microphone closes before the test waits for the answer.
StopsListening ==
  /\ task = "question" /\ ~checking
  /\ probeMic' = FALSE
  /\ test' = "WAITING"
  /\ task' = "answer"
  /\ UNCHANGED <<checking, cancelling, link, heard, outcome, pieces, speakers,
                 late>>

QuestionOver == "ended" \in heard /\ StopsListening /\ UNCHANGED committed

\* commit_audio and create_response, when the silence does not come in time.
QuestionCommitted == StopsListening /\ committed' = TRUE

AnswerOver ==
  /\ task = "answer" /\ "done" \in heard /\ ~checking
  /\ test' = IF outcome = "completed" THEN "DONE" ELSE "FAILED"
  /\ task' = "closing"
  /\ UNCHANGED <<checking, cancelling, probeMic, link, heard, committed,
                 outcome, pieces, speakers, late>>

AnswerTimesOut == task = "answer" /\ ~checking /\ Fails

\* session.stop, and the tail of cancel when it waited for this.
Closes ==
  /\ task = "closing" /\ ~checking
  /\ task' = "over"
  /\ link' = FALSE
  /\ cancelling' = FALSE
  /\ test' = IF cancelling THEN Settled(test) ELSE test
  /\ UNCHANGED <<checking, probeMic, heard, committed, outcome, pieces,
                 speakers, late>>

ReaderEnds ==
  /\ task = "over" /\ link /\ ~checking
  /\ link' = FALSE
  /\ UNCHANGED <<test, task, checking, cancelling, probeMic, heard, committed,
                 outcome, pieces, speakers, late>>

-----------------------------------------------------------------------------
(* The session's events *)

\* The server answers a question that ended, by itself or by hand.
Asked == committed \/ "ended" \in heard

HearsSpeech ==
  /\ link /\ ~checking /\ "speech" \notin heard
  /\ heard' = heard \cup {"speech"}
  /\ UNCHANGED <<test, task, checking, cancelling, probeMic, link, committed,
                 outcome, pieces, speakers, late>>

HearsSilence ==
  /\ link /\ ~checking /\ "speech" \in heard /\ "ended" \notin heard
  /\ heard' = heard \cup {"ended"}
  /\ UNCHANGED <<test, task, checking, cancelling, probeMic, link, committed,
                 outcome, pieces, speakers, late>>

\* The first piece opens the speakers; a test they refuse goes on in silence.
AnswerPiece ==
  /\ link /\ ~checking /\ Asked /\ "done" \notin heard
  /\ test' = "ANSWERING"
  /\ pieces' = TRUE
  /\ IF speakers = "none" THEN speakers' \in {"open", "refused"}
                          ELSE UNCHANGED speakers
  /\ late' = (late \/ task \in {"closing", "over"})
  /\ UNCHANGED <<task, checking, cancelling, probeMic, link, heard, committed,
                 outcome>>

AnswerDone ==
  /\ link /\ ~checking /\ Asked /\ "done" \notin heard
  /\ heard' = heard \cup {"done"}
  /\ outcome' \in {"completed", "failed"}
  /\ speakers' = IF speakers = "open" THEN "finished" ELSE speakers
  /\ UNCHANGED <<test, task, checking, cancelling, probeMic, link, committed,
                 pieces, late>>

-----------------------------------------------------------------------------
(* Hearing the answer *)

Hears(s) ==
  /\ speakers' = s
  /\ UNCHANGED <<test, task, checking, cancelling, probeMic, link, heard,
                 committed, outcome, pieces, late>>

\* The stream has played what it was fed, once it knows that was all.
AnswerPlayed == speakers = "finished" /\ Hears("over")

PlayAgain ==
  /\ test = "DONE" /\ pieces /\ ~Playing /\ ~checking
  /\ \E s \in {"finished", "refused"} : Hears(s)

StopAnswer == Playing /\ ~checking /\ Hears("over")

-----------------------------------------------------------------------------
ProbeTask ==
  \/ ProbeStart
  \/ SessionOpens \/ SessionFails \/ MicrophoneFails
  \/ QuestionHeard \/ NoQuestionHeard
  \/ QuestionOver \/ QuestionCommitted
  \/ AnswerOver \/ AnswerTimesOut
  \/ Closes \/ ReaderEnds

ProbeEvents == HearsSpeech \/ HearsSilence \/ AnswerPiece \/ AnswerDone

ProbeRequests(inUse) ==
  \/ ProbeCheck(inUse) \/ ProbeHasNoKey
  \/ Cancel \/ CancelClosing
  \/ AnswerPlayed \/ PlayAgain \/ StopAnswer

-----------------------------------------------------------------------------
(* Properties *)

\* A test that is over says how it ended, and holds neither the microphone nor
\* a connection it opened: whatever was cancelled, refused or late, the window
\* is not left at "Habla ahora".  A piece of the answer delivered while the
\* session closes is the exception (line 209 runs when line 285 has run).
ProbeSettles ==
  task = "over" =>
    /\ ~probeMic
    /\ late \/ test \in {"IDLE", "DONE", "FAILED"}

\* The test never records its own loudspeakers: while it holds the microphone
\* nothing sounds but an answer to the question that has just ended, in the
\* moment before its task wakes and closes it (lines 168 and 255-257).
DoesNotHearItself == probeMic /\ Playing => Asked /\ task \in {"speech", "question"}

==============================================================================

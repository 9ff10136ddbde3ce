------------------------------- MODULE Playback --------------------------------
(***************************************************************************)
(* The speaker while it plays one answer after another                     *)
(* (audio/playback.py): a PlaybackBuffer the turn pushes samples into and  *)
(* the sound device reads blocks out of.                                   *)
(*                                                                         *)
(* The loop pushes, finishes and stops; the device's thread reads; a lock  *)
(* makes each of them one step.  Samples are counted, not represented.     *)
(***************************************************************************)
EXTENDS Naturals

CONSTANTS
  Prebuffer,  \* samples queued before the first one sounds
  Block,      \* samples the device asks for at a time
  MaxPiece    \* bound: samples in a piece of an answer

ASSUME PlaybackAssumption == {Prebuffer, MaxPiece} \subseteq Nat /\ Block \in Nat \ {0}

VARIABLE speaker  \* the stream of the answer that plays, or of the last one

Speakers ==
  [open : BOOLEAN,      \* the turn holds it (TurnController._stream)
   fed : Nat,           \* history: samples accepted
   queued : Nat, consumed : Nat,
   started : BOOLEAN, finished : BOOLEAN, stopped : BOOLEAN, done : BOOLEAN,
   failed : BOOLEAN]    \* history: the device ended it

NewSpeaker ==
  [open |-> TRUE, fed |-> 0, queued |-> 0, consumed |-> 0, started |-> FALSE,
   finished |-> FALSE, stopped |-> FALSE, done |-> FALSE, failed |-> FALSE]

\* No answer yet, or one that the turn has let go of
Silence == [NewSpeaker EXCEPT !.open = FALSE, !.stopped = TRUE, !.done = TRUE]

\* is_active
Active(s) == s.open /\ ~s.done

-----------------------------------------------------------------------------
(***************************************************************************)
(* What each call leaves                                                   *)
(***************************************************************************)

\* push: a stream that is finished or stopped takes nothing more
Pushed(s, n) ==
  IF s.stopped \/ s.finished THEN s
  ELSE [s EXCEPT !.queued = @ + n, !.fed = @ + n]

\* finish
Finished(s) == [s EXCEPT !.finished = TRUE, !.done = @ \/ s.queued = 0]

\* Whether a block that is asked for now is taken from the queue: the first
\* one waits for the prebuffer, or for the end of a short answer
Sounds(s) == s.started \/ s.queued >= Prebuffer \/ s.finished

\* Mutation of Read: a queue that runs dry ends the answer
ReadDry(s) ==
  LET written == IF s.queued < Block THEN s.queued ELSE Block IN
  IF s.stopped \/ ~Sounds(s) THEN s
  ELSE [s EXCEPT !.started = TRUE,
                 !.queued = @ - written,
                 !.consumed = @ + written,
                 !.done = @ \/ written < Block]

\* read: silence fills what the queue lacks, and the answer is over only once
\* it was finished
Read(s) ==
  LET written == IF s.queued < Block THEN s.queued ELSE Block IN
  IF s.stopped \/ ~Sounds(s) THEN s
  ELSE [s EXCEPT !.started = TRUE,
                 !.queued = @ - written,
                 !.consumed = @ + written,
                 !.done = @ \/ (written < Block /\ s.finished)]

-----------------------------------------------------------------------------
(***************************************************************************)
(* The speaker on its own                                                  *)
(***************************************************************************)
SpeakerInit == speaker = Silence

\* engine.open_playback, for the first piece of an answer
Opens ==
  /\ ~speaker.open /\ speaker.done
  /\ \E n \in 0..MaxPiece : speaker' = Pushed(NewSpeaker, n)

Pushes == speaker.open /\ \E n \in 0..MaxPiece : speaker' = Pushed(speaker, n)

Finishes == speaker.open /\ speaker' = Finished(speaker)

\* stop, if it still plays; nobody looks at a stream that was let go of
Stops == speaker' = Silence

\* The device's callback, until the stream is over
Plays == Active(speaker) /\ speaker' = Read(speaker)

\* finished_callback: the device ends the stream by itself
DeviceEnds ==
  /\ Active(speaker)
  /\ speaker' = [speaker EXCEPT !.done = TRUE, !.failed = TRUE]

SpeakerNext == Opens \/ Pushes \/ Finishes \/ Stops \/ Plays \/ DeviceEnds

SpeakerSpec == SpeakerInit /\ [][SpeakerNext]_speaker

-----------------------------------------------------------------------------
(***************************************************************************)
(* Properties                                                              *)
(***************************************************************************)
SpeakerType == speaker \in Speakers

\* An answer that ended by itself was heard whole: neither a queue that runs
\* dry between two pieces nor an answer shorter than the prebuffer loses any
\* of it (playback.py: "it is never cut short").
HeardWhole ==
  speaker.done /\ ~speaker.stopped /\ ~speaker.failed
    => speaker.consumed = speaker.fed
==============================================================================

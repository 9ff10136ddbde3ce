------------------------------- MODULE WakeWord --------------------------------
(***************************************************************************)
(* From the microphone to "Oye Chat": the capture callback of              *)
(* audio/engine.py, which cuts whatever blocks the device delivers into    *)
(* the detector's frames, the bookkeeping of audio/wakeword.py, which      *)
(* turns a score per frame into activations, and the echo guard of         *)
(* audio/listener.py.  Beside them, the count of activations that voice    *)
(* training compares two models by (voice/training.py), which says it      *)
(* mirrors the detector.                                                   *)
(*                                                                         *)
(* A score is in hundredths and comes from the model and the voice filter, *)
(* which are external: any of Scores.                                      *)
(***************************************************************************)
EXTENDS Integers

CONSTANTS
  Sensitivity,   \* wake_sensitivity, in hundredths
  Margin,        \* echo_guard_margin, in hundredths
  Confirmation,  \* confirmation_frames
  Refractory,    \* _refractory_frames
  FrameSamples,  \* FRAME_SAMPLES
  Blocks,        \* bound: the sizes of block a device delivers
  Scores,        \* bound: the scores of a frame
  MaxFrames      \* bound: frames heard in a behaviour

ASSUME WakeAssumption ==
  /\ Sensitivity \in 0..100 /\ Margin \in Int
  /\ Confirmation \in Nat \ {0} /\ Refractory \in Nat
  /\ FrameSamples \in Nat \ {0} /\ Blocks \subseteq Nat
  /\ Scores \subseteq 0..100 /\ MaxFrames \in Nat

VARIABLES
  capture,   \* "closing": the stream is being stopped, its callback may run
  partial,   \* samples of a frame not complete yet
  ready,     \* frames cut by the callback and not delivered
  tracker,   \* _cooldown, _consecutive and _peak
  room,      \* what leaves the speakers: is_playing unless "silent"
  verdict,   \* what became of the last detection
  frames,    \* frames heard
  detected,  \* detections since the detector was reset
  counted,   \* what count_activations makes of the same frames
  apart      \* history: a frame the two are known to treat differently

wakeVars == <<capture, partial, ready, tracker, room, verdict, frames, detected,
              counted, apart>>

\* threshold_for
ThresholdFor(sensitivity) == 95 - (60 * sensitivity) \div 100

Ceiling == 95

Larger(a, b) == IF a > b THEN a ELSE b
Smaller(a, b) == IF a < b THEN a ELSE b

\* echo_guarded_threshold
EchoGuarded(threshold, margin) ==
  IF margin <= 0 THEN threshold
  ELSE Larger(threshold, Smaller(threshold + margin, Ceiling))

Threshold == ThresholdFor(Sensitivity)
GuardedThreshold == EchoGuarded(Threshold, Margin)

Unheard == [cooldown |-> 0, consecutive |-> 0, peak |-> 0]
Nothing == [activations |-> 0, run |-> 0, fired |-> FALSE]

WakeType ==
  /\ capture \in {"closed", "open", "closing"}
  /\ partial \in 0..FrameSamples - 1
  /\ ready \in Nat
  /\ tracker \in [cooldown : 0..Refractory, consecutive : 0..Confirmation - 1,
                  peak : 0..100]
  /\ room \in {"silent", "sounding", "tail"}
  /\ verdict \in {"none", "woken", "echo"}
  /\ frames \in 0..MaxFrames
  /\ detected \in 0..MaxFrames
  /\ counted \in [activations : 0..MaxFrames, run : 0..MaxFrames, fired : BOOLEAN]
  /\ apart \in BOOLEAN

WakeInit ==
  /\ capture = "closed" /\ partial = 0 /\ ready = 0
  /\ tracker = Unheard /\ room = "silent" /\ verdict = "none" /\ frames = 0
  /\ detected = 0 /\ counted = Nothing /\ apart = FALSE

-----------------------------------------------------------------------------
(* The bookkeeping *)

\* Fault: a score under the threshold leaves the run as it is.
ObservedAcrossGaps(t, score) ==
  IF t.cooldown > 0 THEN
    [t EXCEPT !.cooldown = @ - 1, !.consecutive = 0]
  ELSE IF score < Threshold THEN t
  ELSE IF t.consecutive + 1 < Confirmation THEN
    [t EXCEPT !.consecutive = @ + 1, !.peak = Larger(@, score)]
  ELSE
    [t EXCEPT !.cooldown = Refractory, !.consecutive = 0, !.peak = 0]

\* observe: how one score moves the tracker, and whether it detects.
Observed(t, score) ==
  IF t.cooldown > 0 THEN
    [t EXCEPT !.cooldown = @ - 1, !.consecutive = 0]
  ELSE IF score < Threshold THEN
    [t EXCEPT !.consecutive = 0, !.peak = 0]
  ELSE IF t.consecutive + 1 < Confirmation THEN
    [t EXCEPT !.consecutive = @ + 1, !.peak = Larger(@, score)]
  ELSE
    [t EXCEPT !.cooldown = Refractory, !.consecutive = 0, !.peak = 0]

Detects(t, score) ==
  t.cooldown = 0 /\ score >= Threshold /\ t.consecutive + 1 >= Confirmation

\* The score a detection carries: the peak of its run.
DetectionScore(t, score) == Larger(t.peak, score)

\* What train_personal leaves count_activations to assume, whatever the settings.
CountConfirmation == 2

\* count_activations: a run fires once, and has to break before the next.
Counts(c, score) ==
  score >= Threshold /\ c.run + 1 >= CountConfirmation /\ ~c.fired

CountedAlso(c, score) ==
  IF score < Threshold THEN [c EXCEPT !.run = 0, !.fired = FALSE]
  ELSE [activations |-> c.activations + IF Counts(c, score) THEN 1 ELSE 0,
        run |-> c.run + 1,
        fired |-> c.fired \/ Counts(c, score)]

\* The detector knows a refractory time and the count does not: a second phrase
\* within it is only counted, and a run that outlasts it is only detected again.
TreatedApart(t, c, score) ==
  score >= Threshold /\ IF t.cooldown > 0 THEN ~c.fired ELSE c.fired

-----------------------------------------------------------------------------
(* The listener *)

\* reset
Forgets ==
  /\ tracker' = Unheard
  /\ detected' = 0 /\ counted' = Nothing /\ apart' = FALSE

\* start: the detector is reset, and the microphone opens or is refused.
StartListening ==
  /\ capture = "closed" /\ frames < MaxFrames
  /\ capture' \in {"open", "closed"}
  /\ partial' = 0
  /\ Forgets
  /\ UNCHANGED <<ready, room, verdict, frames>>

\* stop: no callback takes a block from here on, the one that is running
\* delivers the frames it has cut, and the detector is reset when it has.
StopListening ==
  /\ capture = "open"
  /\ capture' = "closing"
  /\ partial' = 0
  /\ UNCHANGED <<ready, tracker, room, verdict, frames, detected, counted, apart>>

StoppedListening ==
  /\ capture = "closing" /\ ready = 0
  /\ capture' = "closed"
  /\ Forgets
  /\ UNCHANGED <<partial, ready, room, verdict, frames>>

\* _callback
Block(samples) ==
  /\ capture = "open" /\ ready = 0 /\ frames < MaxFrames
  /\ ready' = (partial + samples) \div FrameSamples
  /\ partial' = (partial + samples) % FrameSamples
  /\ UNCHANGED <<capture, tracker, room, verdict, frames, detected, counted, apart>>

\* _suppressed_as_echo
IsEcho(score) == room # "silent" /\ Margin > 0 /\ score < GuardedThreshold

\* _handle_frame: a detection that is not taken for an echo silences the answer
\* that sounds or is being thought of.
HearFrame(score) ==
  /\ ready > 0 /\ frames < MaxFrames
  /\ ready' = ready - 1
  /\ frames' = frames + 1
  /\ tracker' = Observed(tracker, score)
  /\ counted' = CountedAlso(counted, score)
  /\ apart' = (apart \/ TreatedApart(tracker, counted, score))
  /\ IF ~Detects(tracker, score) THEN UNCHANGED <<detected, verdict, room>>
     ELSE /\ detected' = detected + 1
          /\ IF IsEcho(DetectionScore(tracker, score))
               THEN verdict' = "echo" /\ UNCHANGED room
               ELSE /\ verdict' = "woken"
                    /\ room' \in IF room = "sounding" THEN {"tail"} ELSE {room, "tail"}
  /\ UNCHANGED <<capture, partial>>

\* The inference raised: the frame is lost to the detector.  After the last
\* frame of a behaviour the ones left are.
FrameLost ==
  /\ ready > 0
  /\ ready' = ready - 1
  /\ UNCHANGED <<capture, partial, tracker, room, verdict, frames, detected,
                 counted, apart>>

-----------------------------------------------------------------------------
(* The answer *)

Room(from, to) ==
  /\ room \in from
  /\ room' = to
  /\ UNCHANGED <<capture, partial, ready, tracker, verdict, frames, detected,
                 counted, apart>>

AnswerSounds == Room({"silent", "tail"}, "sounding")
AnswerEnds == Room({"sounding"}, "silent")
TailEnds == Room({"tail"}, "silent")

-----------------------------------------------------------------------------
WakeStep ==
  \/ StartListening \/ StopListening \/ StoppedListening
  \/ \E samples \in Blocks : Block(samples)
  \/ \E score \in Scores : HearFrame(score)
  \/ FrameLost
  \/ AnswerSounds \/ AnswerEnds \/ TailEnds

-----------------------------------------------------------------------------
(* Properties *)

\* "Mirrors the detector" (training.py:552): on the same frames, however the
\* device cuts them and whatever was lost or reset between, the activations two
\* models are compared by are the ones the class would have had.  The exceptions,
\* which the comment does not know, are the ones TreatedApart names (a second
\* phrase within the refractory time, a run that outlasts it) and settings that
\* ask for another number of frames than the two the count assumes.
CountMirrorsDetector ==
  ~apart /\ Confirmation = CountConfirmation => counted.activations = detected
==============================================================================

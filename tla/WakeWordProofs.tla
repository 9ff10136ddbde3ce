---------------------------- MODULE WakeWordProofs -----------------------------
(***************************************************************************)
(* The detector of WakeWord.tla and the count that mirrors it, for every   *)
(* sensitivity, refractory time, frame size and score.                     *)
(***************************************************************************)
EXTENDS WakeWord, TLAPS

\* Nothing is counted that was not heard.
Bounded ==
  /\ detected <= frames
  /\ counted.activations <= frames
  /\ counted.run <= frames

\* As long as they treat every frame alike, the count and the detector agree and
\* are at the same place in the run: the one that has fired waits for it to
\* break, and the one that has not is as far as the other.
Together ==
  ~apart /\ Confirmation = CountConfirmation =>
    /\ counted.activations = detected
    /\ counted.fired => tracker.consecutive = 0
    /\ ~counted.fired => counted.run = tracker.consecutive

WakeInv == WakeType /\ Bounded /\ Together

Tracker == [cooldown : 0..Refractory, consecutive : 0..Confirmation - 1, peak : 0..100]
Count == [activations : Nat, run : Nat, fired : BOOLEAN]

-----------------------------------------------------------------------------
(* One frame *)

LEMMA ThresholdIsANumber == Threshold \in Int
BY WakeAssumption DEF Threshold, ThresholdFor

\* observe leaves a tracker.
LEMMA ObservedIsATracker ==
  ASSUME NEW t \in Tracker, NEW score \in 0..100
  PROVE  Observed(t, score) \in Tracker
<1> USE WakeAssumption
<1>1. CASE t.cooldown > 0
  <2>1. t.cooldown - 1 \in 0..Refractory
    BY <1>1 DEF Tracker
  <2>2. 0 \in 0..Confirmation - 1
    OBVIOUS
  <2> QED BY <1>1, <2>1, <2>2 DEF Observed, Tracker
<1>2. CASE ~(t.cooldown > 0) /\ score < Threshold
  <2>1. Observed(t, score) = [t EXCEPT !.consecutive = 0, !.peak = 0]
    BY <1>2 DEF Observed
  <2>2. 0 \in 0..Confirmation - 1 /\ 0 \in 0..100
    OBVIOUS
  <2> QED BY <2>1, <2>2 DEF Tracker
<1>3. CASE ~(t.cooldown > 0) /\ ~(score < Threshold) /\ t.consecutive + 1 < Confirmation
  <2>1. Observed(t, score)
          = [t EXCEPT !.consecutive = @ + 1, !.peak = Larger(@, score)]
    BY <1>3 DEF Observed
  <2>2. t.consecutive + 1 \in 0..Confirmation - 1
    BY <1>3 DEF Tracker
  <2>3. Larger(t.peak, score) \in 0..100
    BY DEF Larger, Tracker
  <2> QED BY <2>1, <2>2, <2>3 DEF Tracker
<1>4. CASE ~(t.cooldown > 0) /\ ~(score < Threshold) /\ ~(t.consecutive + 1 < Confirmation)
  <2>1. Observed(t, score)
          = [t EXCEPT !.cooldown = Refractory, !.consecutive = 0, !.peak = 0]
    BY <1>4 DEF Observed
  <2>2. Refractory \in 0..Refractory /\ 0 \in 0..Confirmation - 1 /\ 0 \in 0..100
    OBVIOUS
  <2> QED BY <2>1, <2>2 DEF Tracker
<1> QED BY <1>1, <1>2, <1>3, <1>4

\* One frame adds at most one activation to the count, and at most one to the run.
LEMMA CountedIsACount ==
  ASSUME NEW c \in Count, NEW score \in 0..100
  PROVE  LET after == CountedAlso(c, score) IN
         /\ after \in Count
         /\ after.activations = c.activations + (IF Counts(c, score) THEN 1 ELSE 0)
         /\ after.run = IF score < Threshold THEN 0 ELSE c.run + 1
         /\ after.fired <=> score >= Threshold /\ (c.fired \/ Counts(c, score))
<1> USE ThresholdIsANumber
<1>1. CASE score < Threshold
  <2>1. CountedAlso(c, score) = [activations |-> c.activations, run |-> 0, fired |-> FALSE]
    BY <1>1 DEF CountedAlso, Count
  <2>2. ~Counts(c, score)
    BY <1>1 DEF Counts
  <2>3. CountedAlso(c, score) \in Count
    BY <2>1 DEF Count
  <2>4. ~(score >= Threshold)
    BY <1>1
  <2> QED BY <1>1, <2>1, <2>2, <2>3, <2>4 DEF Count
<1>2. CASE ~(score < Threshold)
  <2>1. CountedAlso(c, score)
          = [activations |-> c.activations + IF Counts(c, score) THEN 1 ELSE 0,
             run |-> c.run + 1,
             fired |-> c.fired \/ Counts(c, score)]
    BY <1>2 DEF CountedAlso
  <2>2. Counts(c, score) \in BOOLEAN /\ c.fired \in BOOLEAN
    BY DEF Counts, Count
  <2>3. score >= Threshold
    BY <1>2
  <2>4. CountedAlso(c, score) \in Count
    BY <2>1, <2>2 DEF Count
  <2> QED BY <1>2, <2>1, <2>2, <2>3, <2>4
<1> QED BY <1>1, <1>2

\* A frame the two treat alike keeps them together.
LEMMA FrameKeepsTogether ==
  ASSUME NEW t \in Tracker, NEW c \in Count, NEW score \in 0..100, NEW d \in Nat,
         Confirmation = CountConfirmation,
         ~TreatedApart(t, c, score),
         c.activations = d,
         c.fired => t.consecutive = 0,
         ~c.fired => c.run = t.consecutive
  PROVE  LET after == CountedAlso(c, score)
             moved == Observed(t, score)
         IN /\ after.activations = d + (IF Detects(t, score) THEN 1 ELSE 0)
            /\ after.fired => moved.consecutive = 0
            /\ ~after.fired => after.run = moved.consecutive
<1> DEFINE after == CountedAlso(c, score)
           moved == Observed(t, score)
<1> SUFFICES /\ after.activations = d + (IF Detects(t, score) THEN 1 ELSE 0)
             /\ after.fired => moved.consecutive = 0
             /\ ~after.fired => after.run = moved.consecutive
  OBVIOUS
<1>0. /\ after \in Count /\ c.activations \in Nat
      /\ after.activations = c.activations + (IF Counts(c, score) THEN 1 ELSE 0)
      /\ after.run = IF score < Threshold THEN 0 ELSE c.run + 1
      /\ after.fired <=> score >= Threshold /\ (c.fired \/ Counts(c, score))
  BY CountedIsACount DEF Count
<1> HIDE DEF after
<1> USE ThresholdIsANumber, WakeAssumption
<1>1. CASE t.cooldown > 0
  <2>1. moved.consecutive = 0
    BY <1>1 DEF Observed, Tracker
  <2>2. ~Detects(t, score)
    BY <1>1 DEF Detects, Tracker
  <2>3. score >= Threshold => c.fired
    BY <1>1 DEF TreatedApart, Tracker
  <2>4. ~Counts(c, score)
    BY <2>3 DEF Counts
  <2> QED BY <1>0, <2>1, <2>2, <2>3, <2>4
<1>2. CASE ~(t.cooldown > 0) /\ score < Threshold
  <2>1. moved.consecutive = 0
    BY <1>2 DEF Observed, Tracker
  <2>2. ~Detects(t, score) /\ ~Counts(c, score)
    BY <1>2 DEF Detects, Counts
  <2> QED BY <1>0, <1>2, <2>1, <2>2
<1>3. CASE ~(t.cooldown > 0) /\ ~(score < Threshold)
  <2>1. score >= Threshold /\ t.cooldown = 0
    BY <1>3 DEF Tracker
  <2>2. ~c.fired /\ c.run = t.consecutive
    BY <1>3, <2>1 DEF TreatedApart, Count
  <2>3. Counts(c, score) <=> Detects(t, score)
    BY <2>1, <2>2 DEF Counts, Detects
  <2>4. CASE t.consecutive + 1 < Confirmation
    <3>1. moved.consecutive = t.consecutive + 1
      BY <1>3, <2>4 DEF Observed, Tracker
    <3>2. ~Detects(t, score)
      BY <2>4 DEF Detects, Tracker
    <3> QED BY <1>0, <1>3, <2>1, <2>2, <2>3, <3>1, <3>2
  <2>5. CASE ~(t.consecutive + 1 < Confirmation)
    <3>1. moved.consecutive = 0
      BY <1>3, <2>5 DEF Observed, Tracker
    <3>2. Detects(t, score)
      BY <2>1, <2>5 DEF Detects, Tracker
    <3> QED BY <1>0, <1>3, <2>1, <2>2, <2>3, <3>1, <3>2
  <2> QED BY <2>4, <2>5
<1> QED BY <1>1, <1>2, <1>3

-----------------------------------------------------------------------------
(* The invariant *)

LEMMA WakeInitInv == WakeInit => WakeInv
<1> SUFFICES ASSUME WakeInit PROVE WakeInv
  OBVIOUS
<1> USE WakeAssumption
<1>1. Unheard \in [cooldown : 0..Refractory, consecutive : 0..Confirmation - 1, peak : 0..100]
  BY DEF Unheard
<1>2. Nothing \in [activations : 0..MaxFrames, run : 0..MaxFrames, fired : BOOLEAN]
  BY DEF Nothing
<1>3. WakeType
  <2>1. partial \in 0..FrameSamples - 1 /\ frames \in 0..MaxFrames /\ detected \in 0..MaxFrames
    BY DEF WakeInit
  <2> QED BY <1>1, <1>2, <2>1 DEF WakeType, WakeInit
<1>4. Bounded /\ Together
  BY DEF Bounded, Together, WakeInit, Unheard, Nothing
<1> QED BY <1>3, <1>4 DEF WakeInv

\* A reset forgets both.
LEMMA ForgetsKeeps ==
  ASSUME WakeInv, Forgets, UNCHANGED frames
  PROVE  /\ tracker' \in [cooldown : 0..Refractory, consecutive : 0..Confirmation - 1,
                          peak : 0..100]
         /\ detected' \in 0..MaxFrames
         /\ counted' \in [activations : 0..MaxFrames, run : 0..MaxFrames, fired : BOOLEAN]
         /\ apart' \in BOOLEAN
         /\ Bounded'
         /\ Together'
<1> USE WakeAssumption DEF Forgets, Unheard, Nothing
<1>1. tracker' \in [cooldown : 0..Refractory, consecutive : 0..Confirmation - 1, peak : 0..100]
  OBVIOUS
<1>2. counted' \in [activations : 0..MaxFrames, run : 0..MaxFrames, fired : BOOLEAN]
  OBVIOUS
<1>3. Bounded'
  BY DEF Bounded, WakeInv, WakeType
<1>4. Together'
  BY DEF Together
<1> QED BY <1>1, <1>2, <1>3, <1>4

LEMMA HearFrameKeeps ==
  ASSUME WakeInv, NEW score \in Scores, HearFrame(score)
  PROVE  WakeInv'
<1> USE WakeAssumption
<1>1. tracker \in Tracker /\ counted \in Count /\ score \in 0..100
  BY DEF WakeInv, WakeType, Tracker, Count
<1>2. /\ frames' = frames + 1
      /\ tracker' = Observed(tracker, score)
      /\ counted' = CountedAlso(counted, score)
      /\ apart' = (apart \/ TreatedApart(tracker, counted, score))
      /\ detected' = detected + IF Detects(tracker, score) THEN 1 ELSE 0
      /\ ready' = ready - 1 /\ ready' \in Nat
      /\ capture' = capture /\ partial' = partial
      /\ frames' \in 0..MaxFrames
  BY DEF HearFrame, WakeInv, WakeType
<1>3. tracker' \in Tracker
  BY <1>1, <1>2, ObservedIsATracker
<1>4. /\ counted' \in Count
      /\ counted'.activations = counted.activations + (IF Counts(counted, score) THEN 1 ELSE 0)
      /\ counted'.run = IF score < Threshold THEN 0 ELSE counted.run + 1
  BY <1>1, <1>2, CountedIsACount
<1>5. Bounded'
  <2>1. detected' <= frames'
    BY <1>2 DEF WakeInv, Bounded, WakeType
  <2>2. counted'.activations <= frames'
    BY <1>1, <1>2, <1>4 DEF WakeInv, Bounded, WakeType, Count
  <2>3. counted'.run <= frames'
    BY <1>1, <1>2, <1>4 DEF WakeInv, Bounded, WakeType, Count
  <2> QED BY <2>1, <2>2, <2>3 DEF Bounded
<1>6. counted' \in [activations : 0..MaxFrames, run : 0..MaxFrames, fired : BOOLEAN]
  BY <1>2, <1>4, <1>5 DEF Bounded, Count
<1>7. detected' \in 0..MaxFrames
  BY <1>2, <1>5 DEF Bounded, WakeInv, WakeType
<1>8. room' \in {"silent", "sounding", "tail"} /\ verdict' \in {"none", "woken", "echo"}
  BY DEF HearFrame, WakeInv, WakeType
<1>9. apart' \in BOOLEAN
  BY <1>2 DEF WakeInv, WakeType, TreatedApart
<1>10. WakeType'
  <2>1. capture' \in {"closed", "open", "closing"} /\ partial' \in 0..FrameSamples - 1
    BY <1>2 DEF WakeInv, WakeType
  <2> QED BY <1>2, <1>3, <1>6, <1>7, <1>8, <1>9, <2>1 DEF WakeType, Tracker
<1>11. Together'
  <2> SUFFICES ASSUME ~apart', Confirmation = CountConfirmation
               PROVE  /\ counted'.activations = detected'
                      /\ counted'.fired => tracker'.consecutive = 0
                      /\ ~counted'.fired => counted'.run = tracker'.consecutive
    BY DEF Together
  <2>1. ~apart /\ ~TreatedApart(tracker, counted, score)
    BY <1>2 DEF WakeInv, WakeType, TreatedApart
  <2>2. /\ counted.activations = detected
        /\ counted.fired => tracker.consecutive = 0
        /\ ~counted.fired => counted.run = tracker.consecutive
    BY <2>1 DEF WakeInv, Together
  <2>3. detected \in Nat
    BY DEF WakeInv, WakeType
  <2> QED BY <1>1, <1>2, <2>1, <2>2, <2>3, FrameKeepsTogether
<1> QED BY <1>5, <1>10, <1>11 DEF WakeInv

\* What a step that hears no frame and forgets nothing leaves of the invariant.
LEMMA NothingHeardKeeps ==
  ASSUME WakeInv, UNCHANGED <<tracker, frames, detected, counted, apart>>
  PROVE  Bounded' /\ Together'
BY DEF WakeInv, Bounded, Together

LEMMA WakeStepInv ==
  ASSUME WakeInv, [WakeStep]_wakeVars
  PROVE  WakeInv'
<1> USE WakeAssumption
<1>1. CASE StartListening
  <2>1. Forgets /\ UNCHANGED frames
    BY <1>1 DEF StartListening
  <2>2. WakeType'
    BY <1>1, <2>1, ForgetsKeeps DEF StartListening, WakeInv, WakeType
  <2> QED BY <2>1, <2>2, ForgetsKeeps DEF WakeInv
<1>2. CASE StopListening
  <2>1. WakeType'
    BY <1>2 DEF StopListening, WakeInv, WakeType
  <2> QED BY <1>2, <2>1, NothingHeardKeeps DEF StopListening, WakeInv
<1>3. CASE StoppedListening
  <2>1. Forgets /\ UNCHANGED frames
    BY <1>3 DEF StoppedListening
  <2>2. WakeType'
    BY <1>3, <2>1, ForgetsKeeps DEF StoppedListening, WakeInv, WakeType
  <2> QED BY <2>1, <2>2, ForgetsKeeps DEF WakeInv
<1>4. ASSUME NEW samples \in Blocks, Block(samples) PROVE WakeInv'
  <2>1. partial + samples \in Nat
    BY <1>4 DEF WakeInv, WakeType
  <2>2. ready' \in Nat /\ partial' \in 0..FrameSamples - 1
    BY <1>4, <2>1 DEF Block
  <2>3. WakeType'
    BY <1>4, <2>2 DEF Block, WakeInv, WakeType
  <2> QED BY <1>4, <2>3, NothingHeardKeeps DEF Block, WakeInv
<1>5. ASSUME NEW score \in Scores, HearFrame(score) PROVE WakeInv'
  BY <1>5, HearFrameKeeps
<1>6. CASE FrameLost
  <2>1. ready' \in Nat
    BY <1>6 DEF FrameLost, WakeInv, WakeType
  <2>2. WakeType'
    BY <1>6, <2>1 DEF FrameLost, WakeInv, WakeType
  <2> QED BY <1>6, <2>2, NothingHeardKeeps DEF FrameLost, WakeInv
<1>7. CASE AnswerSounds \/ AnswerEnds \/ TailEnds
  <2>1. WakeType' /\ UNCHANGED <<tracker, frames, detected, counted, apart>>
    BY <1>7 DEF AnswerSounds, AnswerEnds, TailEnds, Room, WakeInv, WakeType
  <2> QED BY <2>1, NothingHeardKeeps DEF WakeInv
<1>8. CASE UNCHANGED wakeVars
  <2>1. WakeType' /\ UNCHANGED <<tracker, frames, detected, counted, apart>>
    BY <1>8 DEF wakeVars, WakeInv, WakeType
  <2> QED BY <2>1, NothingHeardKeeps DEF WakeInv
<1> QED
  BY <1>1, <1>2, <1>3, <1>4, <1>5, <1>6, <1>7, <1>8 DEF WakeStep

\* The detector and the listener on their own.
WakeSpec == WakeInit /\ [][WakeStep]_wakeVars

LEMMA WakeInvariant == WakeSpec => []WakeInv
BY WakeInitInv, WakeStepInv, PTL DEF WakeSpec

\* The activations voice training compares two models by are those the class
\* would have had, for every sensitivity, refractory time and sequence of
\* scores, as long as no frame is one the two are known to treat differently.
THEOREM CountMirrors == WakeSpec => []CountMirrorsDetector
<1>1. WakeInv => CountMirrorsDetector
  BY DEF WakeInv, Together, CountMirrorsDetector
<1> QED BY <1>1, WakeInvariant, PTL
==============================================================================

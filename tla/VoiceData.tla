------------------------------- MODULE VoiceData -------------------------------
(***************************************************************************)
(* The decisions the voice training makes about data: whether a recording  *)
(* is a usable take and what is kept of it (voice/takes.py), which windows *)
(* of a clip are examples of the phrase and how many examples of each kind *)
(* are kept (voice/training.py), and whether the new model is recommended  *)
(* (voice/personal.py).  Sound is the level of each frame, in hundredths;  *)
(* a rate is in tenths of a percent.                                       *)
(***************************************************************************)
EXTENDS Integers, Sequences, FiniteSets

FRAME_SAMPLES == 1280
CAPTURE_SAMPLE_RATE == 16000
MIN_PEAK_LEVEL == 30
MIN_CONTRAST == 15
SPEECH_EXTENT == 25   \* per cent of the way from the room to the peak
MARGIN_SAMPLES == 1600
MIN_SPEECH_FRAMES == 2    \* 0.16 s of frames of 0.08 s
MAX_SPEECH_FRAMES == 31   \* 2.5 s
MIN_SPEECH_SHARE == 30

Least(a, b) == IF a < b THEN a ELSE b
Most(a, b) == IF a > b THEN a ELSE b

\* The level that so many are below: sorted(levels)[k], counted from 0.
Ranked(levels, k) ==
  CHOOSE v \in {levels[i] : i \in DOMAIN levels} :
    /\ Cardinality({i \in DOMAIN levels : levels[i] < v}) <= k
    /\ Cardinality({i \in DOMAIN levels : levels[i] <= v}) > k

\* np.percentile, times 100: between two neighbours, in proportion.
Percentile(levels, p) ==
  LET at == (Len(levels) - 1) * p
      low == Ranked(levels, at \div 100)
      high == IF at % 100 = 0 THEN low ELSE Ranked(levels, at \div 100 + 1)
  IN 100 * low + (at % 100) * (high - low)

Loudest(levels) == 100 * Ranked(levels, Len(levels) - 1)

\* The frames at or over the room's level plus a share of the contrast.
Speaking(levels, floor, peak) ==
  {i \in DOMAIN levels :
     100 * 100 * levels[i] >= 100 * floor + SPEECH_EXTENT * (peak - floor)}

First(S) == CHOOSE i \in S : \A j \in S : i <= j
Last(S) == CHOOSE i \in S : \A j \in S : j <= i

\* The samples of a take that are kept: the frames of speech, counted from 1,
\* and a margin on either side, within the recording.
TakeStart(first) == Most(0, (first - 1) * FRAME_SAMPLES - MARGIN_SAMPLES)
TakeEnd(last, samples) == Least(samples, last * FRAME_SAMPLES + MARGIN_SAMPLES)

\* analyse: what is wrong with a recording, or that nothing is.
Analyse(levels) ==
  IF Len(levels) < 3 THEN "empty"
  ELSE LET peak == Loudest(levels)
           floor == Percentile(levels, 5)
           speaking == Speaking(levels, floor, peak)
           length == Last(speaking) - First(speaking) + 1
       IN IF peak < 100 * MIN_PEAK_LEVEL THEN "inaudible"
          ELSE IF peak - floor < 100 * MIN_CONTRAST THEN "noise"
          ELSE IF Last(speaking) = Len(levels) THEN "cut"
          ELSE IF length < MIN_SPEECH_FRAMES THEN "short"
          ELSE IF length > MAX_SPEECH_FRAMES THEN "long" ELSE "take"

\* analyse_speech, of half a minute of ordinary talk.
AnalyseSpeech(levels) ==
  IF Len(levels) < 3 THEN "empty"
  ELSE LET peak == Percentile(levels, 95)
           floor == Percentile(levels, 5)
           share == Cardinality(Speaking(levels, floor, peak)) * 100
       IN IF peak < 100 * MIN_PEAK_LEVEL THEN "inaudible"
          ELSE IF \/ peak - floor < 100 * MIN_CONTRAST
                  \/ share < MIN_SPEECH_SHARE * Len(levels)
          THEN "silent" ELSE "take"

-----------------------------------------------------------------------------
(* Examples *)

WINDOW_FRAMES == 16
HOP == 8        \* EMBEDDING_HOP_SECONDS, in hundredths of a second
CONTEXT == 76   \* EMBEDDING_CONTEXT_SECONDS
WINDOW == HOP * (WINDOW_FRAMES - 1) + CONTEXT

\* window_index_for, of an instant in hundredths of a second; a half goes to
\* the even side, as round does.
WindowIndex(end) ==
  LET twice == 2 * (end - CONTEXT)
      low == twice \div (2 * HOP)
      rest == twice % (2 * HOP)
  IN (IF rest > HOP \/ (rest = HOP /\ low % 2 = 1) THEN low + 1 ELSE low)
       - (WINDOW_FRAMES - 1)

\* The windows of a clip of so many embeddings, from 0.
Windows(embeddings) ==
  IF embeddings < WINDOW_FRAMES THEN {} ELSE 0..embeddings - WINDOW_FRAMES

\* positive_windows
PositiveWindows(embeddings, end) ==
  {i \in Windows(embeddings) : i - WindowIndex(end) \in -2..2}

NEGATIVE_RATIO == 2

\* balance: how many positives and negatives are kept.
Balanced(positives, negatives) ==
  LET wanted == Least(positives, negatives \div NEGATIVE_RATIO)
      kept == Least(positives, wanted)
  IN IF wanted < 1 THEN [positives |-> positives, negatives |-> negatives]
     ELSE [positives |-> kept,
           negatives |-> Least(negatives, NEGATIVE_RATIO * kept)]

\* The replay of the synthetic corpus beside so many personal windows.
REPLAY_RATIO == 2

Replay(personal, positives, negatives) ==
  LET total == personal * REPLAY_RATIO
      kept == Least(positives, total \div 3)
  IN [positives |-> kept, negatives |-> Least(negatives, total - kept)]

-----------------------------------------------------------------------------
(* The comparison *)

BASE_FALSE_RATE_TOLERANCE == 1

\* judge: whether the tuned model is worse where it matters, and better at all.
Worse(original, tuned) ==
  \/ tuned.speech > original.speech
  \/ tuned.falseRate > original.falseRate + BASE_FALSE_RATE_TOLERANCE
  \/ tuned.phrase < original.phrase

Gains(original, tuned) ==
  \/ tuned.phrase > original.phrase
  \/ tuned.nearMisses < original.nearMisses
  \/ tuned.speech < original.speech

Recommended(original, tuned) == ~Worse(original, tuned) /\ Gains(original, tuned)
==============================================================================

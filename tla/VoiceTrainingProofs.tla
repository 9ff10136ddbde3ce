-------------------------- MODULE VoiceTrainingProofs --------------------------
(***************************************************************************)
(* The voice training of VoiceTraining.tla, for every number of takes,     *)
(* every set of phrases and however often it is restarted, and what the    *)
(* arithmetic of VoiceData.tla comes to.                                   *)
(***************************************************************************)
EXTENDS VoiceTraining, TLAPS

\* A model is for the phrase its file is named for, and the thread that trains
\* one was told the phrase that names its file.
ModelsNamed ==
  ~renamed =>
    /\ \A p \in Phrases : installed[p] \in {None, p} /\ pending[p] \in {None, p}
    /\ trainer # None /\ trainer.step = "started" => trainer.phrase = phrase
    /\ trainer # None /\ trainer.step = "training" => trainer.file = trainer.phrase

\* Every take that is kept was recorded for the training to come, and so is
\* whatever is between the two locks of record unless it is late.
TakesFresh ==
  ~overdue => \A s \in Slots : takes[s] \in {None, dropped}

VoiceInv == VoiceType /\ ModelsNamed /\ TakesFresh

\* The steps of the session, whoever uses the microphone meanwhile.
VoiceStep ==
  \/ TakeThread \/ TrainingThread \/ TrainingRequests
  \/ \E inUse \in BOOLEAN : TakeRequests(inUse)
  \/ VoiceRestart

-----------------------------------------------------------------------------
(* The invariant *)

LEMMA NoModelsTyped == NoModels \in [Phrases -> Model] /\ \A p \in Phrases : NoModels[p] = None
BY DEF NoModels, Model

LEMMA NoTakesTyped ==
  NoTakes \in [Slots -> Nat \cup {None}] /\ \A s \in Slots : NoTakes[s] = None
BY DEF NoTakes

LEMMA VoiceInitInv == VoiceInit => VoiceInv
<1> SUFFICES ASSUME VoiceInit PROVE VoiceInv
  OBVIOUS
<1>1. VoiceType
  BY NoModelsTyped, NoTakesTyped DEF VoiceInit, VoiceType
<1>2. ModelsNamed
  BY NoModelsTyped DEF VoiceInit, ModelsNamed
<1>3. TakesFresh
  BY NoTakesTyped DEF VoiceInit, TakesFresh
<1> QED BY <1>1, <1>2, <1>3 DEF VoiceInv

\* What the steps of a take leave alone.
ModelsKept == UNCHANGED <<trainer, pending, installed, phrase, renamed>>

LEMMA ModelsKeptNamed == ASSUME ModelsNamed, ModelsKept PROVE ModelsNamed'
BY DEF ModelsNamed, ModelsKept

\* What the steps of the training and of the teacher leave alone.
TakesKept == UNCHANGED <<takes, dropped, overdue>>

LEMMA TakesKeptFresh == ASSUME TakesFresh, TakesKept PROVE TakesFresh'
BY DEF TakesFresh, TakesKept

LEMMA TakeAskedKeeps ==
  ASSUME VoiceInv, NEW s \in Slots, NEW inUse \in BOOLEAN, TakeAsked(s, inUse)
  PROVE  VoiceInv'
<1>1. [slot |-> s, number |-> dropped] \in Take
  BY DEF VoiceInv, VoiceType, Take
<1>2. VoiceType'
  BY <1>1 DEF TakeAsked, VoiceInv, VoiceType
<1>3. ModelsKept /\ TakesKept
  BY DEF TakeAsked, ModelsKept, TakesKept
<1> QED BY <1>2, <1>3, ModelsKeptNamed, TakesKeptFresh DEF VoiceInv

LEMMA ForgetKeeps ==
  ASSUME VoiceInv, NEW s \in Slots, Forget(s)
  PROVE  VoiceInv'
<1>1. takes' = [takes EXCEPT ![s] = None] /\ takes \in [Slots -> Nat \cup {None}]
  BY DEF Forget, VoiceInv, VoiceType
<1>2. VoiceType'
  BY <1>1 DEF Forget, VoiceInv, VoiceType
<1>3. ModelsKept
  BY DEF Forget, ModelsKept
<1>4. TakesFresh'
  BY <1>1 DEF Forget, VoiceInv, TakesFresh
<1> QED BY <1>2, <1>3, <1>4, ModelsKeptNamed DEF VoiceInv

LEMMA TakeThreadKeeps ==
  ASSUME VoiceInv, TakeThread
  PROVE  VoiceInv'
<1>1. CASE TakeOpens
  <2>1. VoiceType'
    BY <1>1 DEF TakeOpens, VoiceInv, VoiceType
  <2>2. ModelsKept /\ TakesKept
    BY <1>1 DEF TakeOpens, ModelsKept, TakesKept
  <2> QED BY <2>1, <2>2, ModelsKeptNamed, TakesKeptFresh DEF VoiceInv
<1>2. CASE TakeFails
  <2>1. VoiceType'
    BY <1>2 DEF TakeFails, VoiceInv, VoiceType
  <2>2. ModelsKept /\ TakesKept
    BY <1>2 DEF TakeFails, ModelsKept, TakesKept
  <2> QED BY <2>1, <2>2, ModelsKeptNamed, TakesKeptFresh DEF VoiceInv
<1>3. CASE TakeEnds
  <2>1. VoiceType'
    BY <1>3 DEF TakeEnds, VoiceInv, VoiceType
  <2>2. ModelsKept /\ TakesKept
    BY <1>3 DEF TakeEnds, ModelsKept, TakesKept
  <2> QED BY <2>1, <2>2, ModelsKeptNamed, TakesKeptFresh DEF VoiceInv
<1>4. CASE TakeKept
  <2>1. /\ kept \in Take
        /\ takes \in [Slots -> Nat \cup {None}]
        /\ takes' = [takes EXCEPT ![kept.slot] = kept.number]
        /\ overdue' = (overdue \/ kept.number # dropped)
    BY <1>4 DEF TakeKept, VoiceInv, VoiceType
  <2>2. takes' \in [Slots -> Nat \cup {None}]
    BY <2>1 DEF Take
  <2>3. overdue' \in BOOLEAN
    BY <2>1 DEF VoiceInv, VoiceType
  <2>4. VoiceType'
    BY <1>4, <2>2, <2>3 DEF TakeKept, VoiceInv, VoiceType
  <2>5. TakesFresh'
    BY <1>4, <2>1 DEF TakeKept, VoiceInv, TakesFresh, Take
  <2>6. ModelsKept
    BY <1>4 DEF TakeKept, ModelsKept
  <2> QED BY <2>4, <2>5, <2>6, ModelsKeptNamed DEF VoiceInv
<1> QED BY <1>1, <1>2, <1>3, <1>4 DEF TakeThread

Trainers == [step : {"started"}, phrase : Phrases]
              \cup [step : {"training"}, phrase : Phrases, file : Phrases]

\* The training thread names its file for the phrase it was told, and its takes
\* go with it.
LEMMA TrainingThreadKeeps ==
  ASSUME VoiceInv, TrainingThread
  PROVE  VoiceInv'
<1>0. trainer # None => trainer \in Trainers
  BY DEF VoiceInv, VoiceType, Trainers
<1>1. CASE TrainerBegins
  <2>1. /\ trainer # None /\ trainer.step = "started"
        /\ trainer' = [step |-> "training", phrase |-> trainer.phrase, file |-> phrase]
        /\ pending' = NoModels
        /\ UNCHANGED <<installed, phrase, renamed>> /\ TakesKept
    BY <1>1 DEF TrainerBegins, TakesKept
  <2>2. trainer.phrase \in Phrases /\ phrase \in Phrases
    BY <1>0, <2>1 DEF Trainers, VoiceInv, VoiceType
  <2>3. VoiceType'
    BY <1>1, <2>1, <2>2, NoModelsTyped DEF TrainerBegins, VoiceInv, VoiceType
  <2>4. ModelsNamed'
    BY <2>1, NoModelsTyped DEF ModelsNamed, VoiceInv
  <2> QED BY <2>1, <2>3, <2>4, TakesKeptFresh DEF VoiceInv
<1>2. CASE TrainerSucceeds
  <2>1. /\ trainer # None /\ trainer.step = "training" /\ trainer' = None
        /\ pending' = [pending EXCEPT ![trainer.file] = trainer.phrase]
        /\ UNCHANGED <<installed, phrase, renamed>> /\ TakesKept
    BY <1>2 DEF TrainerSucceeds, TrainerEnds, TakesKept
  <2>2. trainer.phrase \in Phrases /\ trainer.file \in Phrases
    BY <1>0, <2>1 DEF Trainers
  <2>3. pending \in [Phrases -> Model] /\ pending' \in [Phrases -> Model]
    BY <2>1, <2>2 DEF VoiceInv, VoiceType, Model
  <2>4. VoiceType'
    BY <1>2, <2>1, <2>3 DEF TrainerSucceeds, TrainerEnds, VoiceInv, VoiceType
  <2>5. ModelsNamed'
    BY <2>1, <2>2, <2>3 DEF ModelsNamed, VoiceInv
  <2> QED BY <2>1, <2>4, <2>5, TakesKeptFresh DEF VoiceInv
<1>3. CASE TrainerFails
  <2>1. /\ trainer' = None /\ UNCHANGED <<installed, phrase, renamed, pending>>
        /\ TakesKept
    BY <1>3 DEF TrainerFails, TrainerEnds, TakesKept
  <2>2. VoiceType'
    BY <1>3, <2>1 DEF TrainerFails, TrainerEnds, VoiceInv, VoiceType
  <2>3. ModelsNamed'
    BY <2>1 DEF ModelsNamed, VoiceInv
  <2> QED BY <2>1, <2>2, <2>3, TakesKeptFresh DEF VoiceInv
<1>4. CASE DropsPending
  <2>1. /\ pending' = NoModels /\ UNCHANGED <<trainer, installed, phrase, renamed>>
        /\ TakesKept
    BY <1>4 DEF DropsPending, TakesKept
  <2>2. VoiceType'
    BY <1>4, <2>1, NoModelsTyped DEF DropsPending, VoiceInv, VoiceType
  <2>3. ModelsNamed'
    BY <2>1, NoModelsTyped DEF ModelsNamed, VoiceInv
  <2> QED BY <2>1, <2>2, <2>3, TakesKeptFresh DEF VoiceInv
<1>5. CASE DropsTakes
  <2>1. takes' = NoTakes /\ dropped' = dropped + 1 /\ ModelsKept
    BY <1>5 DEF DropsTakes, ModelsKept
  <2>2. VoiceType'
    BY <1>5, <2>1, NoTakesTyped DEF DropsTakes, VoiceInv, VoiceType
  <2>3. TakesFresh'
    BY <2>1, NoTakesTyped DEF TakesFresh
  <2> QED BY <2>1, <2>2, <2>3, ModelsKeptNamed DEF VoiceInv
<1> QED BY <1>1, <1>2, <1>3, <1>4, <1>5 DEF TrainingThread

\* Neither the teacher's decision nor the settings bring a model to another
\* phrase.
LEMMA TrainingRequestsKeep ==
  ASSUME VoiceInv, TrainingRequests
  PROVE  VoiceInv'
<1>0. /\ phrase \in Phrases
      /\ pending \in [Phrases -> Model] /\ installed \in [Phrases -> Model]
  BY DEF VoiceInv, VoiceType
<1>1. CASE StartTraining
  <2>1. /\ trainer' = [step |-> "started", phrase |-> phrase]
        /\ UNCHANGED <<pending, installed, phrase, renamed>> /\ TakesKept
    BY <1>1 DEF StartTraining, TakesKept
  <2>2. VoiceType'
    BY <1>0, <1>1, <2>1 DEF StartTraining, VoiceInv, VoiceType
  <2>3. ModelsNamed'
    BY <2>1 DEF ModelsNamed, VoiceInv
  <2> QED BY <2>1, <2>2, <2>3, TakesKeptFresh DEF VoiceInv
<1>2. CASE Accept
  <2>1. /\ installed' = [installed EXCEPT ![phrase] = pending[phrase]]
        /\ pending' = NoModels
        /\ UNCHANGED <<trainer, phrase, renamed>> /\ TakesKept
    BY <1>2 DEF Accept, TakesKept
  <2>2. installed' \in [Phrases -> Model]
    BY <1>0, <2>1
  <2>3. VoiceType'
    BY <1>2, <2>1, <2>2, NoModelsTyped DEF Accept, VoiceInv, VoiceType
  <2>4. ModelsNamed'
    BY <1>0, <2>1, NoModelsTyped DEF ModelsNamed, VoiceInv
  <2> QED BY <2>1, <2>3, <2>4, TakesKeptFresh DEF VoiceInv
<1>3. CASE Discard
  <2>1. /\ pending' = NoModels
        /\ UNCHANGED <<trainer, installed, phrase, renamed>> /\ TakesKept
    BY <1>3 DEF Discard, TakesKept
  <2>2. VoiceType'
    BY <1>3, <2>1, NoModelsTyped DEF Discard, VoiceInv, VoiceType
  <2>3. ModelsNamed'
    BY <2>1, NoModelsTyped DEF ModelsNamed, VoiceInv
  <2> QED BY <2>1, <2>2, <2>3, TakesKeptFresh DEF VoiceInv
<1>4. CASE RestoreOriginal
  <2>1. /\ installed' = [installed EXCEPT ![phrase] = None]
        /\ UNCHANGED <<trainer, pending, phrase, renamed>> /\ TakesKept
    BY <1>4 DEF RestoreOriginal, TakesKept
  <2>2. installed' \in [Phrases -> Model]
    BY <1>0, <2>1 DEF Model
  <2>3. VoiceType'
    BY <1>4, <2>1, <2>2 DEF RestoreOriginal, VoiceInv, VoiceType
  <2>4. ModelsNamed'
    BY <1>0, <2>1 DEF ModelsNamed, VoiceInv
  <2> QED BY <2>1, <2>3, <2>4, TakesKeptFresh DEF VoiceInv
<1>5. ASSUME NEW p \in Phrases, SavePhrase(p) PROVE VoiceInv'
  <2>1. /\ phrase' = p
        /\ renamed' = (renamed \/ (trainer # None /\ trainer.step = "started"))
        /\ UNCHANGED <<trainer, pending, installed>> /\ TakesKept
    BY <1>5 DEF SavePhrase, TakesKept
  <2>2. renamed' \in BOOLEAN
    BY <2>1 DEF VoiceInv, VoiceType
  <2>3. VoiceType'
    BY <1>5, <2>1, <2>2 DEF SavePhrase, VoiceInv, VoiceType
  <2>4. ModelsNamed'
    BY <2>1 DEF ModelsNamed, VoiceInv
  <2> QED BY <2>1, <2>3, <2>4, TakesKeptFresh DEF VoiceInv
<1> QED BY <1>1, <1>2, <1>3, <1>4, <1>5 DEF TrainingRequests

\* A restart forgets the takes and the pending model, and keeps the models that
\* were accepted.
LEMMA VoiceRestartKeeps ==
  ASSUME VoiceInv, VoiceRestart
  PROVE  VoiceInv'
<1> USE NoModelsTyped, NoTakesTyped DEF VoiceRestart, Fresh
<1>1. VoiceType'
  BY DEF VoiceInv, VoiceType
<1>2. ModelsNamed'
  BY DEF VoiceInv, ModelsNamed
<1>3. TakesFresh'
  BY DEF TakesFresh
<1> QED BY <1>1, <1>2, <1>3 DEF VoiceInv

LEMMA VoiceStutterKeeps ==
  ASSUME VoiceInv, UNCHANGED voiceVars
  PROVE  VoiceInv'
BY DEF VoiceInv, VoiceType, ModelsNamed, TakesFresh, voiceVars

LEMMA TakeRequestsKeep ==
  ASSUME VoiceInv, NEW inUse \in BOOLEAN, TakeRequests(inUse)
  PROVE  VoiceInv'
BY TakeAskedKeeps, ForgetKeeps DEF TakeRequests

LEMMA VoiceStepInv ==
  ASSUME VoiceInv, [VoiceStep]_voiceVars
  PROVE  VoiceInv'
BY TakeThreadKeeps, TrainingThreadKeeps, TrainingRequestsKeep, TakeRequestsKeep,
   VoiceRestartKeeps, VoiceStutterKeeps DEF VoiceStep

-----------------------------------------------------------------------------
(* Its consequences *)

LEMMA VoiceInvNamesModels == VoiceInv => ModelIsForItsPhrase
BY VoiceAssumption DEF VoiceInv, VoiceType, ModelsNamed, ModelIsForItsPhrase, PhraseModel

LEMMA VoiceInvDropsTakes == VoiceInv => TakesGoWithTraining
BY DEF VoiceInv, TakesFresh, TakesGoWithTraining

-----------------------------------------------------------------------------
(* The arithmetic of the data *)

\* analyse keeps all of the speech: whatever frame lies between the first and
\* the last that speak is inside the samples that are kept, as far as the
\* recording goes (takes.py:123-126).
THEOREM TakeHoldsItsSpeech ==
  ASSUME NEW first \in Nat \ {0}, NEW last \in Nat, NEW frame \in first..last,
         NEW samples \in Nat, frame * FRAME_SAMPLES <= samples
  PROVE  /\ TakeStart(first) \in Nat
         /\ TakeStart(first) <= (frame - 1) * FRAME_SAMPLES
         /\ frame * FRAME_SAMPLES <= TakeEnd(last, samples)
         /\ TakeEnd(last, samples) <= samples
BY DEF TakeStart, TakeEnd, Most, Least, FRAME_SAMPLES, MARGIN_SAMPLES

\* window_index_for rounds to the nearest window, so every window positive_windows
\* takes for an example of the phrase ends within a fifth of a second of it,
\* wherever the phrase ends in the clip (training.py:183-206).
THEOREM PositiveWindowsEndByThePhrase ==
  ASSUME NEW embeddings \in Nat, NEW end \in Nat,
         NEW i \in PositiveWindows(embeddings, end)
  PROVE  LET ends == HOP * (i + WINDOW_FRAMES - 1) + CONTEXT
         IN  ends - end <= 20 /\ end - ends <= 20
<1> DEFINE twice == 2 * (end - CONTEXT)
           low == twice \div (2 * HOP)
           rest == twice % (2 * HOP)
<1>1. /\ twice \in Int /\ low \in Int
      /\ rest \in 0..15
      /\ twice = 16 * low + rest
  BY DEF HOP, CONTEXT
<1>2. WindowIndex(end) =
        (IF rest > HOP \/ (rest = HOP /\ low % 2 = 1) THEN low + 1 ELSE low)
          - (WINDOW_FRAMES - 1)
  BY DEF WindowIndex
<1>3. i \in Int /\ i - WindowIndex(end) \in -2..2
  BY DEF PositiveWindows, Windows, WINDOW_FRAMES
<1> HIDE DEF low, rest
<1>4. CASE rest > HOP \/ (rest = HOP /\ low % 2 = 1)
  <2>1. WindowIndex(end) = low + 1 - 15 /\ rest >= 8
    BY <1>1, <1>2, <1>4 DEF HOP, WINDOW_FRAMES
  <2> QED BY <1>1, <1>3, <2>1 DEF HOP, CONTEXT, WINDOW_FRAMES
<1>5. CASE ~(rest > HOP \/ (rest = HOP /\ low % 2 = 1))
  <2>1. WindowIndex(end) = low - 15 /\ rest <= 8
    BY <1>1, <1>2, <1>5 DEF HOP, WINDOW_FRAMES
  <2> QED BY <1>1, <1>3, <2>1 DEF HOP, CONTEXT, WINDOW_FRAMES
<1> QED BY <1>4, <1>5

\* "the negatives are never the minority" (training.py:219) once there are two of
\* them: then balance keeps examples of both kinds, two negatives for each
\* positive, and no more of either than there were.  With fewer it keeps what it
\* was given.
THEOREM BalanceKeepsNegatives ==
  ASSUME NEW positives \in Nat \ {0}, NEW negatives \in Nat, negatives >= NEGATIVE_RATIO
  PROVE  LET left == Balanced(positives, negatives) IN
         /\ left.positives \in 1..positives
         /\ left.negatives = NEGATIVE_RATIO * left.positives
         /\ left.negatives <= negatives
<1> DEFINE half == negatives \div NEGATIVE_RATIO
           wanted == Least(positives, half)
<1>1. half \in Nat /\ half >= 1 /\ 2 * half <= negatives
  BY DEF NEGATIVE_RATIO
<1> HIDE DEF half
<1>2. wanted \in Nat /\ wanted >= 1 /\ wanted <= positives /\ wanted <= half
  BY <1>1 DEF Least
<1> HIDE DEF wanted
<1>3. Least(positives, wanted) = wanted
  BY <1>2 DEF Least
<1>4. Least(negatives, NEGATIVE_RATIO * wanted) = 2 * wanted
  BY <1>1, <1>2 DEF Least, NEGATIVE_RATIO
<1>5. Balanced(positives, negatives) = [positives |-> wanted, negatives |-> 2 * wanted]
  BY <1>2, <1>3, <1>4 DEF Balanced, wanted, half
<1> QED BY <1>1, <1>2, <1>5 DEF NEGATIVE_RATIO
==============================================================================

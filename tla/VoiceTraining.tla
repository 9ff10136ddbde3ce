----------------------------- MODULE VoiceTraining -----------------------------
(***************************************************************************)
(* The voice training session of voice/session.py: takes recorded by       *)
(* worker threads, a training thread that turns them into a model for the  *)
(* wake phrase, and the teacher's decision to use it or not.  The lock of  *)
(* the session is held for one step at a time; a take is recorded and a    *)
(* model trained outside it.                                               *)
(*                                                                         *)
(* A take is the number of the training it was recorded for: how many had  *)
(* dropped their recordings when it was asked for.  A model is the phrase  *)
(* it was trained on, and a file is named for a phrase.                    *)
(***************************************************************************)
EXTENDS VoiceData

CONSTANTS
  Slots,         \* the takes a training needs
  Phrases,       \* the wake phrases the settings can hold
  Shipped,       \* those whose original model and corpus are installed
  Levels,        \* bound: the levels of a recorded frame
  TakeFrames,    \* bound: the frames of a recording
  MaxTrainings,  \* bound: trainings started
  None           \* no take, no model

ASSUME VoiceAssumption ==
  /\ None \notin Phrases /\ None \notin Nat
  /\ Shipped \subseteq Phrases
  /\ Levels \subseteq 0..100 /\ TakeFrames \in Nat

VARIABLES
  phase,      \* TrainingState
  takes,      \* _takes
  recording,  \* _recording
  taker,      \* the thread inside _capture
  kept,       \* the thread between its two locks, with its take analysed
  takeMic,    \* _capture holds the microphone
  trainer,    \* the training thread and what it was given
  leaving,    \* a training thread that has told its result
  dropped,    \* how many trainings have dropped their recordings
  pending,    \* the pending folder: the model in each phrase's file
  installed,  \* the personal folder
  phrase,     \* the wake phrase of the settings
  overdue,    \* history: a take was kept by a training later than its own
  renamed     \* history: the phrase changed as a training began

voiceVars == <<phase, takes, recording, taker, kept, takeMic, trainer, leaving,
               dropped, pending, installed, phrase, overdue, renamed>>

Take == [slot : Slots, number : Nat]
Model == Phrases \cup {None}

VoiceType ==
  /\ phase \in {"IDLE", "TRAINING", "READY", "FAILED"}
  /\ takes \in [Slots -> Nat \cup {None}]
  /\ recording \in BOOLEAN
  /\ taker \in Take \cup {None}
  /\ kept \in Take \cup {None}
  /\ takeMic \in BOOLEAN
  /\ trainer \in {None} \cup
       [step : {"started"}, phrase : Phrases] \cup
       [step : {"training"}, phrase : Phrases, file : Phrases]
  /\ leaving \in {"nobody", "failed", "told"}
  /\ dropped \in Nat
  /\ pending \in [Phrases -> Model]
  /\ installed \in [Phrases -> Model]
  /\ phrase \in Phrases
  /\ overdue \in BOOLEAN
  /\ renamed \in BOOLEAN

NoTakes == [s \in Slots |-> None]
NoModels == [p \in Phrases |-> None]

\* __init__: nothing survives a run of the application but the installed
\* models and the settings.
Fresh ==
  /\ phase' = "IDLE" /\ takes' = NoTakes /\ recording' = FALSE
  /\ taker' = None /\ kept' = None /\ takeMic' = FALSE
  /\ trainer' = None /\ leaving' = "nobody" /\ dropped' = 0
  /\ pending' = NoModels
  /\ overdue' = FALSE

VoiceInit ==
  /\ phase = "IDLE" /\ takes = NoTakes /\ recording = FALSE
  /\ taker = None /\ kept = None /\ takeMic = FALSE
  /\ trainer = None /\ leaving = "nobody" /\ dropped = 0
  /\ pending = NoModels /\ installed = NoModels
  /\ phrase \in Phrases
  /\ overdue = FALSE /\ renamed = FALSE

VoiceRestart == Fresh /\ UNCHANGED <<installed, phrase, renamed>>

-----------------------------------------------------------------------------
(* Takes *)

TakeAsked(s, inUse) ==
  /\ phase # "TRAINING" /\ ~recording /\ ~inUse
  /\ recording' = TRUE
  /\ taker' = [slot |-> s, number |-> dropped]
  /\ UNCHANGED <<phase, takes, kept, takeMic, trainer, leaving, dropped, pending,
                 installed, phrase, overdue, renamed>>

TakeOpens ==
  /\ taker # None /\ ~takeMic
  /\ takeMic' = TRUE
  /\ UNCHANGED <<phase, takes, recording, taker, kept, trainer, leaving, dropped,
                 pending, installed, phrase, overdue, renamed>>

Recordings == UNION {[1..n -> Levels] : n \in 2..TakeFrames}
Usable == {recorded \in Recordings : Analyse(recorded) = "take"}

\* AudioError, or a recording that analyse rejects: the microphone is closed
\* and the next take is free to start.
TakeFails ==
  /\ taker # None
  /\ takeMic' = FALSE
  /\ recording' = FALSE
  /\ taker' = None
  /\ UNCHANGED <<phase, takes, kept, trainer, leaving, dropped, pending,
                 installed, phrase, overdue, renamed>>

\* The first lock lets the next take start, the second keeps this one.
TakeEnds ==
  /\ taker # None /\ takeMic /\ kept = None
  /\ Usable # {}
  /\ takeMic' = FALSE
  /\ recording' = FALSE
  /\ kept' = taker
  /\ taker' = None
  /\ UNCHANGED <<phase, takes, trainer, leaving, dropped, pending, installed,
                 phrase, overdue, renamed>>

TakeKept ==
  /\ kept # None
  /\ takes' = [takes EXCEPT ![kept.slot] = kept.number]
  /\ overdue' = (overdue \/ kept.number # dropped)
  /\ kept' = None
  /\ UNCHANGED <<phase, recording, taker, takeMic, trainer, leaving, dropped,
                 pending, installed, phrase, renamed>>

Forget(s) ==
  /\ takes[s] # None
  /\ takes' = [takes EXCEPT ![s] = None]
  /\ UNCHANGED <<phase, recording, taker, kept, takeMic, trainer, leaving,
                 dropped, pending, installed, phrase, overdue, renamed>>

-----------------------------------------------------------------------------
(* Training *)

StartTraining ==
  /\ phase # "TRAINING"
  /\ \A s \in Slots : takes[s] # None
  /\ phrase \in Shipped
  /\ dropped < MaxTrainings
  /\ phase' = "TRAINING"
  /\ trainer' = [step |-> "started", phrase |-> phrase]
  /\ UNCHANGED <<takes, recording, taker, kept, takeMic, leaving, dropped,
                 pending, installed, phrase, overdue, renamed>>

\* The thread's first lines: the file is named for the phrase of the settings
\* now, the model is for the phrase of the settings then.
TrainerBegins ==
  /\ trainer # None /\ trainer.step = "started"
  /\ trainer' = [step |-> "training", phrase |-> trainer.phrase, file |-> phrase]
  /\ pending' = NoModels
  /\ UNCHANGED <<phase, takes, recording, taker, kept, takeMic, leaving, dropped,
                 installed, phrase, overdue, renamed>>

\* A training takes a minute or two, so the thread of the one before has ended.
TrainerEnds ==
  /\ trainer # None /\ trainer.step = "training" /\ leaving = "nobody"
  /\ trainer' = None
  /\ UNCHANGED <<takes, recording, taker, kept, takeMic, dropped, installed,
                 phrase, overdue, renamed>>

TrainerSucceeds ==
  /\ TrainerEnds
  /\ pending' = [pending EXCEPT ![trainer.file] = trainer.phrase]
  /\ phase' = "READY"
  /\ leaving' = "told"

\* Fault: the recordings are dropped by the thread that succeeds only.
TrainerFailsKeeping ==
  /\ trainer # None /\ trainer.step = "training" /\ leaving = "nobody"
  /\ trainer' = None
  /\ phase' = "FAILED"
  /\ pending' = NoModels
  /\ dropped' = dropped + 1
  /\ UNCHANGED <<takes, recording, taker, kept, takeMic, leaving, installed,
                 phrase, overdue, renamed>>

TrainerFails ==
  /\ TrainerEnds
  /\ phase' = "FAILED"
  /\ leaving' = "failed"
  /\ UNCHANGED pending

DropsPending ==
  /\ leaving = "failed"
  /\ pending' = NoModels
  /\ leaving' = "told"
  /\ UNCHANGED <<phase, takes, recording, taker, kept, takeMic, trainer, dropped,
                 installed, phrase, overdue, renamed>>

\* The recordings go, whatever the result.
DropsTakes ==
  /\ leaving = "told"
  /\ takes' = NoTakes
  /\ dropped' = dropped + 1
  /\ leaving' = "nobody"
  /\ UNCHANGED <<phase, recording, taker, kept, takeMic, trainer, pending,
                 installed, phrase, overdue, renamed>>

-----------------------------------------------------------------------------
(* The teacher's decision *)

\* Fault: accept takes the model that is pending, whatever its name.
AcceptAny ==
  /\ phase = "READY"
  /\ \E p \in Phrases :
       /\ pending[p] # None
       /\ installed' = [installed EXCEPT ![phrase] = pending[p]]
  /\ pending' = NoModels
  /\ phase' = "IDLE"
  /\ UNCHANGED <<takes, recording, taker, kept, takeMic, trainer, leaving,
                 dropped, phrase, overdue, renamed>>

\* pending.replace raises when the file of the phrase of the settings is not
\* there: the model stays pending and the session READY.
Accept ==
  /\ phase = "READY" /\ pending[phrase] # None
  /\ installed' = [installed EXCEPT ![phrase] = pending[phrase]]
  /\ pending' = NoModels
  /\ phase' = "IDLE"
  /\ UNCHANGED <<takes, recording, taker, kept, takeMic, trainer, leaving,
                 dropped, phrase, overdue, renamed>>

Discard ==
  /\ phase # "TRAINING"
  /\ pending' = NoModels
  /\ phase' = "IDLE"
  /\ UNCHANGED <<takes, recording, taker, kept, takeMic, trainer, leaving,
                 dropped, installed, phrase, overdue, renamed>>

RestoreOriginal ==
  /\ installed' = [installed EXCEPT ![phrase] = None]
  /\ UNCHANGED <<phase, takes, recording, taker, kept, takeMic, trainer, leaving,
                 dropped, pending, phrase, overdue, renamed>>

\* The settings are saved with another phrase.
SavePhrase(p) ==
  /\ p # phrase
  /\ phrase' = p
  /\ renamed' = (renamed \/ (trainer # None /\ trainer.step = "started"))
  /\ UNCHANGED <<phase, takes, recording, taker, kept, takeMic, trainer, leaving,
                 dropped, pending, installed, overdue>>

\* phrase_model_path: the model a class listens for the phrase with.
PhraseModel(p) == IF installed[p] # None THEN installed[p] ELSE p

-----------------------------------------------------------------------------
TakeThread == TakeOpens \/ TakeFails \/ TakeEnds \/ TakeKept

TrainingThread ==
  TrainerBegins \/ TrainerSucceeds \/ TrainerFails \/ DropsPending \/ DropsTakes

TakeRequests(inUse) == \E s \in Slots : TakeAsked(s, inUse) \/ Forget(s)

TrainingRequests ==
  \/ StartTraining
  \/ Accept \/ Discard \/ RestoreOriginal
  \/ \E p \in Phrases : SavePhrase(p)

-----------------------------------------------------------------------------
(* Properties *)

\* "The recordings go, success or failure (D-12)": when a training is over,
\* every take still kept was recorded for the next one.  A take that was under
\* way as the training began, or before its recordings went, is the exception
\* (record writes it without asking again, line 193).
TakesGoWithTraining ==
  phase # "TRAINING" /\ leaving = "nobody" /\ ~overdue =>
    \A s \in Slots : takes[s] \in {None, dropped}

\* A model the teacher accepts listens for the phrase it was trained on,
\* whatever the settings were changed to between the training, the decision and
\* a restart.  The exception is a phrase saved between start_training and the
\* first line of its thread, which names the file (line 229).
ModelIsForItsPhrase ==
  ~renamed => \A p \in Shipped : PhraseModel(p) = p

==============================================================================

------------------------------ MODULE Application ------------------------------
(***************************************************************************)
(* The parts of the application around the class, as AppContext and        *)
(* create_app (api/app.py) put them together: the conversation test, the   *)
(* voice training session, the stored key and the hub that tells the       *)
(* windows.  They meet in the microphone: the class, the test and a take   *)
(* each open an engine of their own, so nothing but the checks of          *)
(* AppContext and of the start endpoint keeps them apart.  The class here  *)
(* is its state machine and the endpoints that open and close its          *)
(* microphone; its turns are other modules.                                *)
(*                                                                         *)
(* The parts fall into groups that share no state but the takes: the users *)
(* of the microphone, the training, the key, the windows, the detector     *)
(* with the class's engine, and the diagnostics.  A behaviour exercises    *)
(* one group, chosen at its start, and Restart, the application killed and *)
(* started again, which touches them all.                                  *)
(***************************************************************************)
EXTENDS ClassStates, ConversationProbe, VoiceTraining, SettingsStore, EventHub,
        WakeWord, Diagnostics

CONSTANTS
  Groups,      \* bound: the groups exercised
  MaxRestarts  \* bound: how often the application is restarted

ASSUME RestartsAssumption == MaxRestarts \in Nat

VARIABLES
  group,     \* bound: the group of this behaviour
  class,     \* machine.state
  door,      \* what a class endpoint is doing with the microphone
  classMic,  \* the class's engine captures
  crossed,   \* history: a check was passed that another user's was crossing
  restarts

classVars == <<class, door, classMic, crossed>>
vars == <<probeVars, voiceVars, settingsVars, hubVars, wakeVars, diagnosticsVars,
          classVars, group, restarts>>

TypeOK ==
  /\ ProbeType
  /\ VoiceType
  /\ SettingsType
  /\ HubType
  /\ WakeType
  /\ DiagnosticsType
  /\ group \in Groups
  /\ class \in State
  /\ door \in {"still", "starting", "opened", "closing", "stopping"}
  /\ classMic \in BOOLEAN
  /\ crossed \in BOOLEAN
  /\ restarts \in 0..MaxRestarts

\* Only the group of the key starts from every token a folder may hold, and only
\* that of the diagnostics with something wrong.
Init ==
  /\ group \in Groups
  /\ ProbeInit /\ VoiceInit /\ SettingsInit /\ HubInit /\ WakeInit
  /\ DiagnosticsInit(group = "diagnostics")
  /\ group # "key" => token = "absent"
  /\ class = "READY" /\ door = "still" /\ classMic = FALSE
  /\ crossed = FALSE /\ restarts = 0

-----------------------------------------------------------------------------
(* What each user asks before it opens the microphone *)

ClassHolds == class \in MicActive

\* Fault: a test is not asked about
InUseForVoiceClassOnly == ClassHolds

InUseForVoice == ClassHolds \/ ProbeRunning
InUseForProbe == ClassHolds \/ recording
InUseForClass == ProbeRunning \/ recording

\* What those questions do not see: a class between its check and its state,
\* or that paused and has not closed its microphone yet, and a test between its
\* check and its task.
ClassUnseen == door # "still"
ProbeUnseen == checking

-----------------------------------------------------------------------------
(* The class *)

PrepareClass ==
  /\ class \in {"STOPPED", "ERROR"} /\ door = "still" /\ ~checking
  /\ class' = "READY"
  /\ UNCHANGED <<door, classMic, crossed>>

\* start_class asks, and only then awaits the session and the thread that
\* opens the microphone.
AskStart ==
  /\ class \in {"READY", "PAUSED"} /\ door = "still" /\ ~checking
  /\ ~InUseForClass
  /\ door' = "starting"
  /\ UNCHANGED <<class, classMic, crossed>>

SessionRefused ==
  /\ door = "starting" /\ class = "READY" /\ ~checking
  /\ door' = "still"
  /\ UNCHANGED <<class, classMic, crossed>>

\* resume_class goes straight to the thread: it asks nobody.
AskResume ==
  /\ class = "PAUSED" /\ door = "still" /\ ~checking
  /\ door' = "starting"
  /\ UNCHANGED <<class, classMic, crossed>>

OpenMicrophone ==
  /\ door = "starting"
  /\ door' = "opened"
  /\ classMic' = TRUE
  /\ crossed' = (crossed \/ InUseForClass \/ ProbeUnseen)
  /\ UNCHANGED class

MicrophoneRefused ==
  /\ door = "starting"
  /\ door' = "still"
  /\ class' = TryDispatch(class, "FAIL")
  /\ UNCHANGED <<classMic, crossed>>

\* Only now may the state say that the microphone is open.
SayOpen ==
  /\ door = "opened"
  /\ door' = "still"
  /\ class' = TryDispatch(class, IF class = "PAUSED" THEN "RESUME" ELSE "START_CLASS")
  /\ UNCHANGED <<classMic, crossed>>

Pause ==
  /\ ClassHolds /\ door = "still"
  /\ class' = TryDispatch(class, "PAUSE")
  /\ door' = "closing"
  /\ UNCHANGED <<classMic, crossed>>

PauseCloses ==
  /\ door = "closing"
  /\ classMic' = FALSE
  /\ door' = "still"
  /\ UNCHANGED <<class, crossed>>

\* stop closes first and says so afterwards.
StopCloses ==
  /\ class \in MicActive \cup {"READY", "PAUSED"} /\ door = "still"
  /\ classMic' = FALSE
  /\ door' = "stopping"
  /\ UNCHANGED <<class, crossed>>

SayStopped ==
  /\ door = "stopping"
  /\ class' = TryDispatch(class, "STOP")
  /\ door' = "still"
  /\ UNCHANGED <<classMic, crossed>>

ClassStep ==
  \/ PrepareClass
  \/ AskStart \/ SessionRefused \/ AskResume
  \/ OpenMicrophone \/ MicrophoneRefused \/ SayOpen
  \/ Pause \/ PauseCloses \/ StopCloses \/ SayStopped

-----------------------------------------------------------------------------
(* The groups *)

ProbeStep ==
  \/ /\ ProbeTask \/ ProbeEvents
     /\ UNCHANGED crossed
  \/ /\ ProbeRequests(InUseForProbe)
     /\ crossed' = (crossed \/ (checking' /\ ~checking /\ ClassUnseen))

TakeStep ==
  \/ TakeThread /\ UNCHANGED crossed
  \/ /\ TakeRequests(InUseForVoice)
     /\ crossed' = (crossed \/ (recording' /\ ~recording
                                  /\ (ClassUnseen \/ ProbeUnseen)))

ClassAlone == UNCHANGED <<class, door, classMic>>
Others == UNCHANGED <<settingsVars, hubVars, wakeVars, diagnosticsVars, group,
                      restarts>>

UsesMicrophone ==
  /\ group \in {"microphone", "training"}
  /\ Others
  /\ \/ group = "microphone" /\ ProbeStep /\ UNCHANGED voiceVars /\ ClassAlone
     \/ group = "microphone" /\ ClassStep /\ UNCHANGED <<voiceVars, probeVars>>
     \/ TakeStep /\ UNCHANGED probeVars /\ ClassAlone
     \/ /\ group = "training"
        /\ TrainingThread \/ TrainingRequests
        /\ UNCHANGED <<probeVars, classVars>>

UsesKey ==
  /\ group = "key"
  /\ SettingsRequests
  /\ UNCHANGED <<probeVars, voiceVars, hubVars, wakeVars, diagnosticsVars,
                 classVars, group, restarts>>

UsesWindow ==
  /\ group = "window"
  /\ HubStep
  /\ UNCHANGED <<probeVars, voiceVars, settingsVars, wakeVars, diagnosticsVars,
                 classVars, group, restarts>>

UsesDetector ==
  /\ group = "detector"
  /\ WakeStep
  /\ UNCHANGED <<probeVars, voiceVars, settingsVars, hubVars, diagnosticsVars,
                 classVars, group, restarts>>

UsesDiagnostics ==
  /\ group = "diagnostics"
  /\ DiagnosticsStep
  /\ UNCHANGED <<probeVars, voiceVars, settingsVars, hubVars, wakeVars,
                 classVars, group, restarts>>

\* The windows belong to the shell, which ends with the application, and a new
\* engine is where StartListening leaves it.
Restart ==
  /\ group \notin {"window", "detector"}
  /\ restarts < MaxRestarts
  /\ restarts' = restarts + 1
  /\ VoiceRestart
  /\ SettingsRestart
  /\ DiagnosticsRestart
  /\ test' = "IDLE" /\ task' = "none" /\ checking' = FALSE
  /\ cancelling' = FALSE /\ probeMic' = FALSE /\ link' = FALSE /\ heard' = {}
  /\ committed' = FALSE /\ outcome' = "none" /\ pieces' = FALSE
  /\ speakers' = "none" /\ late' = FALSE
  /\ class' = "READY" /\ door' = "still" /\ classMic' = FALSE
  /\ crossed' = FALSE
  /\ UNCHANGED <<hubVars, wakeVars, group>>

Next ==
  \/ UsesMicrophone \/ UsesKey \/ UsesWindow \/ UsesDetector \/ UsesDiagnostics
  \/ Restart

Spec == Init /\ [][Next]_vars

-----------------------------------------------------------------------------
(* Properties *)

Users == {u \in {"class", "test", "take"} :
            \/ u = "class" /\ classMic
            \/ u = "test" /\ probeMic
            \/ u = "take" /\ takeMic}

\* "each refuses while the class or the other one holds it" (app.py:110-112):
\* two of the three never hold the microphone together, unless one passed its
\* check in a moment the other could not be seen in, or the class opened it
\* without asking again (app.py:269 and 301).
OneMicrophoneUser == ~crossed => Cardinality(Users) <= 1
==============================================================================

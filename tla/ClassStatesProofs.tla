-------------------------- MODULE ClassStatesProofs --------------------------
(***************************************************************************)
(* What the transition table does to each event, as facts the proofs of    *)
(* the other modules cite: TryDispatch chooses from a set of triples, and  *)
(* these lemmas say what it chooses.                                       *)
(***************************************************************************)
EXTENDS ClassStates, TLAPS

\* A move of the machine ends in a state of the machine.
LEMMA DispatchType ==
  ASSUME NEW s \in State, NEW e
  PROVE  TryDispatch(s, e) \in State
BY DEF TryDispatch, Can

\* An event whose only entries lead to one target from a set of sources: it
\* is legal exactly there, and leads there.
LEMMA Dispatched ==
  ASSUME NEW s \in State, NEW e, NEW Sources, NEW target \in State,
         \A t \in State : <<s, e, t>> \in Transitions <=> s \in Sources /\ t = target
  PROVE  /\ Can(s, e) <=> s \in Sources
         /\ TryDispatch(s, e) = IF s \in Sources THEN target ELSE s
<1>1. Can(s, e) <=> s \in Sources
  BY DEF Can
<1>2. CASE s \in Sources
  <2>1. \A t \in State : <<s, e, t>> \in Transitions <=> t = target
    BY <1>2
  <2>2. (CHOOSE t \in State : <<s, e, t>> \in Transitions) = target
    BY <2>1
  <2> QED BY <1>1, <1>2, <2>2 DEF TryDispatch
<1>3. CASE s \notin Sources
  BY <1>1, <1>3 DEF TryDispatch
<1> QED BY <1>1, <1>2, <1>3

\* TURN_FAILED takes any state of a turn back to listening.
LEMMA TurnFailed ==
  ASSUME NEW s \in State
  PROVE  /\ Can(s, "TURN_FAILED") <=> s \in {"ACTIVATED", "CAPTURING_REQUEST", "THINKING", "SPEAKING"}
         /\ TryDispatch(s, "TURN_FAILED") =
              IF s \in {"ACTIVATED", "CAPTURING_REQUEST", "THINKING", "SPEAKING"}
              THEN "PASSIVE_LISTENING" ELSE s
<1> DEFINE Sources == {"ACTIVATED", "CAPTURING_REQUEST", "THINKING", "SPEAKING"}
<1>1. \A t \in State : <<s, "TURN_FAILED", t>> \in Transitions
                         <=> s \in Sources /\ t = "PASSIVE_LISTENING"
  BY DEF Transitions, State, MicActive
<1>2. "PASSIVE_LISTENING" \in State
  BY DEF State
<1> HIDE DEF Sources
<1>3. /\ Can(s, "TURN_FAILED") <=> s \in Sources
      /\ TryDispatch(s, "TURN_FAILED") = IF s \in Sources THEN "PASSIVE_LISTENING" ELSE s
  BY <1>1, <1>2, Dispatched
<1> QED BY <1>3 DEF Sources

\* ACTIVATION_EXPIRED ends an activation or a capture nobody used.
LEMMA ActivationExpired ==
  ASSUME NEW s \in State
  PROVE  /\ Can(s, "ACTIVATION_EXPIRED") <=> s \in {"ACTIVATED", "CAPTURING_REQUEST"}
         /\ TryDispatch(s, "ACTIVATION_EXPIRED") =
              IF s \in {"ACTIVATED", "CAPTURING_REQUEST"}
              THEN "PASSIVE_LISTENING" ELSE s
<1> DEFINE Sources == {"ACTIVATED", "CAPTURING_REQUEST"}
<1>1. \A t \in State : <<s, "ACTIVATION_EXPIRED", t>> \in Transitions
                         <=> s \in Sources /\ t = "PASSIVE_LISTENING"
  BY DEF Transitions, State, MicActive
<1>2. "PASSIVE_LISTENING" \in State
  BY DEF State
<1> HIDE DEF Sources
<1>3. /\ Can(s, "ACTIVATION_EXPIRED") <=> s \in Sources
      /\ TryDispatch(s, "ACTIVATION_EXPIRED") = IF s \in Sources THEN "PASSIVE_LISTENING" ELSE s
  BY <1>1, <1>2, Dispatched
<1> QED BY <1>3 DEF Sources

\* CAPTURE_STARTED opens the capture after an activation.
LEMMA CaptureStarted ==
  ASSUME NEW s \in State
  PROVE  /\ Can(s, "CAPTURE_STARTED") <=> s \in {"ACTIVATED"}
         /\ TryDispatch(s, "CAPTURE_STARTED") =
              IF s \in {"ACTIVATED"}
              THEN "CAPTURING_REQUEST" ELSE s
<1> DEFINE Sources == {"ACTIVATED"}
<1>1. \A t \in State : <<s, "CAPTURE_STARTED", t>> \in Transitions
                         <=> s \in Sources /\ t = "CAPTURING_REQUEST"
  BY DEF Transitions, State, MicActive
<1>2. "CAPTURING_REQUEST" \in State
  BY DEF State
<1> HIDE DEF Sources
<1>3. /\ Can(s, "CAPTURE_STARTED") <=> s \in Sources
      /\ TryDispatch(s, "CAPTURE_STARTED") = IF s \in Sources THEN "CAPTURING_REQUEST" ELSE s
  BY <1>1, <1>2, Dispatched
<1> QED BY <1>3 DEF Sources

\* REQUEST_CAPTURED ends the capture.
LEMMA RequestCaptured ==
  ASSUME NEW s \in State
  PROVE  /\ Can(s, "REQUEST_CAPTURED") <=> s \in {"CAPTURING_REQUEST"}
         /\ TryDispatch(s, "REQUEST_CAPTURED") =
              IF s \in {"CAPTURING_REQUEST"}
              THEN "THINKING" ELSE s
<1> DEFINE Sources == {"CAPTURING_REQUEST"}
<1>1. \A t \in State : <<s, "REQUEST_CAPTURED", t>> \in Transitions
                         <=> s \in Sources /\ t = "THINKING"
  BY DEF Transitions, State, MicActive
<1>2. "THINKING" \in State
  BY DEF State
<1> HIDE DEF Sources
<1>3. /\ Can(s, "REQUEST_CAPTURED") <=> s \in Sources
      /\ TryDispatch(s, "REQUEST_CAPTURED") = IF s \in Sources THEN "THINKING" ELSE s
  BY <1>1, <1>2, Dispatched
<1> QED BY <1>3 DEF Sources

\* RESPONSE_STARTED is the first sound of an answer.
LEMMA ResponseStartedMove ==
  ASSUME NEW s \in State
  PROVE  /\ Can(s, "RESPONSE_STARTED") <=> s \in {"THINKING"}
         /\ TryDispatch(s, "RESPONSE_STARTED") =
              IF s \in {"THINKING"}
              THEN "SPEAKING" ELSE s
<1> DEFINE Sources == {"THINKING"}
<1>1. \A t \in State : <<s, "RESPONSE_STARTED", t>> \in Transitions
                         <=> s \in Sources /\ t = "SPEAKING"
  BY DEF Transitions, State, MicActive
<1>2. "SPEAKING" \in State
  BY DEF State
<1> HIDE DEF Sources
<1>3. /\ Can(s, "RESPONSE_STARTED") <=> s \in Sources
      /\ TryDispatch(s, "RESPONSE_STARTED") = IF s \in Sources THEN "SPEAKING" ELSE s
  BY <1>1, <1>2, Dispatched
<1> QED BY <1>3 DEF Sources

\* RESPONSE_FINISHED ends an answer, heard or not.
LEMMA ResponseFinishedMove ==
  ASSUME NEW s \in State
  PROVE  /\ Can(s, "RESPONSE_FINISHED") <=> s \in {"THINKING", "SPEAKING"}
         /\ TryDispatch(s, "RESPONSE_FINISHED") =
              IF s \in {"THINKING", "SPEAKING"}
              THEN "PASSIVE_LISTENING" ELSE s
<1> DEFINE Sources == {"THINKING", "SPEAKING"}
<1>1. \A t \in State : <<s, "RESPONSE_FINISHED", t>> \in Transitions
                         <=> s \in Sources /\ t = "PASSIVE_LISTENING"
  BY DEF Transitions, State, MicActive
<1>2. "PASSIVE_LISTENING" \in State
  BY DEF State
<1> HIDE DEF Sources
<1>3. /\ Can(s, "RESPONSE_FINISHED") <=> s \in Sources
      /\ TryDispatch(s, "RESPONSE_FINISHED") = IF s \in Sources THEN "PASSIVE_LISTENING" ELSE s
  BY <1>1, <1>2, Dispatched
<1> QED BY <1>3 DEF Sources

\* INTERRUPT cuts an answer.
LEMMA InterruptMove ==
  ASSUME NEW s \in State
  PROVE  /\ Can(s, "INTERRUPT") <=> s \in {"THINKING", "SPEAKING"}
         /\ TryDispatch(s, "INTERRUPT") =
              IF s \in {"THINKING", "SPEAKING"}
              THEN "INTERRUPTED" ELSE s
<1> DEFINE Sources == {"THINKING", "SPEAKING"}
<1>1. \A t \in State : <<s, "INTERRUPT", t>> \in Transitions
                         <=> s \in Sources /\ t = "INTERRUPTED"
  BY DEF Transitions, State, MicActive
<1>2. "INTERRUPTED" \in State
  BY DEF State
<1> HIDE DEF Sources
<1>3. /\ Can(s, "INTERRUPT") <=> s \in Sources
      /\ TryDispatch(s, "INTERRUPT") = IF s \in Sources THEN "INTERRUPTED" ELSE s
  BY <1>1, <1>2, Dispatched
<1> QED BY <1>3 DEF Sources

\* INTERRUPTION_HANDLED goes back to listening.
LEMMA InterruptionHandledMove ==
  ASSUME NEW s \in State
  PROVE  /\ Can(s, "INTERRUPTION_HANDLED") <=> s \in {"INTERRUPTED"}
         /\ TryDispatch(s, "INTERRUPTION_HANDLED") =
              IF s \in {"INTERRUPTED"}
              THEN "PASSIVE_LISTENING" ELSE s
<1> DEFINE Sources == {"INTERRUPTED"}
<1>1. \A t \in State : <<s, "INTERRUPTION_HANDLED", t>> \in Transitions
                         <=> s \in Sources /\ t = "PASSIVE_LISTENING"
  BY DEF Transitions, State, MicActive
<1>2. "PASSIVE_LISTENING" \in State
  BY DEF State
<1> HIDE DEF Sources
<1>3. /\ Can(s, "INTERRUPTION_HANDLED") <=> s \in Sources
      /\ TryDispatch(s, "INTERRUPTION_HANDLED") = IF s \in Sources THEN "PASSIVE_LISTENING" ELSE s
  BY <1>1, <1>2, Dispatched
<1> QED BY <1>3 DEF Sources

\* PAUSE applies to every state of a running class.
LEMMA PauseMove ==
  ASSUME NEW s \in State
  PROVE  /\ Can(s, "PAUSE") <=> s \in MicActive
         /\ TryDispatch(s, "PAUSE") =
              IF s \in MicActive
              THEN "PAUSED" ELSE s
<1> DEFINE Sources == MicActive
<1>1. \A t \in State : <<s, "PAUSE", t>> \in Transitions
                         <=> s \in Sources /\ t = "PAUSED"
  BY DEF Transitions, State, MicActive
<1>2. "PAUSED" \in State
  BY DEF State
<1> HIDE DEF Sources
<1>3. /\ Can(s, "PAUSE") <=> s \in Sources
      /\ TryDispatch(s, "PAUSE") = IF s \in Sources THEN "PAUSED" ELSE s
  BY <1>1, <1>2, Dispatched
<1> QED BY <1>3 DEF Sources

\* RESUME leaves PAUSED.
LEMMA ResumeMove ==
  ASSUME NEW s \in State
  PROVE  /\ Can(s, "RESUME") <=> s \in {"PAUSED"}
         /\ TryDispatch(s, "RESUME") =
              IF s \in {"PAUSED"}
              THEN "PASSIVE_LISTENING" ELSE s
<1> DEFINE Sources == {"PAUSED"}
<1>1. \A t \in State : <<s, "RESUME", t>> \in Transitions
                         <=> s \in Sources /\ t = "PASSIVE_LISTENING"
  BY DEF Transitions, State, MicActive
<1>2. "PASSIVE_LISTENING" \in State
  BY DEF State
<1> HIDE DEF Sources
<1>3. /\ Can(s, "RESUME") <=> s \in Sources
      /\ TryDispatch(s, "RESUME") = IF s \in Sources THEN "PASSIVE_LISTENING" ELSE s
  BY <1>1, <1>2, Dispatched
<1> QED BY <1>3 DEF Sources

\* STOP applies to a running class and to one about to run.
LEMMA StopMove ==
  ASSUME NEW s \in State
  PROVE  /\ Can(s, "STOP") <=> s \in MicActive \cup {"PREPARING", "READY", "PAUSED"}
         /\ TryDispatch(s, "STOP") =
              IF s \in MicActive \cup {"PREPARING", "READY", "PAUSED"}
              THEN "STOPPED" ELSE s
<1> DEFINE Sources == MicActive \cup {"PREPARING", "READY", "PAUSED"}
<1>1. \A t \in State : <<s, "STOP", t>> \in Transitions
                         <=> s \in Sources /\ t = "STOPPED"
  BY DEF Transitions, State, MicActive
<1>2. "STOPPED" \in State
  BY DEF State
<1> HIDE DEF Sources
<1>3. /\ Can(s, "STOP") <=> s \in Sources
      /\ TryDispatch(s, "STOP") = IF s \in Sources THEN "STOPPED" ELSE s
  BY <1>1, <1>2, Dispatched
<1> QED BY <1>3 DEF Sources

\* FAIL applies to whatever has not finished.
LEMMA FailMove ==
  ASSUME NEW s \in State
  PROVE  /\ Can(s, "FAIL") <=> s \in State \ {"ERROR", "STOPPED"}
         /\ TryDispatch(s, "FAIL") =
              IF s \in State \ {"ERROR", "STOPPED"}
              THEN "ERROR" ELSE s
<1> DEFINE Sources == State \ {"ERROR", "STOPPED"}
<1>1. \A t \in State : <<s, "FAIL", t>> \in Transitions
                         <=> s \in Sources /\ t = "ERROR"
  BY DEF Transitions, State, MicActive
<1>2. "ERROR" \in State
  BY DEF State
<1> HIDE DEF Sources
<1>3. /\ Can(s, "FAIL") <=> s \in Sources
      /\ TryDispatch(s, "FAIL") = IF s \in Sources THEN "ERROR" ELSE s
  BY <1>1, <1>2, Dispatched
<1> QED BY <1>3 DEF Sources

\* RESET begins again after a class is over or has failed.
LEMMA ResetMove ==
  ASSUME NEW s \in State
  PROVE  /\ Can(s, "RESET") <=> s \in {"STOPPED", "ERROR"}
         /\ TryDispatch(s, "RESET") =
              IF s \in {"STOPPED", "ERROR"}
              THEN "IDLE" ELSE s
<1> DEFINE Sources == {"STOPPED", "ERROR"}
<1>1. \A t \in State : <<s, "RESET", t>> \in Transitions
                         <=> s \in Sources /\ t = "IDLE"
  BY DEF Transitions, State, MicActive
<1>2. "IDLE" \in State
  BY DEF State
<1> HIDE DEF Sources
<1>3. /\ Can(s, "RESET") <=> s \in Sources
      /\ TryDispatch(s, "RESET") = IF s \in Sources THEN "IDLE" ELSE s
  BY <1>1, <1>2, Dispatched
<1> QED BY <1>3 DEF Sources

\* CREATE_SESSION begins to prepare a class.
LEMMA CreateSessionMove ==
  ASSUME NEW s \in State
  PROVE  /\ Can(s, "CREATE_SESSION") <=> s \in {"IDLE"}
         /\ TryDispatch(s, "CREATE_SESSION") =
              IF s \in {"IDLE"}
              THEN "PREPARING" ELSE s
<1> DEFINE Sources == {"IDLE"}
<1>1. \A t \in State : <<s, "CREATE_SESSION", t>> \in Transitions
                         <=> s \in Sources /\ t = "PREPARING"
  BY DEF Transitions, State, MicActive
<1>2. "PREPARING" \in State
  BY DEF State
<1> HIDE DEF Sources
<1>3. /\ Can(s, "CREATE_SESSION") <=> s \in Sources
      /\ TryDispatch(s, "CREATE_SESSION") = IF s \in Sources THEN "PREPARING" ELSE s
  BY <1>1, <1>2, Dispatched
<1> QED BY <1>3 DEF Sources

\* SESSION_PREPARED ends the preparation.
LEMMA SessionPreparedMove ==
  ASSUME NEW s \in State
  PROVE  /\ Can(s, "SESSION_PREPARED") <=> s \in {"PREPARING"}
         /\ TryDispatch(s, "SESSION_PREPARED") =
              IF s \in {"PREPARING"}
              THEN "READY" ELSE s
<1> DEFINE Sources == {"PREPARING"}
<1>1. \A t \in State : <<s, "SESSION_PREPARED", t>> \in Transitions
                         <=> s \in Sources /\ t = "READY"
  BY DEF Transitions, State, MicActive
<1>2. "READY" \in State
  BY DEF State
<1> HIDE DEF Sources
<1>3. /\ Can(s, "SESSION_PREPARED") <=> s \in Sources
      /\ TryDispatch(s, "SESSION_PREPARED") = IF s \in Sources THEN "READY" ELSE s
  BY <1>1, <1>2, Dispatched
<1> QED BY <1>3 DEF Sources

\* START_CLASS begins to listen.
LEMMA StartClassMove ==
  ASSUME NEW s \in State
  PROVE  /\ Can(s, "START_CLASS") <=> s \in {"READY"}
         /\ TryDispatch(s, "START_CLASS") =
              IF s \in {"READY"}
              THEN "PASSIVE_LISTENING" ELSE s
<1> DEFINE Sources == {"READY"}
<1>1. \A t \in State : <<s, "START_CLASS", t>> \in Transitions
                         <=> s \in Sources /\ t = "PASSIVE_LISTENING"
  BY DEF Transitions, State, MicActive
<1>2. "PASSIVE_LISTENING" \in State
  BY DEF State
<1> HIDE DEF Sources
<1>3. /\ Can(s, "START_CLASS") <=> s \in Sources
      /\ TryDispatch(s, "START_CLASS") = IF s \in Sources THEN "PASSIVE_LISTENING" ELSE s
  BY <1>1, <1>2, Dispatched
<1> QED BY <1>3 DEF Sources

\* RECOVER leaves ERROR.
LEMMA RecoverMove ==
  ASSUME NEW s \in State
  PROVE  /\ Can(s, "RECOVER") <=> s \in {"ERROR"}
         /\ TryDispatch(s, "RECOVER") =
              IF s \in {"ERROR"}
              THEN "READY" ELSE s
<1> DEFINE Sources == {"ERROR"}
<1>1. \A t \in State : <<s, "RECOVER", t>> \in Transitions
                         <=> s \in Sources /\ t = "READY"
  BY DEF Transitions, State, MicActive
<1>2. "READY" \in State
  BY DEF State
<1> HIDE DEF Sources
<1>3. /\ Can(s, "RECOVER") <=> s \in Sources
      /\ TryDispatch(s, "RECOVER") = IF s \in Sources THEN "READY" ELSE s
  BY <1>1, <1>2, Dispatched
<1> QED BY <1>3 DEF Sources

\* WAKE_WORD_DETECTED wakes a class that listens, cuts an answer, and opens
\* the next question after a cut: three targets, by the state it finds.
LEMMA WakeMove ==
  ASSUME NEW s \in State
  PROVE  /\ Can(s, "WAKE_WORD_DETECTED") <=>
              s \in {"PASSIVE_LISTENING", "THINKING", "SPEAKING", "INTERRUPTED"}
         /\ s \in {"PASSIVE_LISTENING", "INTERRUPTED"} =>
              TryDispatch(s, "WAKE_WORD_DETECTED") = "ACTIVATED"
         /\ s \in {"THINKING", "SPEAKING"} =>
              TryDispatch(s, "WAKE_WORD_DETECTED") = "INTERRUPTED"
         /\ s \notin {"PASSIVE_LISTENING", "THINKING", "SPEAKING", "INTERRUPTED"} =>
              TryDispatch(s, "WAKE_WORD_DETECTED") = s
<1> DEFINE e == "WAKE_WORD_DETECTED"
<1>1. \A t \in State : <<s, e, t>> \in Transitions <=>
        \/ s \in {"PASSIVE_LISTENING", "INTERRUPTED"} /\ t = "ACTIVATED"
        \/ s \in {"THINKING", "SPEAKING"} /\ t = "INTERRUPTED"
  BY DEF Transitions, State, MicActive
<1>2. "ACTIVATED" \in State /\ "INTERRUPTED" \in State
  BY DEF State
<1> HIDE DEF e
<1>3. Can(s, e) <=>
        s \in {"PASSIVE_LISTENING", "THINKING", "SPEAKING", "INTERRUPTED"}
  BY <1>1, <1>2 DEF Can
<1>4. CASE s \in {"PASSIVE_LISTENING", "INTERRUPTED"}
  <2>1. \A t \in State : <<s, e, t>> \in Transitions <=> t = "ACTIVATED"
    BY <1>1, <1>4
  <2>2. (CHOOSE t \in State : <<s, e, t>> \in Transitions) = "ACTIVATED"
    BY <2>1, <1>2
  <2> QED BY <1>3, <1>4, <2>2 DEF TryDispatch, e
<1>5. CASE s \in {"THINKING", "SPEAKING"}
  <2>1. \A t \in State : <<s, e, t>> \in Transitions <=> t = "INTERRUPTED"
    BY <1>1, <1>5
  <2>2. (CHOOSE t \in State : <<s, e, t>> \in Transitions) = "INTERRUPTED"
    BY <2>1, <1>2
  <2> QED BY <1>3, <1>5, <2>2 DEF TryDispatch, e
<1>6. CASE s \notin {"PASSIVE_LISTENING", "THINKING", "SPEAKING", "INTERRUPTED"}
  BY <1>3, <1>6 DEF TryDispatch, e
<1> QED BY <1>4, <1>5, <1>6

==============================================================================

----------------------------- MODULE ClassStates -----------------------------
(***************************************************************************)
(* The session state machine of session/state.py: its states, its events   *)
(* and the table of transitions.  The table is a set of triples            *)
(* <<source, event, target>>, one per entry of _TRANSITIONS, and every     *)
(* other module moves its class state through TryDispatch.                 *)
(***************************************************************************)

\* State(StrEnum)
State ==
  {"IDLE", "PREPARING", "READY", "PASSIVE_LISTENING", "ACTIVATED",
   "CAPTURING_REQUEST", "THINKING", "SPEAKING", "INTERRUPTED", "PAUSED",
   "STOPPED", "ERROR"}

\* Event(StrEnum)
Event ==
  {"CREATE_SESSION", "SESSION_PREPARED", "START_CLASS", "WAKE_WORD_DETECTED",
   "ACTIVATION_EXPIRED", "CAPTURE_STARTED", "REQUEST_CAPTURED",
   "RESPONSE_STARTED", "RESPONSE_FINISHED", "TURN_FAILED", "INTERRUPT",
   "INTERRUPTION_HANDLED", "PAUSE", "RESUME", "STOP", "FAIL", "RECOVER",
   "RESET"}

\* MIC_ACTIVE_STATES: the states in which the indicator shows an open
\* microphone.  The code's _IN_CLASS names the same six states.
MicActive ==
  {"PASSIVE_LISTENING", "ACTIVATED", "CAPTURING_REQUEST", "THINKING",
   "SPEAKING", "INTERRUPTED"}

\* _TRANSITIONS with the three updates that follow it
Transitions ==
  { <<"IDLE", "CREATE_SESSION", "PREPARING">>,
    <<"PREPARING", "SESSION_PREPARED", "READY">>,
    <<"READY", "START_CLASS", "PASSIVE_LISTENING">>,
    <<"PASSIVE_LISTENING", "WAKE_WORD_DETECTED", "ACTIVATED">>,
    <<"ACTIVATED", "ACTIVATION_EXPIRED", "PASSIVE_LISTENING">>,
    <<"ACTIVATED", "CAPTURE_STARTED", "CAPTURING_REQUEST">>,
    <<"CAPTURING_REQUEST", "REQUEST_CAPTURED", "THINKING">>,
    <<"CAPTURING_REQUEST", "ACTIVATION_EXPIRED", "PASSIVE_LISTENING">>,
    <<"THINKING", "RESPONSE_STARTED", "SPEAKING">>,
    <<"THINKING", "RESPONSE_FINISHED", "PASSIVE_LISTENING">>,
    <<"SPEAKING", "RESPONSE_FINISHED", "PASSIVE_LISTENING">>,
    <<"SPEAKING", "INTERRUPT", "INTERRUPTED">>,
    <<"THINKING", "INTERRUPT", "INTERRUPTED">>,
    <<"SPEAKING", "WAKE_WORD_DETECTED", "INTERRUPTED">>,
    <<"THINKING", "WAKE_WORD_DETECTED", "INTERRUPTED">>,
    <<"INTERRUPTED", "INTERRUPTION_HANDLED", "PASSIVE_LISTENING">>,
    <<"INTERRUPTED", "WAKE_WORD_DETECTED", "ACTIVATED">>,
    <<"PAUSED", "RESUME", "PASSIVE_LISTENING">>,
    <<"STOPPED", "RESET", "IDLE">>,
    <<"ERROR", "RECOVER", "READY">>,
    <<"ERROR", "RESET", "IDLE">> }
  \cup {<<s, "TURN_FAILED", "PASSIVE_LISTENING">> :
          s \in {"ACTIVATED", "CAPTURING_REQUEST", "THINKING", "SPEAKING"}}
  \cup {<<s, "PAUSE", "PAUSED">> : s \in MicActive}
  \cup {<<s, "STOP", "STOPPED">> :
          s \in MicActive \cup {"PREPARING", "READY", "PAUSED"}}
  \cup {<<s, "FAIL", "ERROR">> : s \in State \ {"ERROR", "STOPPED"}}

\* SessionStateMachine.can
Can(s, e) == \E t \in State : <<s, e, t>> \in Transitions

\* SessionStateMachine.try_dispatch: an event that does not apply changes
\* nothing.  dispatch is the same move, guarded by Can where the code raises.
TryDispatch(s, e) ==
  IF Can(s, e) THEN CHOOSE t \in State : <<s, e, t>> \in Transitions ELSE s
==============================================================================

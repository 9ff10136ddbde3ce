----------------------------- MODULE SessionLink ------------------------------
(***************************************************************************)
(* What the session of a class promises to whoever listens to it (the      *)
(* turn, module Turn), whatever it does to keep the promise: it is ready   *)
(* on one connection at a time, says so when it loses it, comes back on    *)
(* another one, and while it is ready only that connection is heard.       *)
(***************************************************************************)
CONSTANTS Connections, None

VARIABLES
  status,   \* ConnectionState, as the listeners know it
  serving,  \* the connection that serves, or None
  heard     \* the connection whose event reached the listeners last, or None

vars == <<status, serving, heard>>

Statuses ==
  {"disconnected", "connecting", "ready", "reconnecting", "failed", "abandoned"}

Init == status = "disconnected" /\ serving = None /\ heard = None

Begin ==
  /\ status = "disconnected"
  /\ status' = "connecting"
  /\ UNCHANGED <<serving, heard>>

\* A new connection takes over from the one before while listeners are told
\* nothing is ready
TakeOver ==
  /\ status \in {"connecting", "reconnecting", "abandoned"}
  /\ serving' \in Connections \ {serving}
  /\ UNCHANGED <<status, heard>>

Ready ==
  /\ status \in {"connecting", "reconnecting"}
  /\ serving # None
  /\ status' = "ready"
  /\ UNCHANGED <<serving, heard>>

Lose ==
  /\ status \in {"ready", "connecting"}
  /\ status' = "reconnecting"
  /\ UNCHANGED <<serving, heard>>

\* Not even once (start without keep_trying), or never again
Fail ==
  /\ status \in {"connecting", "reconnecting"}
  /\ status' \in {"disconnected", "failed"}
  /\ UNCHANGED <<serving, heard>>

\* Closed for good
Close ==
  /\ status # "abandoned"
  /\ status' = "disconnected"
  /\ serving' = None
  /\ UNCHANGED heard

\* Closed while it was being opened for the first time: nothing is promised
\* about it from then on
Abandon ==
  /\ status = "connecting"
  /\ status' = "abandoned"
  /\ UNCHANGED <<serving, heard>>

Hear ==
  /\ heard' \in Connections
  /\ status = "ready" => heard' = serving
  /\ UNCHANGED <<status, serving>>

Next ==
  Begin \/ TakeOver \/ Ready \/ Lose \/ Fail \/ Close \/ Abandon \/ Hear

Spec == Init /\ [][Next]_vars
==============================================================================

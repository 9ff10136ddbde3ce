--------------------------- MODULE RealtimeSession ----------------------------
(***************************************************************************)
(* The class-long Realtime session (realtime/session.py): one WebSocket at *)
(* a time, replaced when it is lost and renewed when it is old.            *)
(*                                                                         *)
(* `run` is where the coroutine that opens connections is suspended: the   *)
(* first time start() itself, afterwards the supervisor task.  Between two *)
(* of its suspensions run the readers of the connections, the turn that    *)
(* uses the session (session/turn.py, seen here through the calls it       *)
(* makes) and stop(); the audio thread runs at any moment.  The network    *)
(* and the server are external.                                            *)
(***************************************************************************)
EXTENDS Naturals, Sequences

CONSTANTS
  Connections,  \* sockets, used again once closed
  None,         \* no connection
  MaxTurns,     \* bound: questions asked
  MaxFailures,  \* bound: attempts that fail
  MaxDrops,     \* bound: connections the network closes
  MaxRenewals,  \* bound: connections that grow old
  MaxWire       \* bound: events a server has sent and nobody read

ASSUME NoneAssumption == None \notin Connections
ASSUME BoundsAssumption ==
  {MaxTurns, MaxFailures, MaxDrops, MaxRenewals, MaxWire} \subseteq Nat

VARIABLES
  state,     \* ConnectionState
  run,       \* where the coroutine that opens connections is suspended
  by,        \* whose coroutine: start() of a class, of a probe, or _supervisor
  opening,   \* the connection it is opening, or None
  previous,  \* the connection it is closing after a replacement, or None
  serving,   \* _connection
  stopping,  \* _stopping
  lost,      \* _lost
  inTurn,    \* _in_turn
  old,       \* the serving connection has reached max_session_seconds
  socket,    \* the state of each socket
  wire,      \* FIFO of what each server sent and nobody read
  server,    \* what each server is doing
  turn,      \* the turn that uses the session
  heard,     \* history: the connection whose event reached the turn last
  abandoned, \* history: stop() ran while start() was opening
  crossed,   \* history: a question expired that the server had heard
  spent      \* how much of each bound has been used

vars == <<state, run, by, opening, previous, serving, stopping, lost, inTurn,
          old, socket, wire, server, turn, heard, abandoned, crossed, spent>>

ConnectionState ==
  {"disconnected", "connecting", "ready", "reconnecting", "failed"}

\* "over": nobody supervises; "closing" and "stopped" are stop()
Suspensions ==
  {"idle", "dial", "shake", "swap", "backoff", "watch", "recheck", "over",
   "closing", "stopped"}

\* A socket that is "cut" was closed by the network and its reader has not
\* got to the end of it
Sockets == {"closed", "dialing", "shaking", "open", "cut"}

ServerEvents == [type : {"started", "stopped", "audio", "done"}, turn : Nat]
Sent(type, n) == [type |-> type, turn |-> n]

Server == [hears : Nat, answers : Nat]   \* 0 for none
FreshServer == [hears |-> 0, answers |-> 0]

\* A turn is "asked" once the start of its question was heard; one that is
\* "sounding" plays an answer that is still arriving, one that is
\* "draining" an answer that has arrived whole
Turns == [n : Nat,
          phase : {"none", "asking", "asked", "waiting", "sounding", "draining"},
          streaming : BOOLEAN]

\* _abort_turn and _on_turn_cut let go of everything
Released(t) == [t EXCEPT !.phase = "none", !.streaming = FALSE]

\* ready, and append_audio while the turn streams: the server gets the frame
Ready == state = "ready" /\ serving # None
Streams == Ready /\ turn.streaming

Init ==
  /\ state = "disconnected"
  /\ run = "idle" /\ by \in {"class", "probe"}
  /\ opening = None /\ previous = None /\ serving = None
  /\ stopping = FALSE /\ lost = FALSE /\ inTurn = FALSE /\ old = FALSE
  /\ socket = [c \in Connections |-> "closed"]
  /\ wire = [c \in Connections |-> <<>>]
  /\ server = [c \in Connections |-> FreshServer]
  /\ turn = [n |-> 0, phase |-> "none", streaming |-> FALSE]
  /\ heard = None /\ abandoned = FALSE /\ crossed = FALSE
  /\ spent = [failures |-> 0, drops |-> 0, renewals |-> 0]

-----------------------------------------------------------------------------
(***************************************************************************)
(* The coroutine that opens connections                                    *)
(***************************************************************************)
Network == <<wire, server>>
Coroutine == <<run, by, opening, previous, serving, stopping, old>>
History == <<heard, abandoned, crossed>>

\* ConnectionChanged to anything but READY aborts the turn that has begun
\* (TurnController._on_event), and aborting it calls end_turn
TurnTold(s) ==
  /\ turn' = IF s = "ready" THEN turn ELSE Released(turn)
  /\ inTurn' = (inTurn /\ (s = "ready" \/ turn.phase = "none"))

\* _open up to its first await
Open ==
  /\ run' = "dial"
  /\ lost' = FALSE
  /\ \E c \in Connections :
       /\ socket[c] = "closed" /\ c \notin {serving, previous}
       /\ opening' = c
       /\ socket' = [socket EXCEPT ![c] = "dialing"]

\* start, up to its first await
Start ==
  /\ run = "idle"
  /\ state' = "connecting"
  /\ Open
  /\ UNCHANGED <<by, previous, serving, stopping, inTurn, old, Network, turn,
                 History, spent>>

DialSucceeds ==
  /\ run = "dial"
  /\ run' = "shake"
  /\ socket' = [socket EXCEPT ![opening] = "shaking"]
  /\ UNCHANGED <<state, by, opening, previous, serving, stopping, lost, inTurn,
                 old, Network, turn, History, spent>>

\* Mutation of ShakeSucceeds: the attempt is not over when it succeeds
ShakeStillOpening ==
  /\ run = "shake"
  /\ run' = "swap"
  /\ socket' = [socket EXCEPT ![opening] = "open"]
  /\ server' = [server EXCEPT ![opening] = FreshServer]
  /\ previous' = serving
  /\ serving' = opening
  /\ UNCHANGED <<state, by, opening, stopping, lost, inTurn, old, wire, turn, History,
                 spent>>

\* The handshake is done: a reader starts and the new connection takes over
\* from the previous one, whose closing is awaited
ShakeSucceeds ==
  /\ run = "shake"
  /\ run' = "swap"
  /\ socket' = [socket EXCEPT ![opening] = "open"]
  /\ server' = [server EXCEPT ![opening] = FreshServer]
  /\ previous' = serving
  /\ serving' = opening
  /\ opening' = None
  /\ UNCHANGED <<state, by, stopping, lost, inTurn, old, wire, turn, History, spent>>

\* The end of _open once the previous connection is closed
Closing(c) ==
  /\ previous' = None
  /\ wire' = [d \in Connections |-> IF d = c THEN <<>> ELSE wire[d]]
  /\ socket' = [d \in Connections |-> IF d = c THEN "closed" ELSE socket[d]]

\* Mutation of Swapped: the loss is forgotten when the new connection is ready
SwappedClearsLoss ==
  /\ run = "swap"
  /\ Closing(previous)
  /\ state' = "ready" /\ by' = "supervisor"
  /\ run' = IF stopping THEN "over" ELSE "watch"
  /\ inTurn' = FALSE /\ old' = FALSE /\ lost' = FALSE
  /\ UNCHANGED <<opening, serving, stopping, server, turn, History, spent>>

\* Mutation of Swapped: the session is ready before the previous connection
\* has closed
ReadyBeforeClosing ==
  /\ run = "swap" /\ state # "ready"
  /\ state' = "ready"
  /\ UNCHANGED <<Coroutine, lost, inTurn, socket, Network, turn, History, spent>>

\* _open ends ready and _supervise waits: a loss that is already set wakes it
\* up before the loop reads anything else (SwappedLost)
Swapped ==
  /\ run = "swap" /\ (lost => stopping)
  /\ Closing(previous)
  /\ state' = "ready" /\ by' = "supervisor"
  /\ run' = IF stopping THEN "over" ELSE "watch"
  /\ inTurn' = FALSE /\ old' = FALSE
  /\ UNCHANGED <<opening, serving, stopping, lost, server, turn, History, spent>>

SwappedLost ==
  /\ run = "swap" /\ lost /\ ~stopping
  /\ by' = "supervisor" /\ run' = "dial"
  /\ previous' = None
  /\ wire' = [c \in Connections |-> IF c = previous THEN <<>> ELSE wire[c]]
  /\ \E c \in Connections :
       /\ socket[c] = "closed" \/ c = previous
       /\ c # serving
       /\ opening' = c
       /\ socket' = [d \in Connections |-> IF d = c THEN "dialing"
                                           ELSE IF d = previous THEN "closed"
                                           ELSE socket[d]]
  /\ lost' = FALSE /\ inTurn' = FALSE /\ old' = FALSE
  /\ UNCHANGED <<state, serving, stopping, server, turn, History, spent>>

\* RealtimeUnavailable out of the attempt, whose socket is aborted.  The
\* first one is start's: a class goes on trying at once, a probe raises.
\* A fatal refusal ends everything.
AttemptFails ==
  /\ run \in {"dial", "shake"}
  /\ spent.failures < MaxFailures
  /\ spent' = [spent EXCEPT !.failures = @ + 1]
  /\ \E fatal \in BOOLEAN :
       LET retries == by # "probe" /\ ~fatal IN
       /\ state' = IF retries THEN "reconnecting"
                   ELSE IF fatal THEN "failed" ELSE "disconnected"
       /\ TurnTold("reconnecting")
       /\ stopping' = (stopping \/ (fatal /\ by = "supervisor"))
       /\ IF retries /\ by = "class" /\ ~stopping
          THEN /\ run' = "dial"
               /\ lost' = FALSE
               /\ socket' = [socket EXCEPT ![opening] = "dialing"]
               /\ UNCHANGED opening
          ELSE /\ run' = IF retries /\ ~stopping THEN "backoff" ELSE "over"
               /\ socket' = [socket EXCEPT ![opening] = "closed"]
               /\ opening' = None
               /\ UNCHANGED lost
       /\ by' = IF retries THEN "supervisor" ELSE by
  /\ UNCHANGED <<previous, serving, old, Network, History>>

\* Mutation of Retry: the supervisor waits for a loss instead of trying again
RetryWaits ==
  /\ run = "backoff"
  /\ run' = "recheck"
  /\ UNCHANGED <<state, by, opening, previous, serving, stopping, lost, inTurn, old,
                 socket, Network, turn, History, spent>>

\* The delay of _reconnect is over
Retry ==
  /\ run = "backoff"
  /\ Open
  /\ UNCHANGED <<state, by, previous, serving, stopping, inTurn, old, Network,
                 turn, History, spent>>

\* _reconnect, up to its first await
Reconnect ==
  /\ state' = "reconnecting"
  /\ TurnTold("reconnecting")
  /\ Open
  /\ UNCHANGED <<by, previous, serving, stopping, old, Network, History, spent>>

\* _supervise: the loss wakes it up ...
ReplaceLost ==
  /\ run \in {"watch", "recheck"} /\ lost
  /\ Reconnect

\* Mutation of Renew: whether a turn is under way is not asked
RenewAnyway ==
  /\ run = "watch" /\ ~lost /\ old
  /\ Reconnect

\* ... or the connection is old and no turn is under way ...
Renew ==
  /\ run = "watch" /\ ~lost /\ old /\ ~inTurn
  /\ Reconnect

\* ... or one is, and it looks again a second later
PutOff ==
  /\ \/ run = "watch" /\ ~lost /\ old /\ inTurn /\ run' = "recheck"
     \/ run = "recheck" /\ ~lost /\ run' = "watch"
  /\ UNCHANGED <<state, by, opening, previous, serving, stopping, lost, inTurn, old,
                 socket, Network, turn, History, spent>>

-----------------------------------------------------------------------------
(***************************************************************************)
(* stop                                                                    *)
(***************************************************************************)

\* The coroutine is cancelled where it is suspended.  A handshake that is
\* cancelled leaves its socket, and a replacement the connection it was
\* closing.  start() of a class is not cancelled: nobody holds its task.
Stop ==
  /\ run \notin {"idle", "closing", "stopped"} /\ ~abandoned
  /\ stopping' = TRUE
  /\ turn' = Released(turn)   \* TurnController.close aborts the turn first
  /\ inTurn' = FALSE
  /\ IF by = "class" /\ run # "over"
     THEN /\ abandoned' = TRUE
          /\ state' = "disconnected"
          /\ UNCHANGED <<run, opening, serving, socket>>
     ELSE /\ run' = IF serving = None THEN "stopped" ELSE "closing"
          /\ state' = IF serving = None THEN "disconnected" ELSE state
          /\ socket' = [c \in Connections |->
               IF c = opening /\ run = "dial" THEN "closed" ELSE socket[c]]
          /\ opening' = None
          /\ UNCHANGED <<serving, abandoned>>
  /\ UNCHANGED <<by, previous, lost, old, Network, heard, crossed, spent>>

\* The connection has closed
Stopped ==
  /\ run = "closing"
  /\ run' = "stopped"
  /\ state' = "disconnected"
  /\ socket' = [socket EXCEPT ![serving] = "closed"]
  /\ wire' = [wire EXCEPT ![serving] = <<>>]
  /\ serving' = None
  /\ UNCHANGED <<by, opening, previous, stopping, lost, inTurn, old, server, turn,
                 History, spent>>

-----------------------------------------------------------------------------
(***************************************************************************)
(* The readers: RealtimeConnection._read and _on_event                     *)
(***************************************************************************)
\* What the turn does with an event; answers are told apart by their id
TurnHears(e) ==
  turn' =
    CASE e.type = "started" /\ turn.phase = "asking" ->
           [turn EXCEPT !.phase = "asked"]
      [] e.type = "stopped" /\ turn.phase \in {"asking", "asked"} ->
           [turn EXCEPT !.phase = "waiting", !.streaming = FALSE]
      [] e.type = "audio" /\ e.turn = turn.n /\ turn.phase = "waiting" ->
           [turn EXCEPT !.phase = "sounding"]
      [] e.type = "done" /\ e.turn = turn.n /\ turn.phase = "waiting" ->
           [turn EXCEPT !.phase = "none"]
      [] e.type = "done" /\ e.turn = turn.n /\ turn.phase = "sounding" ->
           [turn EXCEPT !.phase = "draining"]
      [] OTHER -> turn

\* Mutation of ReadEvent: the start of speech does not mark the turn
ReadEventUnmarked ==
  \E c \in Connections :
    /\ socket[c] \in {"open", "cut"} /\ wire[c] # <<>>
    /\ LET e == Head(wire[c]) IN
       /\ inTurn' = (inTurn /\ e.type # "done")
       /\ TurnHears(e)
    /\ wire' = [wire EXCEPT ![c] = Tail(@)]
    /\ heard' = c
    /\ UNCHANGED <<state, Coroutine, lost, socket, server, abandoned, crossed, spent>>

ReadEvent ==
  \E c \in Connections :
    /\ socket[c] \in {"open", "cut"} /\ wire[c] # <<>>
    /\ LET e == Head(wire[c]) IN
       /\ inTurn' = (e.type = "started" \/ (inTurn /\ e.type # "done"))
       /\ TurnHears(e)
    /\ wire' = [wire EXCEPT ![c] = Tail(@)]
    /\ heard' = c
    /\ UNCHANGED <<state, Coroutine, lost, socket, server, abandoned, crossed, spent>>

\* The end of a connection that nobody is closing is told to the session
ReadEnd ==
  \E c \in Connections :
    /\ socket[c] = "cut" /\ wire[c] = <<>>
    /\ socket' = [socket EXCEPT ![c] = "closed"]
    /\ LET told == c # previous /\ ~stopping IN
       /\ lost' = (lost \/ told)
       /\ inTurn' = (inTurn /\ ~told)
    /\ UNCHANGED <<state, Coroutine, Network, turn, History, spent>>

-----------------------------------------------------------------------------
(***************************************************************************)
(* The turn: the calls it makes on its own (session/turn.py)               *)
(***************************************************************************)
Session == <<state, Coroutine, lost, socket, History, spent>>

\* _begin_turn streams the pre-roll
Ask ==
  /\ Ready /\ ~stopping /\ turn.phase = "none" /\ turn.n < MaxTurns
  /\ turn' = [n |-> turn.n + 1, phase |-> "asking", streaming |-> TRUE]
  /\ inTurn' = TRUE
  /\ UNCHANGED <<Session, Network>>

\* append_audio, from the audio thread
Frame ==
  /\ Streams /\ ~inTurn
  /\ inTurn' = TRUE
  /\ UNCHANGED <<Session, Network, turn>>

\* _no_question, unless the question has started: streaming stops, the audio
\* sent is cleared and the turn ends
NoQuestion ==
  /\ turn.phase = "asking"
  /\ turn' = Released(turn)
  /\ inTurn' = FALSE
  /\ crossed' = (crossed \/ (serving # None /\ server[serving].hears = turn.n))
  /\ UNCHANGED <<state, Coroutine, lost, socket, Network, heard, abandoned, spent>>

\* _question_too_long: the question ends and is committed.  It takes the
\* question's longest time, and no event is in flight for that long.
QuestionTooLong ==
  /\ turn.phase = "asked"
  /\ \A c \in Connections : wire[c] = <<>>
  /\ turn' = [turn EXCEPT !.phase = "waiting", !.streaming = FALSE]
  /\ IF Ready /\ socket[serving] = "open" /\ server[serving].answers = 0
     THEN server' = [server EXCEPT ![serving].answers = turn.n]
     ELSE UNCHANGED server
  /\ UNCHANGED <<Session, wire, inTurn>>

\* _on_turn_cut: the answer is cancelled and the turn ended before streaming
\* stops, so a frame in between marks the session again
Cut ==
  /\ turn.phase # "none"
  /\ turn' = Released(turn)
  /\ inTurn' \in {FALSE, Streams}
  /\ IF Ready /\ socket[serving] = "open" /\ server[serving].answers # 0
     THEN /\ server' = [server EXCEPT ![serving].answers = 0]
          /\ wire' = [wire EXCEPT ![serving] = Append(@, Sent("done", server[serving].answers))]
     ELSE UNCHANGED Network
  /\ UNCHANGED Session

\* The speaker has played the whole answer
Played ==
  /\ turn.phase = "draining"
  /\ turn' = Released(turn)
  /\ UNCHANGED <<Session, Network, inTurn>>

-----------------------------------------------------------------------------
(***************************************************************************)
(* The network and the servers (external)                                  *)
(***************************************************************************)
Client == <<state, Coroutine, lost, inTurn, turn, History>>

Drop ==
  \E c \in Connections :
    /\ socket[c] = "open" /\ spent.drops < MaxDrops
    /\ socket' = [socket EXCEPT ![c] = "cut"]
    /\ spent' = [spent EXCEPT !.drops = @ + 1]
    /\ UNCHANGED <<Client, Network>>

GrowOld ==
  /\ Ready /\ ~old /\ spent.renewals < MaxRenewals
  /\ old' = TRUE
  /\ spent' = [spent EXCEPT !.renewals = @ + 1]
  /\ UNCHANGED <<state, run, by, opening, previous, serving, stopping, lost, inTurn,
                 socket, Network, turn, History>>

Says(c, type, n) ==
  /\ socket[c] = "open" /\ Len(wire[c]) < MaxWire
  /\ wire' = [wire EXCEPT ![c] = Append(@, Sent(type, n))]
  /\ UNCHANGED <<Client, socket, spent>>

\* Speech in the audio of the turn, once in a turn
ServerHears(c) ==
  /\ Streams /\ c = serving /\ server[c].hears # turn.n
  /\ Says(c, "started", turn.n)
  /\ server' = [server EXCEPT ![c].hears = turn.n]

\* Silence after it: unless an answer is under way the question is answered
ServerAnswers(c) ==
  /\ Streams /\ c = serving /\ server[c].hears = turn.n
  /\ \A i \in DOMAIN wire[c] : wire[c][i] # Sent("stopped", turn.n)
  /\ server[c].answers = 0
  /\ Says(c, "stopped", turn.n)
  /\ server' = [server EXCEPT ![c].answers = turn.n]

ServerSpeaks(c) ==
  /\ server[c].answers # 0
  /\ \A i \in DOMAIN wire[c] : wire[c][i].type # "audio"
  /\ Says(c, "audio", server[c].answers)
  /\ UNCHANGED server

ServerFinishes(c) ==
  /\ server[c].answers # 0
  /\ Says(c, "done", server[c].answers)
  /\ server' = [server EXCEPT ![c].answers = 0]

-----------------------------------------------------------------------------
Attempt ==
  \/ DialSucceeds \/ ShakeSucceeds \/ Swapped \/ SwappedLost \/ AttemptFails
  \/ Retry

Supervise == ReplaceLost \/ Renew \/ PutOff

Read == ReadEvent \/ ReadEnd

Answer == \E c \in Connections : ServerSpeaks(c) \/ ServerFinishes(c)

Next ==
  \/ Start \/ Attempt \/ Supervise \/ Stop \/ Stopped \/ Read
  \/ Ask \/ Frame \/ NoQuestion \/ QuestionTooLong \/ Cut \/ Played
  \/ Drop \/ GrowOld \/ Answer
  \/ \E c \in Connections : ServerHears(c) \/ ServerAnswers(c)

Spec == Init /\ [][Next]_vars

\* The loop goes on.  Attempts fail a bounded number of times, so weak
\* fairness of Attempt says that the network comes back.
Fairness ==
  /\ WF_vars(Attempt) /\ WF_vars(Supervise) /\ WF_vars(Stopped)
  /\ WF_vars(ReadEvent) /\ WF_vars(ReadEnd)

FairSpec == Spec /\ Fairness

-----------------------------------------------------------------------------
(***************************************************************************)
(* Properties                                                              *)
(***************************************************************************)

\* Every variable has its type, a connection is being opened exactly while the
\* coroutine is opening one, and who waits on a connection has it.
TypeOK ==
  /\ state \in ConnectionState
  /\ run \in Suspensions
  /\ by \in {"class", "probe", "supervisor"}
  /\ {opening, previous, serving} \subseteq Connections \cup {None}
  /\ {stopping, lost, inTurn, old, abandoned} \subseteq BOOLEAN
  /\ socket \in [Connections -> Sockets]
  /\ wire \in [Connections -> Seq(ServerEvents)]
  /\ server \in [Connections -> Server]
  /\ turn \in Turns
  /\ heard \in Connections \cup {None}
  /\ spent \in [failures : Nat, drops : Nat, renewals : Nat]
  /\ opening # None <=> run \in {"dial", "shake"}
  /\ run \in {"swap", "watch", "recheck", "closing"} => serving # None

\* The supervisor never sleeps on a connection that is gone: its end is yet
\* to be read, or the loss is set, whatever _open cleared and in what order
\* the losses of the old and the new connection came.
LossIsKnown ==
  run \in {"watch", "recheck"} => socket[serving] \in {"open", "cut"} \/ lost

\* While an answer arrives the session knows a turn is under way, although
\* end_turn and the response.done of an answer that was cut, crossing the next
\* question, clear the mark (session.py: "a turn runs from the first audio of
\* a question to response.done").  Only losing the connection ends it.
AnswerIsInTurn ==
  run = "watch" /\ ~lost /\ ~crossed /\ turn.phase = "sounding" => inTurn

\* A connection that is alive is not replaced while an answer arrives on it,
\* neither because it is old nor because an earlier one was lost late.
LiveAnswerIsKept ==
  [][(run \in {"watch", "recheck"}) /\ run' = "dial" /\ socket[serving] = "open"
       => turn.phase # "sounding" \/ crossed]_vars

\* A lost connection is replaced, the key is refused or the class ends: the
\* session does not stay reconnecting.
Reconnects == state = "reconnecting" /\ ~stopping ~> state # "reconnecting"

\* The session keeps the promises of SessionLink.
Link == INSTANCE SessionLink
  WITH status <- IF abandoned THEN "abandoned" ELSE state

LinkSpec == Link!Spec
==============================================================================

-------------------------------- MODULE EventHub --------------------------------
(***************************************************************************)
(* How a window follows the class: the hub of api/app.py, the event socket *)
(* and the window's side of both in lib/useBackend.ts.  A move of the      *)
(* state machine is told from any thread, published on the loop, queued    *)
(* for the window if its queue has room, and sent; the window answers each *)
(* move it hears of by asking for a snapshot, and shows whatever snapshot  *)
(* arrives last; a request for one may fail, and is not made again.  The   *)
(* class is the number of moves it has made; a message is a move or        *)
(* something else (the texts of a turn, an activation).                    *)
(***************************************************************************)
EXTENDS Naturals, Sequences

CONSTANTS
  QueueSize,  \* maxsize of a window's queue
  MaxMoves,   \* bound: moves of the class
  MaxTexts,   \* bound: other messages
  MaxCloses   \* bound: how often the socket closes

ASSUME HubAssumption ==
  QueueSize \in Nat \ {0} /\ {MaxMoves, MaxTexts, MaxCloses} \subseteq Nat

VARIABLES
  moves,    \* moves of the state machine
  texts,    \* other messages told
  loop,     \* messages scheduled on the loop and not published
  queue,    \* the window's queue, in order, while it is subscribed
  socket,   \* "closed", or "open" once the hub holds its queue
  wire,     \* what the socket has sent and the window has not read
  asking,   \* refreshes not served yet
  answers,  \* answers[n]: refreshes served after n moves and not arrived
  shown,    \* the snapshot on the screen
  newest,   \* history: the newest snapshot that has arrived
  lost,     \* history: a move was dropped, or a request for a snapshot
            \* failed, and that was the last on its way
  closes

hubVars == <<moves, texts, loop, queue, socket, wire, asking, answers, shown,
             newest, lost, closes>>

Message == {"move", "text"}
Sent == [kind : Message \cup {"snapshot"}, at : Nat]

HubType ==
  /\ moves \in Nat /\ texts \in Nat
  /\ loop \in Seq(Message)
  /\ queue \in Seq(Message) /\ Len(queue) <= QueueSize
  /\ socket \in {"closed", "open"}
  /\ wire \in Seq(Sent)
  /\ asking \in Nat
  /\ answers \in [0..MaxMoves -> Nat]
  /\ shown \in 0..MaxMoves /\ newest \in 0..MaxMoves
  /\ lost \in BOOLEAN
  /\ closes \in 0..MaxCloses

\* The window asks for its first snapshot as it connects.
HubInit ==
  /\ moves = 0 /\ texts = 0
  /\ loop = <<>> /\ queue = <<>>
  /\ socket = "closed" /\ wire = <<>>
  /\ asking = 1 /\ answers = [n \in 0..MaxMoves |-> 0]
  /\ shown = 0 /\ newest = 0
  /\ lost = FALSE
  /\ closes = 0

-----------------------------------------------------------------------------
(* The backend *)

\* publish_threadsafe
Moves ==
  /\ moves < MaxMoves
  /\ moves' = moves + 1
  /\ loop' = Append(loop, "move")
  /\ UNCHANGED <<texts, queue, socket, wire, asking, answers, shown, newest,
                 lost, closes>>

Tells ==
  /\ texts < MaxTexts
  /\ texts' = texts + 1
  /\ loop' = Append(loop, "text")
  /\ UNCHANGED <<moves, queue, socket, wire, asking, answers, shown, newest,
                 lost, closes>>

Has(s, message) == \E i \in 1..Len(s) : s[i] = message
MoveSent == \E i \in 1..Len(wire) : wire[i].kind = "move"
SnapshotSent == \E i \in 1..Len(wire) : wire[i].kind = "snapshot" /\ wire[i].at = moves

\* A snapshot of the class as it is is on its way to the window, or something that
\* makes the window ask for one.
OnItsWay ==
  \/ Has(loop, "move") \/ Has(queue, "move") \/ MoveSent \/ SnapshotSent
  \/ asking > 0 \/ answers[moves] > 0

\* Fault: a queue that is full takes the message.
PublishAnyway ==
  /\ loop # <<>>
  /\ loop' = Tail(loop)
  /\ queue' = IF socket = "open" THEN Append(queue, Head(loop)) ELSE queue
  /\ UNCHANGED <<moves, texts, socket, wire, asking, answers, shown, newest,
                 lost, closes>>

\* _publish: a queue that is full loses the message.  The move it told of is
\* still seen if the window has another to hear of, or to ask about.
Publish ==
  /\ loop # <<>>
  /\ loop' = Tail(loop)
  /\ UNCHANGED <<moves, texts, socket, wire, asking, answers, shown, newest,
                 closes>>
  /\ IF socket = "open" /\ Len(queue) < QueueSize
       THEN /\ queue' = Append(queue, Head(loop))
            /\ lost' = (lost /\ Head(loop) # "move")
       ELSE /\ UNCHANGED queue
            /\ lost' = \/ lost
                       \/ /\ socket = "open" /\ Head(loop) = "move"
                          /\ newest # moves /\ ~OnItsWay'

Snapshot(n) == [kind |-> "snapshot", at |-> n]

\* events: the queue is subscribed before the first snapshot is taken.
Connect ==
  /\ socket = "closed"
  /\ socket' = "open"
  /\ queue' = <<>>
  /\ wire' = <<Snapshot(moves)>>
  /\ lost' = FALSE
  /\ UNCHANGED <<moves, texts, loop, asking, answers, shown, newest, closes>>

Send ==
  /\ socket = "open" /\ queue # <<>>
  /\ wire' = Append(wire, [kind |-> Head(queue), at |-> 0])
  /\ queue' = Tail(queue)
  /\ UNCHANGED <<moves, texts, loop, socket, asking, answers, shown, newest,
                 lost, closes>>

\* The socket closes and what was on its way is gone; the window connects
\* again a second later.
Disconnect ==
  /\ socket = "open" /\ closes < MaxCloses
  /\ closes' = closes + 1
  /\ socket' = "closed"
  /\ queue' = <<>> /\ wire' = <<>>
  /\ UNCHANGED <<moves, texts, loop, asking, answers, shown, newest, lost>>

\* GET /api/state
Serve ==
  /\ asking > 0
  /\ asking' = asking - 1
  /\ answers' = [answers EXCEPT ![moves] = @ + 1]
  /\ UNCHANGED <<moves, texts, loop, queue, socket, wire, shown, newest, lost,
                 closes>>

-----------------------------------------------------------------------------
(* The window *)

\* setSnapshot: whatever arrives last stays.
Show(n) ==
  /\ shown' = n
  /\ newest' = IF n > newest THEN n ELSE newest

\* Fault: a move is taken for a snapshot, and nothing is asked for.
ReadsWithoutAsking ==
  /\ wire # <<>>
  /\ wire' = Tail(wire)
  /\ IF Head(wire).kind = "snapshot" THEN Show(Head(wire).at)
                                    ELSE UNCHANGED <<shown, newest>>
  /\ UNCHANGED <<moves, texts, loop, queue, socket, asking, answers, lost, closes>>

\* onmessage
Reads ==
  /\ wire # <<>>
  /\ wire' = Tail(wire)
  /\ IF Head(wire).kind = "snapshot" THEN Show(Head(wire).at)
                                    ELSE UNCHANGED <<shown, newest>>
  /\ asking' = IF Head(wire).kind = "move" THEN asking + 1 ELSE asking
  /\ UNCHANGED <<moves, texts, loop, queue, socket, answers, lost, closes>>

\* refresh: its answers come in any order, ...
Arrives ==
  /\ \E n \in 0..MaxMoves :
       /\ answers[n] > 0
       /\ answers' = [answers EXCEPT ![n] = @ - 1]
       /\ Show(n)
  /\ UNCHANGED <<moves, texts, loop, queue, socket, wire, asking, lost, closes>>

\* ... or the request fails, before it is served or after.  The window says that
\* it is not connected and keeps the snapshot it shows, and only another move or
\* another connection has it ask again.
RefreshFails ==
  /\ \/ asking > 0 /\ asking' = asking - 1 /\ UNCHANGED answers
     \/ \E n \in 0..MaxMoves :
          /\ answers[n] > 0
          /\ answers' = [answers EXCEPT ![n] = @ - 1]
          /\ UNCHANGED asking
  /\ UNCHANGED <<moves, texts, loop, queue, socket, wire, shown, newest, closes>>
  /\ lost' = (lost \/ (newest # moves /\ ~OnItsWay'))

HubStep ==
  \/ Moves \/ Tells \/ Publish
  \/ Connect \/ Send \/ Disconnect \/ Serve
  \/ Reads \/ Arrives \/ RefreshFails

-----------------------------------------------------------------------------
(* Properties *)

\* Nothing about the class is on its way to the window.
Quiet ==
  /\ socket = "open"
  /\ ~Has(loop, "move") /\ ~Has(queue, "move")
  /\ wire = <<>> /\ asking = 0 /\ \A n \in 0..MaxMoves : answers[n] = 0

\* A window with nothing on its way has been given the class as it is, although
\* its socket may have closed, its queue dropped messages and its requests failed:
\* what one of them misses is seen through any other move the window has still to
\* hear of or to ask about, and a connection starts with a snapshot taken after it
\* subscribed.  The exceptions are a queue filled by texts alone (app.py:161) and
\* the last request of all failing while the socket stays open (useBackend.ts:59).
\* What the window shows may still be older: two snapshots can cross, and the last
\* to arrive stays (useBackend.ts:57).
WindowIsTold == Quiet /\ ~lost => newest = moves
==============================================================================

------------------------ MODULE RealtimeSessionProofs -------------------------
(***************************************************************************)
(* What module RealtimeSession promises for every set of sockets and every *)
(* bound: its types, that no loss is forgotten, that it implements         *)
(* SessionLink, and that an answer which arrives is known to be a turn     *)
(* under way, so that its connection is kept.                              *)
(***************************************************************************)
EXTENDS RealtimeSession, TLAPS

Opening == {"dial", "shake", "swap"}
Watching == {"watch", "recheck"}

\* Where the coroutine can be for what the listeners were told
RunFitsState ==
  /\ run = "idle" => state = "disconnected" /\ ~stopping
  /\ run \in Opening => state \in {"connecting", "reconnecting"} \/ abandoned
  /\ run = "backoff" => state = "reconnecting"
  /\ run \in Watching => state = "ready"
  /\ state = "ready" => run \in Watching \cup {"over", "closing"}

\* Whose the coroutine is, and what stop() does to it
RunFitsOwner ==
  /\ by # "supervisor" => run \notin Watching \cup {"backoff"}
  /\ by = "class" /\ run \in Opening => state = "connecting" \/ abandoned
  /\ stopping => run \notin Watching \cup {"idle", "backoff"}
  /\ abandoned => stopping /\ run # "closing"

\* Only the serving connection and the one being closed are open, and they
\* are not the same
SocketsFit ==
  /\ previous # None =>
       run \in {"swap", "closing", "stopped"} /\ state # "ready"
  /\ serving # None => serving \notin {opening, previous}
  /\ \A c \in Connections : socket[c] \in {"open", "cut"} => c \in {serving, previous}

\* LossIsKnown from the moment a connection takes over
LossKnownEarlier ==
  run \in Watching \cup {"swap"} /\ ~stopping
    => socket[serving] \in {"open", "cut"} \/ lost

LinkInv ==
  TypeOK /\ RunFitsState /\ RunFitsOwner /\ SocketsFit /\ LossKnownEarlier

-----------------------------------------------------------------------------
(***************************************************************************)
(* Types                                                                   *)
(***************************************************************************)

USE DEF ConnectionState, Suspensions, Sockets

\* A turn that is let go of is a turn
LEMMA ReleasedType ==
  ASSUME turn \in Turns
  PROVE  Released(turn) \in Turns
  BY DEF Turns, Released

\* What aborting the turn leaves has its type
LEMMA TurnToldType ==
  ASSUME turn \in Turns, inTurn \in BOOLEAN, NEW s, TurnTold(s)
  PROVE  turn' \in Turns /\ inTurn' \in BOOLEAN
  BY ReleasedType DEF TurnTold

\* Every action that opens a connection takes it from the same sockets
LEMMA OpenType ==
  ASSUME TypeOK, Open
  PROVE  /\ run' = "dial" /\ lost' = FALSE
         /\ opening' \in Connections
         /\ opening' \notin {serving, previous}
         /\ socket' = [socket EXCEPT ![opening'] = "dialing"]
         /\ socket' \in [Connections -> Sockets]
  BY DEF Open, TypeOK

\* An event of a server has its type
LEMMA SentType ==
  ASSUME NEW type \in {"started", "stopped", "audio", "done"}, NEW n \in Nat
  PROVE  Sent(type, n) \in ServerEvents
  BY DEF Sent, ServerEvents

\* A server that says something keeps the types of the wires
LEMMA AppendType ==
  ASSUME wire \in [Connections -> Seq(ServerEvents)], NEW c \in Connections,
         NEW e \in ServerEvents
  PROVE  [wire EXCEPT ![c] = Append(@, e)] \in [Connections -> Seq(ServerEvents)]
<1>1. Append(wire[c], e) \in Seq(ServerEvents)
  OBVIOUS
<1> QED
  BY <1>1

\* A reader that takes an event keeps the types of the wires
LEMMA HeadTailType ==
  ASSUME wire \in [Connections -> Seq(ServerEvents)], NEW c \in Connections,
         wire[c] # <<>>
  PROVE  /\ Head(wire[c]) \in ServerEvents
         /\ [wire EXCEPT ![c] = Tail(@)] \in [Connections -> Seq(ServerEvents)]
<1>1. wire[c] \in Seq(ServerEvents)
  OBVIOUS
<1>2. Head(wire[c]) \in ServerEvents /\ Tail(wire[c]) \in Seq(ServerEvents)
  BY <1>1
<1> QED
  BY <1>2

\* What a turn makes of an event is a turn
LEMMA TurnHearsType ==
  ASSUME turn \in Turns, NEW e \in ServerEvents, TurnHears(e)
  PROVE  turn' \in Turns
  BY DEF TurnHears, Turns, ServerEvents

\* A server that heard nothing yet has its type
LEMMA FreshServerType == FreshServer \in Server
  BY DEF FreshServer, Server

\* Starting, dialing and shaking hands keep the types
LEMMA AttemptType ==
  ASSUME TypeOK, Start \/ DialSucceeds \/ ShakeSucceeds \/ Retry
  PROVE  TypeOK'
<1>1. CASE Start
  BY <1>1, OpenType, NoneAssumption DEF Start, TypeOK, Network, History
<1>2. CASE DialSucceeds
  BY <1>2 DEF DialSucceeds, TypeOK, Network, History
<1>3. CASE ShakeSucceeds
  BY <1>3, FreshServerType, NoneAssumption DEF ShakeSucceeds, TypeOK, History
<1>4. CASE Retry
  BY <1>4, OpenType, NoneAssumption DEF Retry, TypeOK, Network, History
<1> QED
  BY <1>1, <1>2, <1>3, <1>4

\* So does the end of a replacement
LEMMA SwappedType ==
  ASSUME TypeOK, Swapped \/ SwappedLost
  PROVE  TypeOK'
<1>1. CASE Swapped
  <2>1. wire' \in [Connections -> Seq(ServerEvents)] /\ socket' \in [Connections -> Sockets]
    BY <1>1 DEF Swapped, Closing, TypeOK
  <2> QED
    BY <1>1, <2>1 DEF Swapped, Closing, TypeOK, History
<1>2. CASE SwappedLost
  <2>1. wire' \in [Connections -> Seq(ServerEvents)]
    BY <1>2 DEF SwappedLost, TypeOK
  <2>2. opening' \in Connections /\ socket' \in [Connections -> Sockets]
    BY <1>2 DEF SwappedLost, TypeOK
  <2> QED
    BY <1>2, <2>1, <2>2, NoneAssumption DEF SwappedLost, TypeOK, History
<1> QED
  BY <1>1, <1>2

\* So does a failed attempt
LEMMA AttemptFailsType ==
  ASSUME TypeOK, AttemptFails
  PROVE  TypeOK'
<1>1. turn' \in Turns /\ inTurn' \in BOOLEAN
  BY TurnToldType DEF AttemptFails, TypeOK
<1>2. opening \in Connections
  BY DEF AttemptFails, TypeOK
<1>3. spent' \in [failures : Nat, drops : Nat, renewals : Nat]
  <2>1. spent' = [spent EXCEPT !.failures = spent.failures + 1]
    BY DEF AttemptFails
  <2>2. spent.failures + 1 \in Nat
    BY DEF TypeOK
  <2> QED
    BY <2>1, <2>2 DEF TypeOK
<1>4. socket' \in [Connections -> Sockets]
  BY <1>2 DEF AttemptFails, TypeOK
<1>5. /\ state' \in ConnectionState /\ by' \in {"class", "probe", "supervisor"}
      /\ stopping' \in BOOLEAN /\ lost' \in BOOLEAN
      /\ run' \in {"dial", "backoff", "over"}
      /\ opening' \in Connections \cup {None}
      /\ opening' # None <=> run' \in {"dial", "shake"}
  BY <1>2, NoneAssumption DEF AttemptFails, TypeOK
<1>6. UNCHANGED <<previous, serving, old, wire, server, heard, abandoned>>
  BY DEF AttemptFails, Network, History
<1> QED
  BY <1>1, <1>3, <1>4, <1>5, <1>6 DEF TypeOK

\* So does what the supervisor does
LEMMA SuperviseType ==
  ASSUME TypeOK, Supervise
  PROVE  TypeOK'
<1>1. CASE Reconnect
  BY <1>1, OpenType, TurnToldType, NoneAssumption
  DEF Reconnect, TypeOK, Network, History
<1>2. CASE PutOff
  BY <1>2 DEF PutOff, TypeOK, Network, History
<1> QED
  BY <1>1, <1>2 DEF Supervise, ReplaceLost, Renew

\* So does stop()
LEMMA StopType ==
  ASSUME TypeOK, Stop \/ Stopped
  PROVE  TypeOK'
<1>1. CASE Stop
  <2>1. turn' \in Turns
    BY <1>1, ReleasedType DEF Stop, TypeOK
  <2>2. socket' \in [Connections -> Sockets]
    BY <1>1 DEF Stop, TypeOK
  <2> QED
    BY <1>1, <2>1, <2>2 DEF Stop, TypeOK, Network
<1>2. CASE Stopped
  <2>1. serving \in Connections
    BY <1>2 DEF Stopped, TypeOK
  <2>2. socket' \in [Connections -> Sockets]
    BY <1>2, <2>1 DEF Stopped, TypeOK
  <2>3. wire' \in [Connections -> Seq(ServerEvents)]
    BY <1>2, <2>1 DEF Stopped, TypeOK
  <2> QED
    BY <1>2, <2>2, <2>3 DEF Stopped, TypeOK, History
<1> QED
  BY <1>1, <1>2

\* So do the readers
LEMMA ReadType ==
  ASSUME TypeOK, Read
  PROVE  TypeOK'
<1>1. CASE ReadEvent
  <2>1. PICK c \in Connections :
          /\ wire[c] # <<>>
          /\ inTurn' = (Head(wire[c]).type = "started"
                          \/ (inTurn /\ Head(wire[c]).type # "done"))
          /\ TurnHears(Head(wire[c]))
          /\ wire' = [wire EXCEPT ![c] = Tail(@)]
          /\ heard' = c
          /\ UNCHANGED <<state, Coroutine, lost, socket, server, abandoned, crossed, spent>>
    BY <1>1 DEF ReadEvent
  <2>2. /\ Head(wire[c]) \in ServerEvents
        /\ wire' \in [Connections -> Seq(ServerEvents)]
    BY <2>1, HeadTailType DEF TypeOK
  <2>3. turn' \in Turns
    BY <2>1, <2>2, TurnHearsType DEF TypeOK
  <2>4. inTurn' \in BOOLEAN
    BY <2>1
  <2> QED
    BY <2>1, <2>2, <2>3, <2>4 DEF TypeOK, Coroutine
<1>2. CASE ReadEnd
  BY <1>2 DEF ReadEnd, TypeOK, Coroutine, Network, History
<1> QED
  BY <1>1, <1>2 DEF Read

\* So does the turn
LEMMA TurnType ==
  ASSUME TypeOK,
         Ask \/ Frame \/ NoQuestion \/ QuestionTooLong \/ Cut \/ Played
  PROVE  TypeOK'
<1> USE DEF Session, Coroutine, Network, History
<1>1. CASE Ask
  <2>1. turn' \in Turns
    BY <1>1 DEF Ask, TypeOK, Turns
  <2> QED
    BY <1>1, <2>1 DEF Ask, TypeOK
<1>2. CASE Frame
  BY <1>2 DEF Frame, TypeOK
<1>3. CASE NoQuestion
  BY <1>3, ReleasedType DEF NoQuestion, TypeOK
<1>4. CASE QuestionTooLong
  <2>1. turn' \in Turns
    BY <1>4 DEF QuestionTooLong, TypeOK, Turns
  <2>2. server' \in [Connections -> Server]
    <3>1. CASE UNCHANGED server
      BY <3>1 DEF TypeOK
    <3>2. CASE /\ serving # None
               /\ server' = [server EXCEPT ![serving].answers = turn.n]
      <4>1. serving \in Connections /\ turn.n \in Nat
        BY <3>2 DEF TypeOK, Turns
      <4> QED
        BY <3>2, <4>1 DEF TypeOK, Server
    <3> QED
      BY <1>4, <3>1, <3>2 DEF QuestionTooLong, Ready
  <2> QED
    BY <1>4, <2>1, <2>2 DEF QuestionTooLong, TypeOK
<1>5. CASE Cut
  <2>1. turn' \in Turns
    BY <1>5, ReleasedType DEF Cut, TypeOK
  <2>2. inTurn' \in BOOLEAN
    BY <1>5 DEF Cut, Streams, Ready, TypeOK, Turns
  <2>3. server' \in [Connections -> Server] /\ wire' \in [Connections -> Seq(ServerEvents)]
    <3>1. CASE Ready /\ socket[serving] = "open" /\ server[serving].answers # 0
      <4>1. serving \in Connections
        BY <3>1, NoneAssumption DEF Ready, TypeOK
      <4>2. server[serving].answers \in Nat
        BY <4>1 DEF TypeOK, Server
      <4>3. Sent("done", server[serving].answers) \in ServerEvents
        BY <4>2, SentType
      <4>4. wire' \in [Connections -> Seq(ServerEvents)]
        <5>1. wire' = [wire EXCEPT ![serving] =
                         Append(@, Sent("done", server[serving].answers))]
          BY <1>5, <3>1 DEF Cut
        <5>2. wire \in [Connections -> Seq(ServerEvents)]
          BY DEF TypeOK
        <5> QED
          BY <4>1, <4>3, <5>1, <5>2, AppendType
      <4>5. server' = [server EXCEPT ![serving].answers = 0]
        BY <1>5, <3>1 DEF Cut
      <4>6. server' \in [Connections -> Server]
        BY <4>1, <4>5 DEF TypeOK, Server
      <4> QED
        BY <4>4, <4>6
    <3>2. CASE ~(Ready /\ socket[serving] = "open" /\ server[serving].answers # 0)
      BY <1>5, <3>2 DEF Cut, TypeOK
    <3> QED
      BY <3>1, <3>2
  <2> QED
    BY <1>5, <2>1, <2>2, <2>3 DEF Cut, TypeOK
<1>6. CASE Played
  BY <1>6, ReleasedType DEF Played, TypeOK
<1> QED
  BY <1>1, <1>2, <1>3, <1>4, <1>5, <1>6

\* So does a server that says something of a turn it knows
LEMMA SaysType ==
  ASSUME TypeOK, NEW c \in Connections,
         NEW type \in {"started", "stopped", "audio", "done"}, NEW n \in Nat,
         Says(c, type, n), server' \in [Connections -> Server]
  PROVE  TypeOK'
<1>1. wire' \in [Connections -> Seq(ServerEvents)]
  BY AppendType, SentType DEF Says, TypeOK
<1> QED
  BY <1>1 DEF Says, TypeOK, Client, Coroutine, History

\* So do the network and the servers
LEMMA WorldType ==
  ASSUME TypeOK,
         \/ Drop \/ GrowOld
         \/ \E c \in Connections : \/ ServerHears(c) \/ ServerAnswers(c)
                                   \/ ServerSpeaks(c) \/ ServerFinishes(c)
  PROVE  TypeOK'
<1>1. CASE Drop
  <2>1. socket' \in [Connections -> Sockets]
    BY <1>1 DEF Drop, TypeOK
  <2>2. PICK k \in Nat : spent' = [spent EXCEPT !.drops = k]
    <3>1. spent.drops + 1 \in Nat
      BY DEF TypeOK
    <3> QED
      BY <1>1, <3>1 DEF Drop
  <2>3. spent' \in [failures : Nat, drops : Nat, renewals : Nat]
    BY <2>2 DEF TypeOK
  <2> QED
    BY <1>1, <2>1, <2>3 DEF Drop, TypeOK, Client, Coroutine, Network, History
<1>2. CASE GrowOld
  BY <1>2 DEF GrowOld, TypeOK, Network, History
<1>3. ASSUME NEW c \in Connections,
             \/ ServerHears(c) \/ ServerAnswers(c)
             \/ ServerSpeaks(c) \/ ServerFinishes(c)
      PROVE  TypeOK'
  <2>1. turn.n \in Nat /\ server[c].answers \in Nat /\ server[c] \in Server
    BY DEF TypeOK, Turns, Server
  <2>2. CASE ServerHears(c)
    <3>1. server' \in [Connections -> Server]
      BY <2>1, <2>2 DEF ServerHears, TypeOK, Server
    <3> QED
      BY <2>1, <2>2, <3>1, SaysType DEF ServerHears
  <2>3. CASE ServerAnswers(c)
    <3>1. server' \in [Connections -> Server]
      BY <2>1, <2>3 DEF ServerAnswers, TypeOK, Server
    <3> QED
      BY <2>1, <2>3, <3>1, SaysType DEF ServerAnswers
  <2>4. CASE ServerSpeaks(c)
    BY <2>1, <2>4, SaysType DEF ServerSpeaks, TypeOK
  <2>5. CASE ServerFinishes(c)
    <3>1. server' \in [Connections -> Server]
      BY <2>1, <2>5 DEF ServerFinishes, TypeOK, Server
    <3> QED
      BY <2>1, <2>5, <3>1, SaysType DEF ServerFinishes
  <2> QED
    BY <1>3, <2>2, <2>3, <2>4, <2>5
<1> QED
  BY <1>1, <1>2, <1>3

\* Every step keeps the types
LEMMA TypeStep == TypeOK /\ [Next]_vars => TypeOK'
<1> SUFFICES ASSUME TypeOK, [Next]_vars PROVE TypeOK'
  OBVIOUS
<1>1. CASE UNCHANGED vars
  BY <1>1 DEF vars, TypeOK
<1>2. CASE Start \/ Attempt
  BY <1>2, AttemptType, SwappedType, AttemptFailsType DEF Attempt
<1>3. CASE Supervise \/ Stop \/ Stopped \/ Read
  BY <1>3, SuperviseType, StopType, ReadType
<1>4. CASE Ask \/ Frame \/ NoQuestion \/ QuestionTooLong \/ Cut \/ Played
  BY <1>4, TurnType
<1>5. CASE \/ Drop \/ GrowOld \/ Answer
           \/ \E c \in Connections : ServerHears(c) \/ ServerAnswers(c)
  BY <1>5, WorldType DEF Answer
<1> QED
  BY <1>1, <1>2, <1>3, <1>4, <1>5 DEF Next

-----------------------------------------------------------------------------
(***************************************************************************)
(* The inductive invariant                                                 *)
(***************************************************************************)

\* What the parts of the invariant that follow the coroutine read
Supervision ==
  <<state, run, by, opening, previous, serving, stopping, lost, abandoned>>

Fits == RunFitsState /\ RunFitsOwner /\ SocketsFit /\ LossKnownEarlier

\* A step that leaves the coroutine and the sockets alone keeps them
LEMMA QuietFits ==
  ASSUME Fits, UNCHANGED <<Supervision, socket>>
  PROVE  Fits'
  BY DEF Fits, Supervision, RunFitsState, RunFitsOwner, SocketsFit,
         LossKnownEarlier, Opening, Watching

\* Opening a connection while another may serve
LEMMA OpenFits ==
  ASSUME TypeOK, Fits, Open, previous = None,
         state' \in {"connecting", "reconnecting"},
         by' = "class" => state' = "connecting" \/ abandoned',
         ~stopping,
         UNCHANGED <<previous, serving, stopping, abandoned>>
  PROVE  Fits'
<1>1. /\ run' = "dial"
      /\ opening' \in Connections /\ opening' \notin {serving, previous}
      /\ socket' = [socket EXCEPT ![opening'] = "dialing"]
  BY OpenType
<1>2. RunFitsState' /\ RunFitsOwner' /\ LossKnownEarlier'
  BY <1>1 DEF Fits, RunFitsState, RunFitsOwner, LossKnownEarlier, Opening, Watching
<1>3. SocketsFit'
  BY <1>1, NoneAssumption DEF Fits, SocketsFit, TypeOK
<1> QED
  BY <1>2, <1>3 DEF Fits

\* The attempt, up to the handshake, keeps the invariant
LEMMA AttemptFits ==
  ASSUME TypeOK, Fits, Start \/ DialSucceeds \/ ShakeSucceeds \/ Retry
  PROVE  Fits'
<1> USE DEF Opening, Watching
<1>1. CASE Start
  BY <1>1, OpenFits DEF Start, Fits, RunFitsState, RunFitsOwner, SocketsFit, History
<1>2. CASE DialSucceeds
  <2>1. opening \in Connections
    BY <1>2 DEF DialSucceeds, TypeOK
  <2>2. RunFitsState' /\ RunFitsOwner' /\ LossKnownEarlier'
    BY <1>2 DEF DialSucceeds, History, Fits, RunFitsState, RunFitsOwner,
                LossKnownEarlier
  <2>3. SocketsFit'
    BY <1>2, <2>1 DEF DialSucceeds, History, Fits, SocketsFit, TypeOK
  <2> QED
    BY <2>2, <2>3 DEF Fits
<1>3. CASE ShakeSucceeds
  <2>1. opening \in Connections /\ previous = None /\ opening # serving
    BY <1>3, NoneAssumption DEF ShakeSucceeds, TypeOK, Fits, SocketsFit
  <2>2. RunFitsState' /\ RunFitsOwner'
    BY <1>3 DEF ShakeSucceeds, History, Fits, RunFitsState, RunFitsOwner
  <2>3. LossKnownEarlier'
    BY <1>3, <2>1 DEF ShakeSucceeds, TypeOK, LossKnownEarlier
  <2>4. SocketsFit'
    BY <1>3, <2>1, NoneAssumption
    DEF ShakeSucceeds, History, Fits, SocketsFit, RunFitsState, TypeOK
  <2> QED
    BY <2>2, <2>3, <2>4 DEF Fits
<1>4. CASE Retry
  BY <1>4, OpenFits DEF Retry, Fits, RunFitsState, RunFitsOwner, SocketsFit, History
<1> QED
  BY <1>1, <1>2, <1>3, <1>4

\* A replacement that ends leaves one connection open
LEMMA SwappedFits ==
  ASSUME TypeOK, Fits, Swapped \/ SwappedLost
  PROVE  Fits'
<1> USE DEF Opening, Watching
<1>1. CASE Swapped
  <2>1. opening = None /\ serving \in Connections /\ serving # previous
    BY <1>1 DEF Swapped, TypeOK, Fits, SocketsFit
  <2>2. RunFitsState' /\ RunFitsOwner'
    BY <1>1 DEF Swapped, Closing, History, Fits, RunFitsState, RunFitsOwner
  <2>3. LossKnownEarlier'
    BY <1>1, <2>1 DEF Swapped, Closing, Fits, LossKnownEarlier
  <2>4. SocketsFit'
    BY <1>1, <2>1, NoneAssumption DEF Swapped, Closing, Fits, SocketsFit, TypeOK
  <2> QED
    BY <2>2, <2>3, <2>4 DEF Fits
<1>2. CASE SwappedLost
  <2>1. serving \in Connections /\ serving # previous
    BY <1>2 DEF SwappedLost, TypeOK, Fits, SocketsFit
  <2>2. RunFitsState' /\ RunFitsOwner' /\ LossKnownEarlier'
    BY <1>2 DEF SwappedLost, History, Fits, RunFitsState, RunFitsOwner, LossKnownEarlier
  <2>3. opening' \in Connections /\ opening' # serving
    BY <1>2 DEF SwappedLost
  <2>4. \A c \in Connections : socket'[c] \in {"open", "cut"} =>
          socket[c] \in {"open", "cut"} /\ c # previous
    BY <1>2 DEF SwappedLost, TypeOK
  <2>5. SocketsFit'
    BY <1>2, <2>1, <2>3, <2>4, NoneAssumption DEF SwappedLost, Fits, SocketsFit
  <2> QED
    BY <2>2, <2>5 DEF Fits
<1> QED
  BY <1>1, <1>2

\* An attempt that fails leaves the connection that serves as it was
LEMMA AttemptFailsFits ==
  ASSUME TypeOK, Fits, AttemptFails
  PROVE  Fits'
<1> USE DEF Opening, Watching
<1>1. PICK fatal \in BOOLEAN :
        LET retries == by # "probe" /\ ~fatal IN
        /\ state' = IF retries THEN "reconnecting"
                    ELSE IF fatal THEN "failed" ELSE "disconnected"
        /\ stopping' = (stopping \/ (fatal /\ by = "supervisor"))
        /\ IF retries /\ by = "class" /\ ~stopping
           THEN /\ run' = "dial"
                /\ socket' = [socket EXCEPT ![opening] = "dialing"]
                /\ UNCHANGED opening
           ELSE /\ run' = IF retries /\ ~stopping THEN "backoff" ELSE "over"
                /\ socket' = [socket EXCEPT ![opening] = "closed"]
                /\ opening' = None
        /\ by' = IF retries THEN "supervisor" ELSE by
  BY DEF AttemptFails
<1>2. /\ run \in {"dial", "shake"}
      /\ UNCHANGED <<previous, serving, abandoned>>
  BY DEF AttemptFails, History
<1>3. opening \in Connections /\ previous = None /\ opening # serving
  BY <1>2, NoneAssumption DEF TypeOK, Fits, SocketsFit
<1>4. RunFitsState'
  BY <1>1, <1>2 DEF Fits, RunFitsState, RunFitsOwner
<1>5. RunFitsOwner'
  BY <1>1, <1>2 DEF Fits, RunFitsState, RunFitsOwner, TypeOK
<1>6. LossKnownEarlier'
  BY <1>1 DEF LossKnownEarlier
<1>7. opening' \in {opening, None}
  BY <1>1
<1>8. \A c \in Connections : socket'[c] \in {"open", "cut"} => socket[c] \in {"open", "cut"}
  BY <1>1, <1>3 DEF TypeOK
<1>9. SocketsFit'
  BY <1>2, <1>3, <1>7, <1>8 DEF Fits, SocketsFit
<1> QED
  BY <1>4, <1>5, <1>6, <1>9 DEF Fits

\* What the supervisor does keeps the invariant
LEMMA SuperviseFits ==
  ASSUME TypeOK, Fits, Supervise
  PROVE  Fits'
<1> USE DEF Opening, Watching
<1>1. CASE ReplaceLost \/ Renew
  <2>1. run \in Watching /\ Reconnect
    BY <1>1 DEF ReplaceLost, Renew
  <2>2. previous = None /\ ~stopping /\ by = "supervisor"
    BY <2>1 DEF Fits, SocketsFit, RunFitsOwner, TypeOK
  <2> QED
    BY <2>1, <2>2, OpenFits DEF Reconnect, History
<1>2. CASE PutOff
  BY <1>2 DEF PutOff, History, Fits, RunFitsState, RunFitsOwner, SocketsFit,
              LossKnownEarlier
<1> QED
  BY <1>1, <1>2 DEF Supervise

\* So does stop()
LEMMA StopFits ==
  ASSUME TypeOK, Fits, Stop \/ Stopped
  PROVE  Fits'
<1> USE DEF Opening, Watching
<1>1. CASE Stop /\ by = "class" /\ run # "over"
  BY <1>1 DEF Stop, Fits, RunFitsState, RunFitsOwner, SocketsFit, LossKnownEarlier,
              TypeOK
<1>2. CASE Stop /\ ~(by = "class" /\ run # "over")
  <2>1. /\ run \notin {"idle", "closing", "stopped"} /\ ~abandoned
        /\ stopping' = TRUE
        /\ run' = IF serving = None THEN "stopped" ELSE "closing"
        /\ state' = IF serving = None THEN "disconnected" ELSE state
        /\ socket' = [c \in Connections |->
             IF c = opening /\ run = "dial" THEN "closed" ELSE socket[c]]
        /\ opening' = None
        /\ UNCHANGED <<by, previous, serving, abandoned>>
    BY <1>2 DEF Stop
  <2>2. RunFitsState' /\ RunFitsOwner' /\ LossKnownEarlier'
    BY <2>1 DEF Fits, RunFitsState, RunFitsOwner, LossKnownEarlier
  <2>3. \A c \in Connections : socket'[c] \in {"open", "cut"} => socket[c] \in {"open", "cut"}
    BY <2>1
  <2>4. SocketsFit'
    BY <2>1, <2>3 DEF Fits, SocketsFit
  <2> QED
    BY <2>2, <2>4 DEF Fits
<1>3. CASE Stopped
  <2>1. RunFitsState' /\ RunFitsOwner' /\ LossKnownEarlier'
    BY <1>3 DEF Stopped, History, Fits, RunFitsState, RunFitsOwner, LossKnownEarlier
  <2>2. SocketsFit'
    BY <1>3 DEF Stopped, Fits, SocketsFit, TypeOK
  <2> QED
    BY <2>1, <2>2 DEF Fits
<1> QED
  BY <1>1, <1>2, <1>3

\* The end of a connection is either told, or nobody waits on it
LEMMA ReadFits ==
  ASSUME TypeOK, Fits, Read
  PROVE  Fits'
<1> USE DEF Opening, Watching
<1>1. CASE ReadEvent
  BY <1>1, QuietFits DEF ReadEvent, Coroutine, Supervision
<1>2. CASE ReadEnd
  <2>1. PICK c \in Connections :
          /\ socket[c] = "cut"
          /\ socket' = [socket EXCEPT ![c] = "closed"]
          /\ lost' = (lost \/ (c # previous /\ ~stopping))
    BY <1>2 DEF ReadEnd
  <2>2. UNCHANGED <<state, run, by, opening, previous, serving, stopping, abandoned>>
    BY <1>2 DEF ReadEnd, Coroutine, History
  <2>3. RunFitsState' /\ RunFitsOwner'
    BY <2>2 DEF Fits, RunFitsState, RunFitsOwner
  <2>4. LossKnownEarlier'
    <3> SUFFICES ASSUME run \in Watching \cup {"swap"}, ~stopping
                 PROVE  socket'[serving] \in {"open", "cut"} \/ lost'
      BY <2>2 DEF LossKnownEarlier
    <3>1. serving \in Connections /\ serving # previous
      BY DEF TypeOK, Fits, SocketsFit
    <3>2. CASE c = serving
      BY <2>1, <3>1, <3>2
    <3>3. CASE c # serving
      BY <2>1, <3>1, <3>3 DEF Fits, LossKnownEarlier, TypeOK
    <3> QED
      BY <3>2, <3>3
  <2>5. SocketsFit'
    BY <2>1, <2>2 DEF Fits, SocketsFit, TypeOK
  <2> QED
    BY <2>3, <2>4, <2>5 DEF Fits
<1> QED
  BY <1>1, <1>2 DEF Read

\* The turn, the network and the servers leave the coroutine alone
LEMMA RestFits ==
  ASSUME TypeOK, Fits,
         \/ Ask \/ Frame \/ NoQuestion \/ QuestionTooLong \/ Cut \/ Played
         \/ Drop \/ GrowOld \/ Answer
         \/ \E c \in Connections : ServerHears(c) \/ ServerAnswers(c)
  PROVE  Fits'
<1>1. CASE Ask \/ Frame \/ NoQuestion \/ QuestionTooLong \/ Cut \/ Played
  BY <1>1, QuietFits
  DEF Ask, Frame, NoQuestion, QuestionTooLong, Cut, Played, Session, Coroutine,
      History, Supervision
<1>2. CASE \/ Answer \/ GrowOld
           \/ \E c \in Connections : ServerHears(c) \/ ServerAnswers(c)
  BY <1>2, QuietFits
  DEF Answer, ServerHears, ServerAnswers, ServerSpeaks, ServerFinishes, Says,
      GrowOld, Client, Coroutine, History, Supervision
<1>3. CASE Drop
  <2>1. PICK c \in Connections :
          socket[c] = "open" /\ socket' = [socket EXCEPT ![c] = "cut"]
    BY <1>3 DEF Drop
  <2>2. UNCHANGED Supervision
    BY <1>3 DEF Drop, Client, Coroutine, History, Supervision
  <2>3. \A d \in Connections : socket'[d] \in {"open", "cut"} <=> socket[d] \in {"open", "cut"}
    BY <2>1 DEF TypeOK
  <2>4. RunFitsState' /\ RunFitsOwner'
    BY <2>2 DEF Supervision, Fits, RunFitsState, RunFitsOwner
  <2>5. SocketsFit'
    BY <2>2, <2>3 DEF Supervision, Fits, SocketsFit
  <2>6. LossKnownEarlier'
    BY <2>2, <2>3 DEF Supervision, Fits, LossKnownEarlier, TypeOK, Watching
  <2> QED
    BY <2>4, <2>5, <2>6 DEF Fits
<1> QED
  BY <1>1, <1>2, <1>3

\* The invariant holds at the start
LEMMA LinkInvInit == Init => LinkInv
<1> SUFFICES ASSUME Init PROVE LinkInv
  OBVIOUS
<1>1. wire \in [Connections -> Seq(ServerEvents)]
  BY DEF Init
<1>2. server \in [Connections -> Server]
  BY FreshServerType DEF Init
<1>3. turn \in Turns
  BY DEF Init, Turns
<1>4. TypeOK
  BY <1>1, <1>2, <1>3 DEF Init, TypeOK
<1>5. Fits
  BY DEF Init, Fits, RunFitsState, RunFitsOwner, SocketsFit, LossKnownEarlier,
         Opening, Watching
<1> QED
  BY <1>4, <1>5 DEF LinkInv, Fits

\* Every step keeps it
LEMMA LinkInvStep == LinkInv /\ [Next]_vars => LinkInv'
<1> SUFFICES ASSUME LinkInv, [Next]_vars PROVE LinkInv'
  OBVIOUS
<1>1. TypeOK /\ Fits
  BY DEF LinkInv, Fits
<1>2. TypeOK'
  BY <1>1, TypeStep
<1>3. Fits'
  <2>1. CASE UNCHANGED vars
    BY <1>1, <2>1, QuietFits DEF vars, Supervision
  <2>2. CASE Start \/ Attempt
    BY <1>1, <2>2, AttemptFits, SwappedFits, AttemptFailsFits DEF Attempt
  <2>3. CASE Supervise \/ Stop \/ Stopped \/ Read
    BY <1>1, <2>3, SuperviseFits, StopFits, ReadFits
  <2>4. CASE \/ Ask \/ Frame \/ NoQuestion \/ QuestionTooLong \/ Cut \/ Played
             \/ Drop \/ GrowOld \/ Answer
             \/ \E c \in Connections : ServerHears(c) \/ ServerAnswers(c)
    BY <1>1, <2>4, RestFits
  <2> QED
    BY <2>1, <2>2, <2>3, <2>4 DEF Next
<1> QED
  BY <1>2, <1>3 DEF LinkInv, Fits

\* So it always holds
LEMMA LinkInvHolds == Spec => []LinkInv
  BY LinkInvInit, LinkInvStep, PTL DEF Spec

\* Every variable of the session has its type, and who waits on a connection
\* has it.
THEOREM SessionTypeCorrect == Spec => []TypeOK
<1>1. LinkInv => TypeOK
  BY DEF LinkInv
<1> QED
  BY <1>1, LinkInvHolds, PTL

\* However the losses of the old and the new connection fall around _open,
\* the supervisor never sleeps on a connection that is gone.
THEOREM NoLossForgotten == Spec => []LossIsKnown
<1>1. LinkInv => LossIsKnown
  BY DEF LinkInv, RunFitsOwner, LossKnownEarlier, LossIsKnown, Watching
<1> QED
  BY <1>1, LinkInvHolds, PTL

-----------------------------------------------------------------------------
(***************************************************************************)
(* The session implements SessionLink                                      *)
(***************************************************************************)

\* What SessionLink sees of the session
LinkVars == <<IF abandoned THEN "abandoned" ELSE state, serving, heard>>

USE DEF Opening, Watching

\* The attempt takes over, becomes ready, or fails
LEMMA AttemptImplements ==
  ASSUME LinkInv, Start \/ Attempt
  PROVE  Link!Next \/ UNCHANGED LinkVars
<1> USE DEF LinkVars, History
<1>1. CASE Start
  <2>1. Link!Begin
    BY <1>1 DEF Start, LinkInv, RunFitsState, RunFitsOwner, Link!Begin
  <2> QED
    BY <2>1 DEF Link!Next
<1>2. CASE DialSucceeds \/ Retry \/ SwappedLost
  BY <1>2 DEF DialSucceeds, Retry, SwappedLost
<1>3. CASE ShakeSucceeds
  <2>1. opening \in Connections \ {serving}
    BY <1>3, NoneAssumption DEF ShakeSucceeds, LinkInv, TypeOK, SocketsFit
  <2>2. Link!TakeOver
    BY <1>3, <2>1 DEF ShakeSucceeds, LinkInv, RunFitsState, Link!TakeOver
  <2> QED
    BY <2>2 DEF Link!Next
<1>4. CASE Swapped
  <2>1. CASE abandoned
    BY <1>4, <2>1 DEF Swapped
  <2>2. CASE ~abandoned
    <3>1. Link!Ready
      BY <1>4, <2>2 DEF Swapped, LinkInv, TypeOK, RunFitsState, Link!Ready
    <3> QED
      BY <3>1 DEF Link!Next
  <2> QED
    BY <2>1, <2>2
<1>5. CASE AttemptFails
  <2>1. /\ run \in {"dial", "shake"}
        /\ state' \in {"reconnecting", "failed", "disconnected"}
        /\ UNCHANGED <<serving, heard, abandoned>>
    BY <1>5 DEF AttemptFails
  <2>2. CASE abandoned
    BY <2>1, <2>2
  <2>3. CASE ~abandoned
    <3>1. state \in {"connecting", "reconnecting"}
      BY <2>1, <2>3 DEF LinkInv, RunFitsState
    <3>2. CASE state' = "reconnecting"
      BY <2>1, <2>3, <3>1, <3>2 DEF Link!Next, Link!Lose
    <3>3. CASE state' # "reconnecting"
      BY <2>1, <2>3, <3>1, <3>3 DEF Link!Next, Link!Fail
    <3> QED
      BY <3>2, <3>3
  <2> QED
    BY <2>2, <2>3
<1> QED
  BY <1>1, <1>2, <1>3, <1>4, <1>5 DEF Attempt

\* The supervisor says that the connection is lost; stop() closes it
LEMMA EndImplements ==
  ASSUME LinkInv, Supervise \/ Stop \/ Stopped
  PROVE  Link!Next \/ UNCHANGED LinkVars
<1> USE DEF LinkVars, History
<1>1. CASE ReplaceLost \/ Renew
  <2>1. /\ state = "ready" /\ state' = "reconnecting" /\ ~abandoned
        /\ UNCHANGED <<serving, heard, abandoned>>
    BY <1>1 DEF ReplaceLost, Renew, Reconnect, LinkInv, RunFitsState, RunFitsOwner
  <2>2. Link!Lose
    BY <2>1 DEF Link!Lose
  <2> QED
    BY <2>2 DEF Link!Next
<1>2. CASE PutOff
  BY <1>2 DEF PutOff
<1>3. CASE Stop
  <2>1. CASE by = "class" /\ run # "over"
    <3>1. state = "connecting"
      BY <1>3, <2>1 DEF Stop, LinkInv, TypeOK, RunFitsOwner
    <3>2. Link!Abandon
      BY <1>3, <2>1, <3>1 DEF Stop, Link!Abandon
    <3> QED
      BY <3>2 DEF Link!Next
  <2>2. CASE ~(by = "class" /\ run # "over") /\ serving = None
    <3>1. Link!Close
      BY <1>3, <2>2 DEF Stop, LinkInv, TypeOK, Link!Close
    <3> QED
      BY <3>1 DEF Link!Next
  <2>3. CASE ~(by = "class" /\ run # "over") /\ serving # None
    BY <1>3, <2>3 DEF Stop
  <2> QED
    BY <2>1, <2>2, <2>3
<1>4. CASE Stopped
  <2>1. Link!Close
    BY <1>4 DEF Stopped, LinkInv, TypeOK, RunFitsOwner, Link!Close
  <2> QED
    BY <2>1 DEF Link!Next
<1> QED
  BY <1>1, <1>2, <1>3, <1>4 DEF Supervise

\* While the session is ready only the connection that serves is heard
LEMMA ReadImplements ==
  ASSUME LinkInv, Read
  PROVE  Link!Next \/ UNCHANGED LinkVars
<1>1. CASE ReadEvent
  <2>1. PICK c \in Connections : socket[c] \in {"open", "cut"} /\ heard' = c
    BY <1>1 DEF ReadEvent
  <2>2. UNCHANGED <<state, serving, abandoned>>
    BY <1>1 DEF ReadEvent, Coroutine
  <2>3. c \in {serving, previous}
    BY <2>1 DEF LinkInv, SocketsFit
  <2>4. state = "ready" => c = serving
    BY <2>3, NoneAssumption DEF LinkInv, SocketsFit
  <2>5. Link!Hear
    BY <2>1, <2>2, <2>4 DEF Link!Hear
  <2> QED
    BY <2>5 DEF Link!Next
<1>2. CASE ReadEnd
  BY <1>2 DEF ReadEnd, Coroutine, History, LinkVars
<1> QED
  BY <1>1, <1>2 DEF Read

\* Everyone else is invisible
LEMMA RestImplements ==
  ASSUME LinkInv,
         \/ UNCHANGED vars
         \/ Ask \/ Frame \/ NoQuestion \/ QuestionTooLong \/ Cut \/ Played
         \/ Drop \/ GrowOld \/ Answer
         \/ \E c \in Connections : ServerHears(c) \/ ServerAnswers(c)
  PROVE  UNCHANGED LinkVars
<1>1. CASE UNCHANGED vars
  BY <1>1 DEF vars, LinkVars
<1>2. CASE Ask \/ Frame \/ NoQuestion \/ QuestionTooLong \/ Cut \/ Played
  <2>1. CASE NoQuestion
    BY <2>1 DEF NoQuestion, Coroutine, LinkVars
  <2>2. CASE Ask \/ Frame \/ Played
    BY <2>2 DEF Ask, Frame, Played, Session, Coroutine, History, LinkVars
  <2>3. CASE QuestionTooLong \/ Cut
    <3>1. UNCHANGED Session
      BY <2>3 DEF QuestionTooLong, Cut
    <3> QED
      BY <3>1 DEF Session, Coroutine, History, LinkVars
  <2> QED
    BY <1>2, <2>1, <2>2, <2>3
<1>3. CASE \/ Drop \/ GrowOld \/ Answer
           \/ \E c \in Connections : ServerHears(c) \/ ServerAnswers(c)
  BY <1>3 DEF Drop, GrowOld, Answer, ServerHears, ServerAnswers, ServerSpeaks,
              ServerFinishes, Says, Client, Coroutine, History, LinkVars
<1> QED
  BY <1>1, <1>2, <1>3

\* What the listeners see of the session, its supervisor and its sockets is
\* what SessionLink allows: ready on one connection at a time, told of every
\* loss, and never an event of another connection while it is ready.
THEOREM SessionImplementsLink == Spec => LinkSpec
<1>1. Init => Link!Init
  BY DEF Init, Link!Init
<1>2. LinkInv /\ [Next]_vars => [Link!Next]_(Link!vars)
  <2> SUFFICES ASSUME LinkInv, [Next]_vars
               PROVE  Link!Next \/ UNCHANGED Link!vars
    OBVIOUS
  <2>1. UNCHANGED LinkVars => UNCHANGED Link!vars
    BY DEF LinkVars, Link!vars
  <2> QED
    BY <2>1, AttemptImplements, EndImplements, ReadImplements, RestImplements DEF Next
<1> QED
  BY <1>1, <1>2, LinkInvHolds, PTL DEF Spec, LinkSpec, Link!Spec

-----------------------------------------------------------------------------
(***************************************************************************)
(* An answer that arrives is marked                                        *)
(***************************************************************************)

Asks(t) == t.phase \in {"asking", "asked"}
Has(w, e) == \E i \in DOMAIN w : w[i] = e
Of(w, n) == \E i \in DOMAIN w : w[i].turn = n

\* A connection carries the turns one after the other, the start of a turn's
\* question before the rest of it, and nothing of a turn to come
TurnByTurn(w, s, t) ==
  /\ \A i, j \in DOMAIN w : i < j =>
       w[i].turn <= w[j].turn /\ (w[j].type = "started" => w[i].turn < w[j].turn)
  /\ \A i \in DOMAIN w : w[i].turn <= t.n
  /\ s.hears <= t.n /\ s.answers <= t.n

\* A question that started stops before an answer is done
StopsBetween(w) ==
  \A i, j \in DOMAIN w :
    i < j /\ w[i].type = "started" /\ w[j].type = "done"
      => \E k \in DOMAIN w : i < k /\ k < j /\ w[k].type = "stopped"

\* A server that is connected answers the turn under way, after its question
AnswersTheTurn(w, s, t, link) ==
  link = "open" /\ s.answers # 0 =>
    /\ s.answers = t.n
    /\ t.phase \in {"asking", "asked", "waiting", "sounding"}
    /\ \A i \in DOMAIN w : w[i].type = "started" =>
         \E k \in DOMAIN w : i < k /\ w[k].type = "stopped"

\* An answer is done once
AnswersOnce(w, s) == s.answers # 0 => ~Has(w, Sent("done", s.answers))

\* What is sent for a turn whose question was heard comes after its start, and
\* what is sent for one that was not comes alone
StartIsSent(w, s, t) ==
  /\ s.hears = t.n /\ (\E i \in DOMAIN w : w[i].turn < t.n)
       => Has(w, Sent("started", t.n))
  /\ s.hears # t.n /\ (s.answers = t.n \/ Of(w, t.n))
       => \A i \in DOMAIN w : w[i].turn = t.n

\* While the question is asked, what the server sent for it is on its way
QuestionIsSent(w, s, t) ==
  /\ Asks(t) /\ (s.answers = t.n \/ Of(w, t.n)) => s.hears = t.n
  /\ t.phase = "asking" /\ s.hears = t.n => Has(w, Sent("started", t.n))
  /\ Asks(t) /\ (s.answers = t.n \/ Has(w, Sent("done", t.n)))
       => Has(w, Sent("stopped", t.n))

\* A question whose start was read is marked, and stops before an answer ends
StartedIsMarked(w, t, b) ==
  t.phase = "asked" =>
    /\ b
    /\ \A j \in DOMAIN w : w[j].type = "done" =>
         \E k \in DOMAIN w : k < j /\ w[k].type = "stopped"

\* An answer that comes or sounds is marked, or will be by the start of its
\* question
AnswerIsMarked(w, s, t, b) ==
  /\ t.phase \in {"asking", "asked", "waiting", "sounding"}
       /\ (s.answers = t.n \/ Has(w, Sent("audio", t.n)) \/ t.phase = "sounding")
       => b \/ Has(w, Sent("started", t.n))
  /\ t.phase = "sounding" =>
       \A i \in DOMAIN w : w[i].turn = t.n /\ w[i].type # "started"

\* The turn and its connection, while it serves
Fit(w, s, t, b, link) ==
  /\ TurnByTurn(w, s, t) /\ StopsBetween(w)
  /\ AnswersTheTurn(w, s, t, link) /\ AnswersOnce(w, s)
  /\ StartIsSent(w, s, t) /\ QuestionIsSent(w, s, t)
  /\ StartedIsMarked(w, t, b) /\ AnswerIsMarked(w, s, t, b)

TurnFits(t) ==
  /\ t.streaming <=> Asks(t)
  /\ t.phase # "none" => t.n # 0

\* The turn rests while the session is not ready, and streams its question
TurnRests ==
  /\ state # "ready" \/ stopping => turn.phase = "none"
  /\ run = "closing" => stopping
  /\ TurnFits(turn)

\* A socket that is not connected carries nothing, and neither does one that
\* has just taken over
WiresRest ==
  /\ \A c \in Connections :
       socket[c] \in {"closed", "dialing", "shaking"} => wire[c] = <<>>
  /\ run = "swap" => wire[serving] = <<>> /\ server[serving] = FreshServer

\* What the supervisor finds lost is lost
LossIsReal == run \in Watching /\ lost => socket[serving] # "open"

Serves == run \in Watching /\ ~lost /\ ~crossed

AnswerFits ==
  Serves => Fit(wire[serving], server[serving], turn, inTurn, socket[serving])

AnswerInv == LinkInv /\ TurnRests /\ WiresRest /\ LossIsReal /\ AnswerFits

\* A wire on which something was sent, place by place
LEMMA AppendAt ==
  ASSUME NEW w \in Seq(ServerEvents), NEW e \in ServerEvents
  PROVE  /\ Append(w, e) \in Seq(ServerEvents)
         /\ Len(w) \in Nat
         /\ DOMAIN w = 1..Len(w)
         /\ DOMAIN Append(w, e) = 1..(Len(w) + 1)
         /\ \A i \in DOMAIN w : Append(w, e)[i] = w[i] /\ w[i] \in ServerEvents
         /\ Append(w, e)[Len(w) + 1] = e
  OBVIOUS

\* A wire of which the first event was read, place by place
LEMMA TailAt ==
  ASSUME NEW w \in Seq(ServerEvents), w # <<>>
  PROVE  /\ Tail(w) \in Seq(ServerEvents)
         /\ Len(w) \in Nat \ {0}
         /\ DOMAIN w = 1..Len(w)
         /\ DOMAIN Tail(w) = 1..(Len(w) - 1)
         /\ \A i \in DOMAIN Tail(w) : Tail(w)[i] = w[i + 1]
         /\ \A i \in DOMAIN w : w[i] \in ServerEvents
         /\ Head(w) = w[1]
  OBVIOUS

\* What an event tells
LEMMA SentAs ==
  ASSUME NEW type \in {"started", "stopped", "audio", "done"}, NEW n \in Nat
  PROVE  /\ Sent(type, n) \in ServerEvents
         /\ Sent(type, n).type = type /\ Sent(type, n).turn = n
         /\ \A e \in ServerEvents : e = Sent(type, n) <=> e.type = type /\ e.turn = n
  BY DEF Sent, ServerEvents

USE DEF TurnByTurn, StopsBetween, AnswersTheTurn, AnswersOnce, StartIsSent,
        QuestionIsSent, StartedIsMarked, AnswerIsMarked, Asks, Has, Of

\* A new connection fits
LEMMA FreshFits ==
  ASSUME NEW t \in Turns, t.phase = "none", NEW b \in BOOLEAN, NEW link
  PROVE  Fit(<<>>, FreshServer, t, b, link)
  BY DEF Fit, FreshServer, Turns

\* Marking the session, and losing the connection, disturb nothing
LEMMA WeakerFits ==
  ASSUME NEW w, NEW s, NEW t, NEW b \in BOOLEAN, NEW link,
         NEW b2 \in BOOLEAN, NEW link2,
         Fit(w, s, t, b, link), b => b2, link2 = "open" => link = "open"
  PROVE  Fit(w, s, t, b2, link2)
  BY DEF Fit

\* A new turn: nothing on the wire is of it
LEMMA AskFits ==
  ASSUME NEW w \in Seq(ServerEvents), NEW s \in Server, NEW t \in Turns,
         NEW b \in BOOLEAN, NEW link,
         Fit(w, s, t, b, link), t.phase = "none",
         NEW u, u = [n |-> t.n + 1, phase |-> "asking", streaming |-> TRUE]
  PROVE  Fit(w, s, u, TRUE, link)
<1>1. /\ t.n \in Nat /\ s.hears \in Nat /\ s.answers \in Nat
      /\ \A i \in DOMAIN w : w[i].turn \in Nat
  <2>1. \A i \in DOMAIN w : w[i] \in ServerEvents
    OBVIOUS
  <2> QED
    BY <2>1 DEF Turns, Server, ServerEvents
<1>2. u.n = t.n + 1 /\ u.phase = "asking"
  OBVIOUS
<1>3. \A i \in DOMAIN w : w[i].turn <= u.n /\ w[i].turn # u.n
  BY <1>1, <1>2 DEF Fit
<1>4. ~Of(w, u.n) /\ ~Has(w, Sent("done", u.n))
  BY <1>3 DEF Sent
<1>5. s.hears <= u.n /\ s.hears # u.n /\ s.answers <= u.n /\ s.answers # u.n
  BY <1>1, <1>2 DEF Fit
<1>6. TurnByTurn(w, s, u)
  BY <1>3, <1>5 DEF Fit
<1>7. AnswersTheTurn(w, s, u, link)
  BY DEF Fit
<1>8. StartIsSent(w, s, u)
  BY <1>4, <1>5
<1>9. QuestionIsSent(w, s, u)
  BY <1>4, <1>5
<1>10. StartedIsMarked(w, u, TRUE) /\ AnswerIsMarked(w, s, u, TRUE)
  BY <1>2
<1> QED
  BY <1>6, <1>7, <1>8, <1>9, <1>10 DEF Fit

\* A turn that is let go of when nothing answers it
LEMMA ReleaseFits ==
  ASSUME NEW w \in Seq(ServerEvents), NEW s \in Server, NEW t \in Turns,
         NEW b \in BOOLEAN, NEW link, NEW b2 \in BOOLEAN,
         Fit(w, s, t, b, link), link = "open" => s.answers = 0
  PROVE  Fit(w, s, Released(t), b2, link)
  BY DEF Fit, Released, Turns

\* A question that is too long is committed on an empty wire
LEMMA TooLongFits ==
  ASSUME NEW s \in Server, NEW t \in Turns, NEW b \in BOOLEAN, NEW link,
         Fit(<<>>, s, t, b, link), t.phase = "asked",
         NEW r, r = [s EXCEPT !.answers = IF link = "open" THEN t.n ELSE @],
         NEW u, u = [t EXCEPT !.phase = "waiting", !.streaming = FALSE]
  PROVE  Fit(<<>>, r, u, b, link)
  BY DEF Fit, Turns, Server

\* The server hears the start of the question
LEMMA HearsFits ==
  ASSUME NEW w \in Seq(ServerEvents), NEW s \in Server, NEW t \in Turns,
         NEW b \in BOOLEAN, NEW link,
         TurnFits(t), Fit(w, s, t, b, link), t.streaming, s.hears # t.n,
         NEW v, v = Append(w, Sent("started", t.n)),
         NEW r, r = [s EXCEPT !.hears = t.n]
  PROVE  Fit(v, r, t, b, link)
<1> DEFINE m == Len(w) + 1
<1>1. /\ m \in Nat /\ DOMAIN w = 1..(m - 1) /\ DOMAIN v = 1..m
      /\ \A i \in DOMAIN w : v[i] = w[i] /\ i < m /\ w[i].turn \in Nat
      /\ v[m].type = "started" /\ v[m].turn = t.n /\ t.n \in Nat
      /\ v[m] = Sent("started", t.n)
  BY AppendAt, SentAs DEF Turns, ServerEvents
<1>2. r.hears = t.n /\ r.answers = s.answers /\ s.answers \in Nat
  BY DEF Server
<1>3. Asks(t) /\ s.answers # t.n /\ ~Of(w, t.n)
  BY DEF TurnFits, Fit
<1> HIDE DEF m
<1>4. \A i \in DOMAIN v : i \in DOMAIN w \/ i = m
  BY <1>1
<1>5. \A i \in DOMAIN w : w[i].turn < t.n
  BY <1>1, <1>3 DEF Fit
<1>6. TurnByTurn(v, r, t)
  BY <1>1, <1>2, <1>4, <1>5 DEF Fit
<1>7. StopsBetween(v)
  BY <1>1, <1>4 DEF Fit
<1>8. ~(link = "open" /\ s.answers # 0)
  BY <1>3 DEF Fit
<1>9. AnswersTheTurn(v, r, t, link)
  BY <1>2, <1>8
<1>10. AnswersOnce(v, r)
  <2>1. \A k \in Nat : v[m] # Sent("done", k)
    BY <1>1 DEF Sent
  <2> QED
    BY <1>1, <1>2, <1>4, <2>1 DEF Fit
<1>11. Has(v, Sent("started", t.n))
  BY <1>1
<1>12. StartIsSent(v, r, t) /\ QuestionIsSent(v, r, t)
  <2>1. ~Has(v, Sent("done", t.n))
    BY <1>1, <1>3, <1>4 DEF Sent
  <2> QED
    BY <1>2, <1>3, <1>11, <2>1
<1>13. StartedIsMarked(v, t, b)
  BY <1>1, <1>4 DEF Fit
<1>14. AnswerIsMarked(v, r, t, b)
  BY <1>3, <1>11
<1> QED
  BY <1>6, <1>7, <1>9, <1>10, <1>12, <1>13, <1>14 DEF Fit

\* The server answers the question it heard
LEMMA AnswersFits ==
  ASSUME NEW w \in Seq(ServerEvents), NEW s \in Server, NEW t \in Turns,
         NEW b \in BOOLEAN, NEW link,
         TurnFits(t), Fit(w, s, t, b, link), t.streaming, s.hears = t.n,
         ~Has(w, Sent("stopped", t.n)),
         NEW v, v = Append(w, Sent("stopped", t.n)),
         NEW r, r = [s EXCEPT !.answers = t.n]
  PROVE  Fit(v, r, t, b, link)
<1> DEFINE m == Len(w) + 1
<1>1. /\ m \in Nat /\ DOMAIN w = 1..(m - 1) /\ DOMAIN v = 1..m
      /\ \A i \in DOMAIN w : v[i] = w[i] /\ i < m /\ w[i].turn \in Nat
      /\ v[m].type = "stopped" /\ v[m].turn = t.n /\ t.n \in Nat
      /\ v[m] = Sent("stopped", t.n)
  BY AppendAt, SentAs DEF Turns, ServerEvents
<1>2. r.answers = t.n /\ r.hears = t.n /\ s.answers \in Nat
  BY DEF Server
<1>3. Asks(t) /\ ~Has(w, Sent("done", t.n))
  BY DEF TurnFits, Fit
<1> HIDE DEF m
<1>4. \A i \in DOMAIN v : i \in DOMAIN w \/ i = m
  BY <1>1
<1>5. TurnByTurn(v, r, t)
  BY <1>1, <1>2, <1>4 DEF Fit
<1>6. StopsBetween(v)
  BY <1>1, <1>4 DEF Fit
<1>7. AnswersTheTurn(v, r, t, link)
  BY <1>1, <1>2, <1>3, <1>4
<1>8. ~Has(v, Sent("done", t.n)) /\ Has(v, Sent("stopped", t.n))
  BY <1>1, <1>3, <1>4 DEF Sent
<1>9. Has(w, Sent("started", t.n)) => Has(v, Sent("started", t.n))
  BY <1>1, <1>4
<1>10. StartIsSent(v, r, t)
  BY <1>1, <1>2, <1>4, <1>9 DEF Fit
<1>11. QuestionIsSent(v, r, t)
  BY <1>2, <1>8, <1>9 DEF Fit
<1>12. StartedIsMarked(v, t, b)
  BY <1>1, <1>4 DEF Fit
<1>13. AnswerIsMarked(v, r, t, b)
  BY <1>3, <1>9 DEF Fit
<1> QED
  BY <1>2, <1>5, <1>6, <1>7, <1>8, <1>10, <1>11, <1>12, <1>13 DEF Fit

\* The server says a piece of the answer, or that it is done
LEMMA SaysFits ==
  ASSUME NEW w \in Seq(ServerEvents), NEW s \in Server, NEW t \in Turns,
         NEW b \in BOOLEAN,
         Fit(w, s, t, b, "open"), s.answers # 0,
         NEW type \in {"audio", "done"},
         NEW v, v = Append(w, Sent(type, s.answers)),
         NEW r, r = IF type = "done" THEN [s EXCEPT !.answers = 0] ELSE s
  PROVE  Fit(v, r, t, b, "open")
<1> DEFINE m == Len(w) + 1
<1>1. s.answers = t.n /\ t.n # 0 /\ t.n \in Nat
  BY DEF Fit, Turns
<1>2. /\ m \in Nat /\ DOMAIN w = 1..(m - 1) /\ DOMAIN v = 1..m
      /\ \A i \in DOMAIN w : v[i] = w[i] /\ i < m /\ w[i].turn \in Nat
      /\ v[m].type = type /\ v[m].turn = t.n
  BY <1>1, AppendAt, SentAs DEF ServerEvents
<1>3. /\ r.hears = s.hears /\ r.answers \in {0, t.n}
      /\ type = "done" => r.answers = 0
  BY <1>1 DEF Server
<1> HIDE DEF m
<1>4. \A i \in DOMAIN v : i \in DOMAIN w \/ i = m
  BY <1>2
<1>5. \A e : Has(w, e) => Has(v, e)
  BY <1>2
<1>6. TurnByTurn(v, r, t)
  BY <1>1, <1>2, <1>3, <1>4 DEF Fit
<1>7. StopsBetween(v)
  BY <1>2, <1>4 DEF Fit
<1>8. AnswersTheTurn(v, r, t, "open")
  BY <1>2, <1>3, <1>4 DEF Fit
<1>9. AnswersOnce(v, r)
  <2> SUFFICES ASSUME r.answers # 0 PROVE ~Has(v, Sent("done", t.n))
    BY <1>3
  <2> QED
    BY <1>1, <1>2, <1>3, <1>4 DEF Fit, Sent
<1>10. StartIsSent(v, r, t)
  BY <1>1, <1>2, <1>3, <1>4, <1>5 DEF Fit
<1>11. QuestionIsSent(v, r, t)
  BY <1>1, <1>3, <1>5 DEF Fit
<1>12. StartedIsMarked(v, t, b)
  <2> SUFFICES ASSUME t.phase = "asked" PROVE StartedIsMarked(v, t, b)
    OBVIOUS
  <2>1. PICK k \in DOMAIN w : w[k] = Sent("stopped", t.n)
    BY <1>1 DEF Fit
  <2>2. w[k].type = "stopped"
    BY <2>1 DEF Sent
  <2> QED
    BY <1>2, <1>4, <2>2 DEF Fit
<1>13. AnswerIsMarked(v, r, t, b)
  BY <1>1, <1>2, <1>4, <1>5 DEF Fit
<1> QED
  BY <1>6, <1>7, <1>8, <1>9, <1>10, <1>11, <1>12, <1>13 DEF Fit

\* What is left on a connection after its first event
LEMMA TailFits ==
  ASSUME NEW w \in Seq(ServerEvents), w # <<>>, NEW s \in Server, NEW t \in Turns,
         TurnByTurn(w, s, t), StopsBetween(w), AnswersOnce(w, s), StartIsSent(w, s, t),
         NEW v, v = Tail(w)
  PROVE  /\ TurnByTurn(v, s, t) /\ StopsBetween(v) /\ AnswersOnce(v, s)
         /\ StartIsSent(v, s, t)
         /\ \A e : Has(v, e) => Has(w, e)
         /\ \A e : Has(w, e) => Has(v, e) \/ e = Head(w)
         /\ \A n : Of(v, n) => Of(w, n)
         /\ \A i \in DOMAIN v : Head(w).turn <= v[i].turn /\ v[i].turn <= t.n
         /\ \A i \in DOMAIN v : v[i].type = "started" => Head(w).turn < v[i].turn
         /\ Head(w).turn <= t.n
<1> DEFINE m == Len(w)
<1>1. /\ m \in Nat \ {0} /\ DOMAIN w = 1..m /\ DOMAIN v = 1..(m - 1)
      /\ \A i \in DOMAIN v : v[i] = w[i + 1] /\ i + 1 \in DOMAIN w
      /\ \A i \in DOMAIN w : i = 1 \/ (i - 1 \in DOMAIN v /\ w[i] = v[i - 1])
      /\ \A i \in DOMAIN w : w[i].turn \in Nat
      /\ 1 \in DOMAIN w /\ Head(w) = w[1]
  BY TailAt DEF ServerEvents
<1> HIDE DEF m
<1>2. TurnByTurn(v, s, t)
  BY <1>1
<1>3. StopsBetween(v)
  <2> SUFFICES ASSUME NEW i \in DOMAIN v, NEW j \in DOMAIN v, i < j,
                      v[i].type = "started", v[j].type = "done"
               PROVE  \E k \in DOMAIN v : i < k /\ k < j /\ v[k].type = "stopped"
    OBVIOUS
  <2>1. PICK k \in DOMAIN w : i + 1 < k /\ k < j + 1 /\ w[k].type = "stopped"
    BY <1>1
  <2>2. k - 1 \in DOMAIN v /\ i < k - 1 /\ k - 1 < j /\ v[k - 1].type = "stopped"
    BY <1>1, <2>1
  <2> QED
    BY <2>2
<1>4. \A e : Has(v, e) => Has(w, e)
  BY <1>1
<1>5. \A e : Has(w, e) => Has(v, e) \/ e = Head(w)
  BY <1>1
<1>6. \A n : Of(v, n) => Of(w, n)
  BY <1>1
<1>7. /\ \A i \in DOMAIN v : Head(w).turn <= v[i].turn /\ v[i].turn <= t.n
      /\ \A i \in DOMAIN v : v[i].type = "started" => Head(w).turn < v[i].turn
      /\ Head(w).turn <= t.n
  BY <1>1
<1>8. AnswersOnce(v, s)
  BY <1>4
<1>9. StartIsSent(v, s, t)
  <2>1. ASSUME s.hears = t.n, NEW i \in DOMAIN v, v[i].turn < t.n
        PROVE  Has(v, Sent("started", t.n))
    <3>1. Has(w, Sent("started", t.n))
      BY <1>1, <2>1
    <3>2. Head(w).turn # t.n
      <4>1. /\ v[i].turn \in Nat /\ Head(w).turn \in Nat /\ t.n \in Nat
            /\ Head(w).turn <= v[i].turn /\ v[i].turn < t.n
        BY <1>1, <1>7, <2>1 DEF Turns
      <4> QED
        BY <4>1
    <3>3. Sent("started", t.n) # Head(w)
      BY <3>2 DEF Sent
    <3> QED
      BY <1>5, <3>1, <3>3
  <2>2. s.hears # t.n /\ (s.answers = t.n \/ Of(v, t.n))
          => \A i \in DOMAIN v : v[i].turn = t.n
    BY <1>1, <1>6
  <2> QED
    BY <2>1, <2>2
<1> QED
  BY <1>2, <1>3, <1>4, <1>5, <1>6, <1>7, <1>8, <1>9

HIDE DEF TurnByTurn, StopsBetween, AnswersTheTurn, AnswersOnce, StartIsSent,
        QuestionIsSent, StartedIsMarked, AnswerIsMarked, Has, Of

\* What the turn makes of an event that its connection carried
TurnAfter(t, e) ==
  CASE e.type = "started" /\ t.phase = "asking" -> [t EXCEPT !.phase = "asked"]
    [] e.type = "stopped" /\ t.phase \in {"asking", "asked"} ->
         [t EXCEPT !.phase = "waiting", !.streaming = FALSE]
    [] e.type = "audio" /\ e.turn = t.n /\ t.phase = "waiting" ->
         [t EXCEPT !.phase = "sounding"]
    [] e.type = "done" /\ e.turn = t.n /\ t.phase = "waiting" ->
         [t EXCEPT !.phase = "none"]
    [] e.type = "done" /\ e.turn = t.n /\ t.phase = "sounding" ->
         [t EXCEPT !.phase = "draining"]
    [] OTHER -> t

\* What an event can make of a turn
LEMMA TurnAfterIs ==
  ASSUME NEW t \in Turns, NEW e \in ServerEvents
  PROVE  LET u == TurnAfter(t, e) IN
         /\ u \in Turns /\ u.n = t.n
         /\ e.type = "started" =>
              u.phase = IF t.phase = "asking" THEN "asked" ELSE t.phase
         /\ e.type = "stopped" =>
              u.phase = IF Asks(t) THEN "waiting" ELSE t.phase
         /\ e.type = "audio" =>
              u.phase = IF e.turn = t.n /\ t.phase = "waiting" THEN "sounding"
                        ELSE t.phase
         /\ e.type = "done" =>
              u.phase = IF e.turn = t.n /\ t.phase = "waiting" THEN "none"
                        ELSE IF e.turn = t.n /\ t.phase = "sounding" THEN "draining"
                        ELSE t.phase
         /\ TurnFits(t) => TurnFits(u)
<1>1. CASE e.type = "started"
  BY <1>1 DEF TurnAfter, Turns, TurnFits
<1>2. CASE e.type = "stopped"
  BY <1>2 DEF TurnAfter, Turns, TurnFits
<1>3. CASE e.type = "audio"
  BY <1>3 DEF TurnAfter, Turns, TurnFits
<1>4. CASE e.type = "done"
  BY <1>4 DEF TurnAfter, Turns, TurnFits
<1> QED
  BY <1>1, <1>2, <1>3, <1>4 DEF ServerEvents

\* An event is read: what is left on the wire fits what the turn made of it
LEMMA ReadFit ==
  ASSUME NEW w \in Seq(ServerEvents), w # <<>>, NEW s \in Server,
         NEW t \in Turns, NEW b \in BOOLEAN, NEW link,
         TurnFits(t), Fit(w, s, t, b, link),
         NEW e, e = Head(w),
         NEW v, v = Tail(w),
         NEW u, u = TurnAfter(t, e),
         NEW b2 \in BOOLEAN, b2 = (e.type = "started" \/ (b /\ e.type # "done"))
  PROVE  Fit(v, s, u, b2, link)
<1>1. e \in ServerEvents /\ e.turn <= t.n /\ e.turn \in Nat /\ t.n \in Nat
  <2>1. e \in ServerEvents
    BY TailAt
  <2>2. e.turn <= t.n
    BY TailFits DEF Fit
  <2> QED
    BY <2>1, <2>2 DEF Turns, ServerEvents
<1>2. u.n = t.n
  BY <1>1, TurnAfterIs
<1> USE DEF Fit
<1>3. /\ TurnByTurn(v, s, t) /\ StopsBetween(v) /\ AnswersOnce(v, s)
      /\ StartIsSent(v, s, t)
  BY TailFits
<1>4. TurnByTurn(v, s, u) /\ StartIsSent(v, s, u)
  BY <1>2, <1>3 DEF TurnByTurn, StartIsSent
<1>5. \A k : Has(w, Sent(k, t.n)) => Has(v, Sent(k, t.n)) \/ (e.type = k /\ e.turn = t.n)
  <2>1. \A k : Sent(k, t.n) = e => e.type = k /\ e.turn = t.n
    BY DEF Sent
  <2> QED
    BY <2>1, TailFits
<1>6. /\ \A k : Has(v, Sent(k, t.n)) => Has(w, Sent(k, t.n))
      /\ Of(v, t.n) => Of(w, t.n)
  BY TailFits
<1>7. e.turn = t.n => Of(w, t.n)
  BY TailAt DEF Of
<1>9. e.turn = t.n => \A i \in DOMAIN v : v[i].turn = t.n /\ v[i].type # "started"
  <2> SUFFICES ASSUME e.turn = t.n, NEW i \in DOMAIN v
               PROVE  v[i].turn = t.n /\ v[i].type # "started"
    OBVIOUS
  <2>1. /\ t.n <= v[i].turn /\ v[i].turn <= t.n
        /\ v[i].type = "started" => t.n < v[i].turn
    BY TailFits
  <2>2. v[i].turn \in Nat
    <3>1. v[i] \in ServerEvents
      BY TailAt
    <3> QED
      BY <3>1 DEF ServerEvents
  <2> QED
    BY <1>1, <2>1, <2>2
<1>10. \A i \in DOMAIN v : v[i] = w[i + 1] /\ i + 1 \in DOMAIN w /\ i \in Nat
  BY TailAt
<1>11. \A i \in DOMAIN w : i = 1 \/ (i - 1 \in DOMAIN v /\ w[i] = v[i - 1] /\ i \in Nat)
  BY TailAt
<1>12. w[1] = e /\ 1 \in DOMAIN w
  BY TailAt
<1>8. ASSUME link = "open", s.answers # 0, NEW i \in DOMAIN v, v[i].type = "started"
      PROVE  \E k \in DOMAIN v : i < k /\ v[k].type = "stopped"
  <2>1. PICK k \in DOMAIN w : i + 1 < k /\ w[k].type = "stopped"
    BY <1>8, <1>10 DEF AnswersTheTurn
  <2>2. k - 1 \in DOMAIN v /\ i < k - 1 /\ v[k - 1].type = "stopped"
    BY <1>10, <1>11, <2>1
  <2> QED
    BY <2>2
<1>14. ASSUME u.phase = t.phase, b2 = b, e.type # "stopped"
       PROVE  StartedIsMarked(v, u, b2)
  <2> SUFFICES ASSUME t.phase = "asked"
               PROVE  /\ b2
                      /\ \A j \in DOMAIN v : v[j].type = "done" =>
                           \E k \in DOMAIN v : k < j /\ v[k].type = "stopped"
    BY <1>14 DEF StartedIsMarked
  <2>1. b2
    <3>1. b
      BY DEF StartedIsMarked
    <3> QED
      BY <1>14, <3>1
  <2>2. ASSUME NEW j \in DOMAIN v, v[j].type = "done"
        PROVE  \E k \in DOMAIN v : k < j /\ v[k].type = "stopped"
    <3>1. PICK k \in DOMAIN w : k < j + 1 /\ w[k].type = "stopped"
      BY <1>10, <2>2 DEF StartedIsMarked
    <3>2. k - 1 \in DOMAIN v /\ k - 1 < j /\ v[k - 1].type = "stopped"
      BY <1>10, <1>11, <1>12, <1>14, <3>1
    <3> QED
      BY <3>2
  <2> QED
    BY <2>1, <2>2
<1>20. CASE e.type = "started"
  <2>1. b2 = TRUE
    BY <1>20
  <2>2. u.phase = IF t.phase = "asking" THEN "asked" ELSE t.phase
    BY <1>1, <1>20, TurnAfterIs
  <2>3. AnswersTheTurn(v, s, u, link)
    BY <1>2, <1>8, <2>2 DEF AnswersTheTurn
  <2>4. QuestionIsSent(v, s, u)
    BY <1>1, <1>2, <1>5, <1>6, <1>20, <2>2 DEF QuestionIsSent
  <2>5. StartedIsMarked(v, u, b2)
    <3> SUFFICES ASSUME NEW j \in DOMAIN v, v[j].type = "done", u.phase = "asked"
                 PROVE  \E k \in DOMAIN v : k < j /\ v[k].type = "stopped"
      BY <2>1 DEF StartedIsMarked
    <3>1. \E k \in DOMAIN w : 1 < k /\ k < j + 1 /\ w[k].type = "stopped"
      <4>1. CASE t.phase = "asking"
        BY <1>10, <1>12, <1>20 DEF StopsBetween
      <4>2. CASE t.phase = "asked"
        <5>1. PICK k \in DOMAIN w : k < j + 1 /\ w[k].type = "stopped"
          BY <1>10, <4>2 DEF StartedIsMarked
        <5> QED
          BY <1>11, <1>12, <1>20, <5>1
      <4> QED
        BY <2>2, <4>1, <4>2
    <3>2. PICK k \in DOMAIN w : 1 < k /\ k < j + 1 /\ w[k].type = "stopped"
      BY <3>1
    <3>3. k - 1 \in DOMAIN v /\ k - 1 < j /\ v[k - 1].type = "stopped"
      BY <1>10, <1>11, <3>2
    <3> QED
      BY <3>3
  <2>6. AnswerIsMarked(v, s, u, b2)
    BY <1>2, <1>10, <2>1, <2>2 DEF AnswerIsMarked
  <2> QED
    BY <1>3, <1>4, <2>3, <2>4, <2>5, <2>6
<1>21. CASE e.type = "stopped"
  <2>1. b2 = b
    BY <1>21
  <2>2. u.phase = IF Asks(t) THEN "waiting" ELSE t.phase
    BY <1>1, <1>21, TurnAfterIs
  <2>3. AnswersTheTurn(v, s, u, link)
    BY <1>2, <1>8, <2>2 DEF AnswersTheTurn
  <2>4. QuestionIsSent(v, s, u) /\ StartedIsMarked(v, u, b2)
    BY <2>2 DEF QuestionIsSent, StartedIsMarked
  <2>5. AnswerIsMarked(v, s, u, b2)
    <3>1. Has(w, Sent("started", t.n)) => Has(v, Sent("started", t.n))
      BY <1>5, <1>21
    <3> QED
      BY <1>2, <1>6, <1>10, <2>1, <2>2, <3>1 DEF AnswerIsMarked
  <2> QED
    BY <1>3, <1>4, <2>3, <2>4, <2>5
<1>22. CASE e.type = "audio"
  <2>1. b2 = b
    BY <1>22
  <2>2. u.phase = IF e.turn = t.n /\ t.phase = "waiting" THEN "sounding" ELSE t.phase
    BY <1>1, <1>22, TurnAfterIs
  <2>3. AnswersTheTurn(v, s, u, link)
    BY <1>2, <1>8, <2>2 DEF AnswersTheTurn
  <2>4. QuestionIsSent(v, s, u)
    BY <1>2, <1>5, <1>6, <1>22, <2>2 DEF QuestionIsSent
  <2>5. StartedIsMarked(v, u, b2)
    BY <1>14, <1>22, <2>1, <2>2 DEF StartedIsMarked
  <2>6. AnswerIsMarked(v, s, u, b2)
    <3>1. Has(w, Sent("started", t.n)) => Has(v, Sent("started", t.n))
      BY <1>5, <1>22
    <3>2. CASE u.phase = t.phase
      BY <1>2, <1>6, <1>10, <2>1, <3>1, <3>2 DEF AnswerIsMarked
    <3>3. CASE e.turn = t.n /\ t.phase = "waiting"
      <4>1. Has(w, Sent("audio", t.n))
        <5>1. e = Sent("audio", t.n)
          BY <1>1, <1>22, <3>3, SentAs
        <5> QED
          BY <1>12, <5>1 DEF Has
      <4>2. b \/ Has(v, Sent("started", t.n))
        BY <3>1, <3>3, <4>1 DEF AnswerIsMarked
      <4> QED
        BY <1>2, <1>9, <2>1, <2>2, <3>3, <4>2 DEF AnswerIsMarked
    <3> QED
      BY <2>2, <3>2, <3>3
  <2> QED
    BY <1>3, <1>4, <2>3, <2>4, <2>5, <2>6
<1>23. CASE e.type = "done"
  <2>1. b2 = FALSE
    BY <1>23
  <2>2. u.phase = IF e.turn = t.n /\ t.phase = "waiting" THEN "none"
                  ELSE IF e.turn = t.n /\ t.phase = "sounding" THEN "draining"
                  ELSE t.phase
    BY <1>1, <1>23, TurnAfterIs
  <2>3. t.phase # "asked"
    <3> SUFFICES ASSUME t.phase = "asked" PROVE FALSE
      OBVIOUS
    <3>1. PICK k \in DOMAIN w : k < 1 /\ w[k].type = "stopped"
      BY <1>12, <1>23 DEF StartedIsMarked
    <3> QED
      BY <1>11, <3>1, TailAt
  <2>4. e.turn = t.n => t.phase # "asking"
    <3> SUFFICES ASSUME e.turn = t.n, t.phase = "asking" PROVE FALSE
      OBVIOUS
    <3>1. Has(w, Sent("started", t.n))
      BY <1>7 DEF QuestionIsSent
    <3>2. Has(v, Sent("started", t.n))
      BY <1>5, <1>23, <3>1
    <3> QED
      BY <1>1, <1>9, <3>2, SentAs DEF Has
  <2>5. e.turn = t.n => s.answers # t.n \/ s.answers = 0
    <3>1. e.turn = t.n => e = Sent("done", t.n)
      BY <1>1, <1>23, SentAs
    <3> QED
      BY <1>12, <3>1 DEF AnswersOnce, Has
  <2>6. AnswersTheTurn(v, s, u, link)
    BY <1>2, <1>8, <2>2, <2>5 DEF AnswersTheTurn
  <2>7. QuestionIsSent(v, s, u)
    <3>1. Has(w, Sent("started", t.n)) => Has(v, Sent("started", t.n))
      BY <1>5, <1>23
    <3>2. Has(w, Sent("stopped", t.n)) => Has(v, Sent("stopped", t.n))
      BY <1>5, <1>23
    <3> QED
      BY <1>2, <1>6, <2>2, <3>1, <3>2 DEF QuestionIsSent
  <2>8. StartedIsMarked(v, u, b2)
    BY <2>2, <2>3 DEF StartedIsMarked
  <2>9. AnswerIsMarked(v, s, u, b2)
    <3> SUFFICES ASSUME t.phase \in {"asking", "waiting", "sounding"},
                        u.phase = t.phase, e.turn # t.n
                 PROVE  AnswerIsMarked(v, s, u, b2)
      BY <2>2, <2>3, <2>4 DEF AnswerIsMarked
    <3>1. u.phase # "sounding"
      BY <1>12 DEF AnswerIsMarked
    <3>2. s.hears = t.n => Has(v, Sent("started", t.n))
      <4>1. e.turn < t.n
        BY <1>1
      <4>2. s.hears = t.n => Has(w, Sent("started", t.n))
        BY <1>12, <4>1 DEF StartIsSent
      <4> QED
        BY <1>5, <4>2
    <3>3. s.hears # t.n => s.answers # t.n /\ ~Of(w, t.n)
      BY <1>12 DEF StartIsSent
    <3>4. Has(v, Sent("audio", t.n)) => Of(w, t.n)
      <4>1. Has(v, Sent("audio", t.n)) => Has(w, Sent("audio", t.n))
        BY <1>6
      <4>2. Sent("audio", t.n).turn = t.n
        BY DEF Sent
      <4> QED
        BY <4>1, <4>2 DEF Has, Of
    <3> QED
      BY <1>2, <3>1, <3>2, <3>3, <3>4 DEF AnswerIsMarked
  <2> QED
    BY <1>3, <1>4, <2>6, <2>7, <2>8, <2>9
<1> QED
  BY <1>1, <1>20, <1>21, <1>22, <1>23 DEF ServerEvents

-----------------------------------------------------------------------------
HIDE DEF Asks

\* What the turn hears is TurnAfter
LEMMA HearsAfter ==
  ASSUME NEW e, TurnHears(e)
  PROVE  turn' = TurnAfter(turn, e)
  BY DEF TurnHears, TurnAfter

\* Who lets go of the turn lets it rest
LEMMA ReleasedRests ==
  ASSUME turn \in Turns
  PROVE  TurnFits(Released(turn)) /\ Released(turn).phase = "none"
         /\ Released(turn).n = turn.n
  BY DEF Released, Turns, TurnFits, Asks

\* The turn rests whenever the session is not ready
LEMMA TurnRestsStep ==
  ASSUME LinkInv, TurnRests, [Next]_vars
  PROVE  TurnRests'
<1> USE DEF TurnRests
<1>1. turn \in Turns
  BY DEF LinkInv, TypeOK
<1>2. CASE UNCHANGED vars
  BY <1>2 DEF vars
<1>3. CASE Start \/ DialSucceeds \/ ShakeSucceeds \/ Swapped \/ SwappedLost \/ Retry
           \/ PutOff \/ Stopped
  <2>1. turn' = turn /\ stopping' = stopping /\ run' # "closing"
    BY <1>3 DEF Start, DialSucceeds, ShakeSucceeds, Swapped, SwappedLost, Retry, PutOff,
                Stopped, Open
  <2>2. state' # "ready" => state # "ready" \/ stopping
    BY <1>3 DEF Start, DialSucceeds, ShakeSucceeds, Swapped, SwappedLost, Retry, PutOff,
                Stopped, LinkInv, RunFitsState
  <2> QED
    BY <2>1, <2>2
<1>4. CASE AttemptFails \/ ReplaceLost \/ Renew
  <2>1. turn' = Released(turn)
    BY <1>4 DEF AttemptFails, ReplaceLost, Renew, Reconnect, TurnTold
  <2>2. run' # "closing"
    BY <1>4 DEF AttemptFails, ReplaceLost, Renew, Reconnect, Open
  <2> QED
    BY <1>1, <2>1, <2>2, ReleasedRests
<1>5. CASE Stop \/ NoQuestion \/ Cut \/ Played
  <2>1. turn' = Released(turn)
    BY <1>5 DEF Stop, NoQuestion, Cut, Played
  <2>2. run' = "closing" => stopping'
    BY <1>5 DEF Stop, NoQuestion, Cut, Played, Session, Coroutine
  <2> QED
    BY <1>1, <2>1, <2>2, ReleasedRests
<1>6. CASE ReadEvent
  <2>1. PICK e \in ServerEvents : TurnHears(e)
    BY <1>6, HeadTailType DEF ReadEvent, LinkInv, TypeOK
  <2>2. turn' = TurnAfter(turn, e)
    BY <2>1, HearsAfter
  <2>3. TurnFits(turn') /\ (turn.phase = "none" => turn'.phase = "none")
    BY <1>1, <2>2, TurnAfterIs DEF ServerEvents, Asks
  <2> QED
    BY <1>6, <2>3 DEF ReadEvent, Coroutine
<1>7. CASE Ask
  BY <1>1, <1>7 DEF Ask, Ready, Session, Coroutine, TurnFits, Asks, Turns
<1>8. CASE QuestionTooLong
  BY <1>1, <1>8 DEF QuestionTooLong, Session, Coroutine, TurnFits, Asks, Turns
<1>9. CASE ReadEnd \/ Frame \/ Drop \/ GrowOld
  BY <1>9 DEF ReadEnd, Frame, Drop, GrowOld, Session, Coroutine, Client
<1>10. CASE Answer \/ \E c \in Connections : ServerHears(c) \/ ServerAnswers(c)
  BY <1>10 DEF Answer, ServerHears, ServerAnswers, ServerSpeaks, ServerFinishes, Says,
               Client, Coroutine
<1> QED
  BY <1>2, <1>3, <1>4, <1>5, <1>6, <1>7, <1>8, <1>9, <1>10
  DEF Next, Attempt, Supervise, Read

\* A loss that the supervisor finds is that of the connection it waits on
LEMMA LossIsRealStep ==
  ASSUME LinkInv, LossIsReal, [Next]_vars
  PROVE  LossIsReal'
<1> SUFFICES ASSUME run' \in Watching, lost' PROVE socket'[serving'] # "open"
  BY DEF LossIsReal
<1> USE DEF LossIsReal
<1>1. CASE UNCHANGED vars
  BY <1>1 DEF vars
<1>2. CASE Start \/ Attempt \/ ReplaceLost \/ Renew
  BY <1>2 DEF Start, Attempt, DialSucceeds, ShakeSucceeds, Swapped, SwappedLost,
              AttemptFails, Retry, ReplaceLost, Renew, Reconnect, Open
<1>3. CASE Stop \/ Stopped
  BY <1>3 DEF Stop, Stopped, LinkInv, RunFitsOwner
<1>4. CASE PutOff \/ Frame \/ GrowOld \/ Ask \/ NoQuestion \/ QuestionTooLong \/ Cut
           \/ Played \/ ReadEvent
  BY <1>4 DEF PutOff, Frame, GrowOld, Ask, NoQuestion, QuestionTooLong, Cut, Played,
              ReadEvent, Session, Coroutine
<1>5. CASE ReadEnd
  <2>1. PICK c \in Connections :
          /\ socket[c] = "cut" /\ socket' = [socket EXCEPT ![c] = "closed"]
          /\ lost' = (lost \/ (c # previous /\ ~stopping))
    BY <1>5 DEF ReadEnd
  <2>2. UNCHANGED <<run, serving>>
    BY <1>5 DEF ReadEnd, Coroutine
  <2>3. c = serving
    BY <2>1, <2>2, NoneAssumption DEF LinkInv, SocketsFit
  <2> QED
    BY <2>1, <2>2, <2>3 DEF LinkInv, TypeOK
<1>6. CASE Drop
  BY <1>6 DEF Drop, Client, Coroutine, LinkInv, TypeOK
<1>7. CASE Answer \/ \E c \in Connections : ServerHears(c) \/ ServerAnswers(c)
  BY <1>7 DEF Answer, ServerHears, ServerAnswers, ServerSpeaks, ServerFinishes, Says,
              Client, Coroutine
<1> QED
  BY <1>1, <1>2, <1>3, <1>4, <1>5, <1>6, <1>7 DEF Next, Supervise, Read

\* What the servers send, or the turn lets them send, goes to a connection that
\* is open, and never to one that has just taken over
LEMMA SendersRest ==
  ASSUME LinkInv, TurnRests, WiresRest,
         \/ QuestionTooLong \/ Cut \/ Answer
         \/ \E c \in Connections : ServerHears(c) \/ ServerAnswers(c)
  PROVE  WiresRest'
<1>1. UNCHANGED <<run, serving, socket>>
  BY DEF QuestionTooLong, Cut, Answer, ServerHears, ServerAnswers, ServerSpeaks,
         ServerFinishes, Says, Client, Session, Coroutine
<1>2. CASE UNCHANGED <<wire, server>>
  BY <1>1, <1>2 DEF WiresRest
<1>3. CASE ~UNCHANGED <<wire, server>>
  <2> SUFFICES \E c \in Connections :
        /\ socket[c] = "open" /\ (run = "swap" => c # serving)
        /\ \A d \in Connections : d # c => wire'[d] = wire[d] /\ server'[d] = server[d]
    BY <1>1 DEF WiresRest, LinkInv, TypeOK
  <2>1. CASE QuestionTooLong \/ Cut
    <3>1. run # "swap"
      BY <2>1 DEF QuestionTooLong, Cut, TurnRests, LinkInv, RunFitsState
    <3>2. serving \in Connections /\ socket[serving] = "open"
      BY <1>3, <2>1 DEF QuestionTooLong, Cut, Ready, Network, LinkInv, TypeOK
    <3>3. \A d \in Connections : d # serving => wire'[d] = wire[d] /\ server'[d] = server[d]
      BY <2>1, <3>2 DEF QuestionTooLong, Cut, Network, LinkInv, TypeOK
    <3> QED
      BY <3>1, <3>2, <3>3
  <2>2. CASE \E c \in Connections : ServerHears(c) \/ ServerAnswers(c)
    BY <2>2 DEF ServerHears, ServerAnswers, Says, Streams, Ready, LinkInv, TypeOK,
                RunFitsState
  <2>3. CASE Answer
    BY <2>3 DEF Answer, ServerSpeaks, ServerFinishes, Says, LinkInv, TypeOK,
                WiresRest, FreshServer
  <2> QED
    BY <2>1, <2>2, <2>3
<1> QED
  BY <1>2, <1>3

\* Only a connection that is open carries anything
LEMMA WiresRestStep ==
  ASSUME LinkInv, TurnRests, WiresRest, [Next]_vars
  PROVE  WiresRest'
<1>1. CASE UNCHANGED vars
  BY <1>1 DEF vars, WiresRest
<1>2. CASE Start \/ Retry \/ ReplaceLost \/ Renew
  <2>1. /\ run' = "dial" /\ opening' \in Connections /\ opening' \notin {serving, previous}
        /\ socket' = [socket EXCEPT ![opening'] = "dialing"]
        /\ socket[opening'] = "closed"
    BY <1>2 DEF Start, Retry, ReplaceLost, Renew, Reconnect, Open
  <2>2. wire' = wire
    BY <1>2 DEF Start, Retry, ReplaceLost, Renew, Reconnect, Network
  <2> QED
    BY <2>1, <2>2 DEF WiresRest, LinkInv, TypeOK
<1>3. CASE DialSucceeds \/ ShakeSucceeds \/ AttemptFails
  <2>1. opening \in Connections /\ wire[opening] = <<>>
    <3>1. opening \in Connections /\ opening \notin {serving, previous}
      BY <1>3, NoneAssumption
      DEF DialSucceeds, ShakeSucceeds, AttemptFails, LinkInv, TypeOK, SocketsFit
    <3>2. socket[opening] \in {"closed", "dialing", "shaking"}
      BY <3>1 DEF LinkInv, TypeOK, SocketsFit
    <3> QED
      BY <3>1, <3>2 DEF WiresRest
  <2>2. wire' = wire
    BY <1>3 DEF DialSucceeds, ShakeSucceeds, AttemptFails, Network
  <2>3. \A c \in Connections : c # opening => socket'[c] = socket[c]
    BY <1>3, <2>1 DEF DialSucceeds, ShakeSucceeds, AttemptFails, LinkInv, TypeOK
  <2>4. run' = "swap" => serving' = opening /\ server'[opening] = FreshServer
    BY <1>3, <2>1 DEF DialSucceeds, ShakeSucceeds, AttemptFails, LinkInv, TypeOK
  <2> QED
    BY <2>1, <2>2, <2>3, <2>4 DEF WiresRest
<1>4. CASE Swapped \/ SwappedLost
  <2>1. run' # "swap"
    BY <1>4 DEF Swapped, SwappedLost
  <2>2. \A c \in Connections : wire'[c] = IF c = previous THEN <<>> ELSE wire[c]
    BY <1>4 DEF Swapped, SwappedLost, Closing
  <2>3. \A c \in Connections : c # previous =>
          socket'[c] = socket[c] \/ (socket[c] = "closed" /\ socket'[c] = "dialing")
    BY <1>4 DEF Swapped, SwappedLost, Closing
  <2> QED
    BY <2>1, <2>2, <2>3 DEF WiresRest
<1>5. CASE Stop
  <2>1. UNCHANGED <<wire, server, serving>>
    BY <1>5 DEF Stop, Network
  <2>2. run' = "swap" => run = "swap"
    BY <1>5 DEF Stop
  <2>3. \A c \in Connections : socket'[c] = socket[c] \/ (c = opening /\ run = "dial")
    BY <1>5 DEF Stop
  <2>4. \A c \in Connections : c = opening /\ run = "dial" => wire[c] = <<>>
    <3>1. \A c \in Connections : c = opening /\ run = "dial" => c \notin {serving, previous}
      BY NoneAssumption DEF LinkInv, TypeOK, SocketsFit
    <3>2. \A c \in Connections : c = opening /\ run = "dial" =>
            socket[c] \in {"closed", "dialing", "shaking"}
      BY <3>1 DEF LinkInv, TypeOK, SocketsFit
    <3> QED
      BY <3>2 DEF WiresRest
  <2> QED
    BY <2>1, <2>2, <2>3, <2>4 DEF WiresRest
<1>6. CASE Stopped
  BY <1>6 DEF Stopped, WiresRest, LinkInv, TypeOK
<1>7. CASE ReadEvent \/ ReadEnd
  <2>1. PICK c \in Connections :
          /\ socket[c] \in {"open", "cut"}
          /\ \/ wire[c] # <<>> /\ socket' = socket
                /\ wire' = [wire EXCEPT ![c] = Tail(@)]
             \/ wire[c] = <<>> /\ socket' = [socket EXCEPT ![c] = "closed"]
                /\ wire' = wire
    BY <1>7 DEF ReadEvent, ReadEnd, Network
  <2>2. UNCHANGED <<run, serving, server>>
    BY <1>7 DEF ReadEvent, ReadEnd, Coroutine, Network
  <2> QED
    BY <2>1, <2>2 DEF WiresRest, LinkInv, TypeOK
<1>8. CASE PutOff \/ Ask \/ Frame \/ NoQuestion \/ Played \/ GrowOld
  BY <1>8 DEF PutOff, Ask, Frame, NoQuestion, Played, GrowOld, Session, Coroutine,
              Network, WiresRest
<1>9. CASE Drop
  BY <1>9 DEF Drop, Client, Coroutine, Network, WiresRest, LinkInv, TypeOK
<1> QED
  BY <1>1, <1>2, <1>3, <1>4, <1>5, <1>6, <1>7, <1>8, <1>9, SendersRest
  DEF Next, Attempt, Supervise, Read

-----------------------------------------------------------------------------
\* While the supervisor waits only one connection carries anything
LEMMA OneCarries ==
  ASSUME LinkInv, run \in Watching, NEW c \in Connections, socket[c] \in {"open", "cut"}
  PROVE  c = serving
  BY NoneAssumption DEF LinkInv, SocketsFit

\* What is known of the connection that serves
LEMMA ServingType ==
  ASSUME LinkInv, run \in Watching
  PROVE  /\ serving \in Connections /\ turn \in Turns /\ inTurn \in BOOLEAN
         /\ wire[serving] \in Seq(ServerEvents) /\ server[serving] \in Server
         /\ state = "ready" /\ ~stopping /\ Ready
<1>1. serving \in Connections
  BY NoneAssumption DEF LinkInv, TypeOK
<1> QED
  BY <1>1, NoneAssumption DEF LinkInv, TypeOK, RunFitsState, RunFitsOwner, Ready

\* The coroutine and the sockets
LEMMA CoroutineFits ==
  ASSUME LinkInv, TurnRests, WiresRest, AnswerFits,
         Start \/ Attempt \/ Supervise \/ Stop \/ Stopped \/ ReadEnd
  PROVE  AnswerFits'
<1> SUFFICES ASSUME run' \in Watching, ~lost', ~crossed'
             PROVE  Fit(wire[serving], server[serving], turn, inTurn, socket[serving])'
  BY DEF AnswerFits, Serves
<1>1. CASE Swapped
  <2>1. /\ wire'[serving'] = <<>> /\ server'[serving'] = FreshServer
        /\ turn' = turn
    BY <1>1, NoneAssumption DEF Swapped, Closing, WiresRest, LinkInv, TypeOK, SocketsFit
  <2>2. turn \in Turns /\ turn.phase = "none" /\ inTurn' \in BOOLEAN
    BY <1>1 DEF Swapped, LinkInv, TypeOK, RunFitsState, TurnRests
  <2>3. ASSUME NEW b \in BOOLEAN, NEW link PROVE Fit(<<>>, FreshServer, turn, b, link)
    BY <2>2, FreshFits
  <2> QED
    BY <2>1, <2>2, <2>3
<1>2. CASE PutOff
  BY <1>2 DEF PutOff, Network, History, AnswerFits, Serves
<1>3. CASE ReadEnd
  <2>1. PICK c \in Connections :
          socket[c] = "cut" /\ lost' = (lost \/ (c # previous /\ ~stopping))
    BY <1>3 DEF ReadEnd
  <2>2. run \in Watching
    BY <1>3 DEF ReadEnd, Coroutine
  <2>3. c # previous /\ ~stopping
    BY <2>1, <2>2, NoneAssumption DEF LinkInv, SocketsFit, RunFitsOwner
  <2> QED
    BY <2>1, <2>3
<1>4. CASE Start \/ DialSucceeds \/ ShakeSucceeds \/ SwappedLost \/ AttemptFails \/ Retry
           \/ ReplaceLost \/ Renew
  BY <1>4 DEF Start, DialSucceeds, ShakeSucceeds, SwappedLost, AttemptFails, Retry,
              ReplaceLost, Renew, Reconnect, Open
<1>5. CASE Stop \/ Stopped
  BY <1>5 DEF Stop, Stopped, LinkInv, RunFitsOwner
<1> QED
  BY <1>1, <1>2, <1>3, <1>4, <1>5 DEF Attempt, Supervise

\* A reader
LEMMA ReadEventFits ==
  ASSUME LinkInv, TurnRests, AnswerFits, ReadEvent
  PROVE  AnswerFits'
<1> SUFFICES ASSUME run' \in Watching, ~lost', ~crossed'
             PROVE  Fit(wire[serving], server[serving], turn, inTurn, socket[serving])'
  BY DEF AnswerFits, Serves
<1>1. UNCHANGED <<run, serving, lost, crossed, server, socket>>
  BY DEF ReadEvent, Coroutine
<1>2. PICK c \in Connections :
        /\ socket[c] \in {"open", "cut"} /\ wire[c] # <<>>
        /\ inTurn' = (Head(wire[c]).type = "started"
                        \/ (inTurn /\ Head(wire[c]).type # "done"))
        /\ TurnHears(Head(wire[c]))
        /\ wire' = [wire EXCEPT ![c] = Tail(@)]
  BY DEF ReadEvent
<1>3. c = serving
  BY <1>1, <1>2, OneCarries
<1>4. turn' = TurnAfter(turn, Head(wire[serving]))
  BY <1>2, <1>3, HearsAfter
<1>5. Fit(wire[serving], server[serving], turn, inTurn, socket[serving])
  BY <1>1 DEF AnswerFits, Serves
<1>6. wire'[serving] = Tail(wire[serving])
  BY <1>2, <1>3 DEF LinkInv, TypeOK
<1>7. inTurn' \in BOOLEAN
  BY <1>2
<1>8. wire[serving] # <<>> /\ TurnFits(turn)
  BY <1>2, <1>3 DEF TurnRests
<1>9. Fit(Tail(wire[serving]), server[serving], TurnAfter(turn, Head(wire[serving])),
          inTurn', socket[serving])
  <2> DEFINE w == wire[serving]
             e == Head(w)
  <2>1. /\ w \in Seq(ServerEvents) /\ w # <<>> /\ server[serving] \in Server
        /\ turn \in Turns /\ inTurn \in BOOLEAN
    BY <1>1, <1>8, ServingType
  <2>2. inTurn' = (e.type = "started" \/ (inTurn /\ e.type # "done"))
    BY <1>2, <1>3
  <2> HIDE DEF w
  <2>3. Fit(w, server[serving], turn, inTurn, socket[serving])
    BY <1>5 DEF w
  <2>4. Fit(Tail(w), server[serving], TurnAfter(turn, e), inTurn', socket[serving])
    BY <1>7, <1>8, <2>1, <2>2, <2>3, ReadFit
  <2> QED
    BY <2>4 DEF w
<1> QED
  BY <1>1, <1>4, <1>6, <1>9

\* The turn, and what the network does on its own
LEMMA TurnFit ==
  ASSUME LinkInv, TurnRests, AnswerFits,
         \/ UNCHANGED vars \/ Ask \/ Frame \/ NoQuestion \/ QuestionTooLong \/ Cut
         \/ Played \/ Drop \/ GrowOld
  PROVE  AnswerFits'
<1> SUFFICES ASSUME run' \in Watching, ~lost', ~crossed'
             PROVE  Fit(wire[serving], server[serving], turn, inTurn, socket[serving])'
  BY DEF AnswerFits, Serves
<1>1. UNCHANGED <<run, serving, lost, stopping>> /\ ~crossed
  <2>1. CASE NoQuestion
    BY <2>1 DEF NoQuestion, Coroutine
  <2>2. CASE UNCHANGED vars \/ Drop \/ GrowOld
    BY <2>2 DEF vars, Drop, GrowOld, Client, Coroutine, History
  <2>3. CASE Ask \/ Frame \/ QuestionTooLong \/ Cut \/ Played
    <3>1. UNCHANGED Session
      BY <2>3 DEF Ask, Frame, QuestionTooLong, Cut, Played
    <3> QED
      BY <3>1 DEF Session, Coroutine, History
  <2> QED
    BY <2>1, <2>2, <2>3
<1> DEFINE w == wire[serving]
           s == server[serving]
           link == socket[serving]
<1>2. /\ serving \in Connections /\ turn \in Turns /\ inTurn \in BOOLEAN
      /\ w \in Seq(ServerEvents) /\ s \in Server /\ Ready
  BY <1>1, ServingType
<1>3. Fit(w, s, turn, inTurn, link)
  BY <1>1 DEF AnswerFits, Serves
<1>4. inTurn' \in BOOLEAN
  BY <1>2 DEF vars, Ask, Frame, NoQuestion, QuestionTooLong, Cut, Played, Drop,
              GrowOld, Streams, Session, Client
<1>5. link = "open" /\ s.answers # 0 =>
        s.answers = turn.n /\ turn.phase \in {"asking", "asked", "waiting", "sounding"}
  BY <1>3 DEF Fit, AnswersTheTurn
<1>6. TurnFits(turn)
  BY DEF TurnRests
<1>7. CASE UNCHANGED vars \/ GrowOld
  BY <1>3, <1>7 DEF vars, GrowOld, Network
<1>8. CASE Drop
  <2>1. UNCHANGED <<wire, server, turn, inTurn, serving>>
    BY <1>8 DEF Drop, Client, Coroutine, Network
  <2>2. socket'[serving] = "open" => link = "open"
    BY <1>2, <1>8 DEF Drop, LinkInv, TypeOK
  <2> HIDE DEF w, s, link
  <2>3. \A l : (l = "open" => link = "open") => Fit(w, s, turn, inTurn, l)
    BY <1>2, <1>3, WeakerFits
  <2> QED
    BY <2>1, <2>2, <2>3 DEF w, s
<1>9. CASE Frame
  <2>1. UNCHANGED <<wire, server, turn, socket, serving>> /\ inTurn' = TRUE
    BY <1>9 DEF Frame, Session, Coroutine, Network
  <2> HIDE DEF w, s, link
  <2>2. Fit(w, s, turn, TRUE, link)
    BY <1>2, <1>3, WeakerFits
  <2> QED
    BY <2>1, <2>2 DEF w, s, link
<1>10. CASE Ask
  <2>1. /\ UNCHANGED <<wire, server, socket, serving>> /\ inTurn' = TRUE
        /\ turn.phase = "none"
        /\ turn' = [n |-> turn.n + 1, phase |-> "asking", streaming |-> TRUE]
    BY <1>10 DEF Ask, Session, Coroutine, Network
  <2> HIDE DEF w, s, link
  <2>2. Fit(w, s, turn', TRUE, link)
    BY <1>2, <1>3, <2>1, AskFits
  <2> QED
    BY <2>1, <2>2 DEF w, s, link
<1>11. CASE NoQuestion \/ Played
  <2>1. UNCHANGED <<wire, server, socket, serving>> /\ turn' = Released(turn)
    BY <1>11 DEF NoQuestion, Played, Session, Coroutine, Network
  <2>2. link = "open" => s.answers = 0
    <3>1. CASE Played
      BY <1>5, <3>1 DEF Played
    <3>2. CASE NoQuestion
      <4>1. turn.phase = "asking" /\ s.hears # turn.n
        BY <1>2, <3>2 DEF NoQuestion, Ready
      <4>2. s.answers # turn.n
        BY <1>3, <4>1 DEF Fit, QuestionIsSent, Asks
      <4> QED
        BY <1>5, <4>2
    <3> QED
      BY <1>11, <3>1, <3>2
  <2> HIDE DEF w, s, link
  <2>3. Fit(w, s, Released(turn), inTurn', link)
    BY <1>2, <1>3, <1>4, <2>2, ReleaseFits
  <2> QED
    BY <2>1, <2>3 DEF w, s, link
<1>12. CASE QuestionTooLong
  <2>1. /\ UNCHANGED <<wire, socket, serving, inTurn>> /\ turn.phase = "asked" /\ w = <<>>
        /\ turn' = [turn EXCEPT !.phase = "waiting", !.streaming = FALSE]
    BY <1>2, <1>12 DEF QuestionTooLong, Session, Coroutine
  <2>2. server'[serving] = [s EXCEPT !.answers = IF link = "open" THEN turn.n ELSE @]
    <3>1. CASE link = "open" /\ s.answers = 0
      <4>1. server'[serving] = [s EXCEPT !.answers = turn.n]
        BY <1>2, <1>12, <3>1 DEF QuestionTooLong, LinkInv, TypeOK
      <4> QED
        BY <3>1, <4>1
    <3>2. CASE ~(link = "open" /\ s.answers = 0)
      <4>1. server' = server /\ s = [s EXCEPT !.answers = s.answers]
        BY <1>2, <1>12, <3>2 DEF QuestionTooLong, Server
      <4> QED
        BY <1>5, <3>2, <4>1
    <3> QED
      BY <3>1, <3>2
  <2> HIDE DEF w, s, link
  <2>3. Fit(<<>>, s, turn, inTurn, link)
    BY <1>3, <2>1
  <2>4. Fit(<<>>, server'[serving], turn', inTurn, link)
    BY <1>2, <2>1, <2>2, <2>3, TooLongFits
  <2> QED
    BY <2>1, <2>2, <2>4 DEF w, s, link
<1>13. CASE Cut
  <2>1. UNCHANGED <<socket, serving>> /\ turn' = Released(turn)
    BY <1>13 DEF Cut, Session, Coroutine
  <2>2. CASE link = "open" /\ s.answers # 0
    <3>1. /\ server'[serving] = [s EXCEPT !.answers = 0]
          /\ wire'[serving] = Append(w, Sent("done", s.answers))
      BY <1>2, <1>13, <2>2 DEF Cut, LinkInv, TypeOK
    <3> HIDE DEF w, s, link
    <3>2. Fit(wire'[serving], server'[serving], turn, inTurn, "open")
      <4>1. Fit(w, s, turn, inTurn, "open")
        BY <1>3, <2>2
      <4> QED
        BY <1>2, <2>2, <3>1, <4>1, SaysFits
    <3>3. /\ wire'[serving] \in Seq(ServerEvents)
          /\ server'[serving] \in Server /\ server'[serving].answers = 0
      <4>1. Sent("done", s.answers) \in ServerEvents
        BY <1>2 DEF Sent, ServerEvents, Server
      <4> QED
        BY <1>2, <3>1, <4>1, AppendAt DEF Server
    <3>4. Fit(wire'[serving], server'[serving], Released(turn), inTurn', "open")
      BY <1>2, <1>4, <3>2, <3>3, ReleaseFits
    <3> QED
      BY <2>1, <2>2, <3>4 DEF link
  <2>3. CASE ~(link = "open" /\ s.answers # 0)
    <3>1. UNCHANGED <<wire, server>>
      BY <1>13, <2>3 DEF Cut, Network
    <3> HIDE DEF w, s, link
    <3>2. Fit(w, s, Released(turn), inTurn', link)
      BY <1>2, <1>3, <1>4, <2>3, ReleaseFits
    <3> QED
      BY <2>1, <3>1, <3>2 DEF w, s, link
  <2> QED
    BY <2>2, <2>3
<1> QED
  BY <1>7, <1>8, <1>9, <1>10, <1>11, <1>12, <1>13

\* The servers
LEMMA ServersFit ==
  ASSUME LinkInv, TurnRests, AnswerFits,
         Answer \/ \E c \in Connections : ServerHears(c) \/ ServerAnswers(c)
  PROVE  AnswerFits'
<1> SUFFICES ASSUME run' \in Watching, ~lost', ~crossed'
             PROVE  Fit(wire[serving], server[serving], turn, inTurn, socket[serving])'
  BY DEF AnswerFits, Serves
<1>1. UNCHANGED <<run, serving, lost, crossed, turn, inTurn, socket>>
  BY DEF Answer, ServerHears, ServerAnswers, ServerSpeaks, ServerFinishes, Says, Client,
         Coroutine, History
<1>2. /\ serving \in Connections /\ turn \in Turns /\ inTurn \in BOOLEAN
      /\ wire[serving] \in Seq(ServerEvents) /\ server[serving] \in Server
  BY <1>1, ServingType
<1> DEFINE w == wire[serving]
           s == server[serving]
<1>3. Fit(w, s, turn, inTurn, socket[serving])
  BY <1>1 DEF AnswerFits, Serves
<1>4. TurnFits(turn)
  BY DEF TurnRests
<1>5. PICK c \in Connections :
        ServerHears(c) \/ ServerAnswers(c) \/ ServerSpeaks(c) \/ ServerFinishes(c)
  BY DEF Answer
<1>6. c = serving /\ socket[serving] = "open"
  <2>1. socket[c] = "open"
    BY <1>5 DEF ServerHears, ServerAnswers, ServerSpeaks, ServerFinishes, Says
  <2> QED
    BY <1>1, <2>1, OneCarries
<1>7. CASE ServerHears(c)
  <2>1. /\ turn.streaming /\ s.hears # turn.n
        /\ wire'[serving] = Append(w, Sent("started", turn.n))
        /\ server'[serving] = [s EXCEPT !.hears = turn.n]
    BY <1>2, <1>6, <1>7 DEF ServerHears, Streams, Says, LinkInv, TypeOK
  <2> HIDE DEF w, s
  <2>2. Fit(wire'[serving], server'[serving], turn, inTurn, socket[serving])
    BY <1>2, <1>3, <1>4, <2>1, HearsFits DEF w, s
  <2> QED
    BY <1>1, <2>2
<1>8. CASE ServerAnswers(c)
  <2>1. /\ turn.streaming /\ s.hears = turn.n /\ ~Has(w, Sent("stopped", turn.n))
        /\ wire'[serving] = Append(w, Sent("stopped", turn.n))
        /\ server'[serving] = [s EXCEPT !.answers = turn.n]
    BY <1>2, <1>6, <1>8 DEF ServerAnswers, Streams, Says, LinkInv, TypeOK, Has
  <2> HIDE DEF w, s
  <2>2. Fit(wire'[serving], server'[serving], turn, inTurn, socket[serving])
    BY <1>2, <1>3, <1>4, <2>1, AnswersFits DEF w, s
  <2> QED
    BY <1>1, <2>2
<1>9. CASE ServerSpeaks(c) \/ ServerFinishes(c)
  <2>1. PICK type \in {"audio", "done"} :
          /\ s.answers # 0
          /\ wire'[serving] = Append(w, Sent(type, s.answers))
          /\ server'[serving] = IF type = "done" THEN [s EXCEPT !.answers = 0] ELSE s
    BY <1>2, <1>6, <1>9 DEF ServerSpeaks, ServerFinishes, Says, LinkInv, TypeOK
  <2> HIDE DEF w, s
  <2>2. Fit(wire'[serving], server'[serving], turn, inTurn, "open")
    <3>1. w \in Seq(ServerEvents) /\ s \in Server /\ Fit(w, s, turn, inTurn, "open")
      BY <1>2, <1>3, <1>6 DEF w, s
    <3>2. CASE type = "audio"
      BY <1>2, <2>1, <3>1, <3>2, SaysFits
    <3>3. CASE type = "done"
      BY <1>2, <2>1, <3>1, <3>3, SaysFits
    <3> QED
      BY <3>2, <3>3
  <2> QED
    BY <1>1, <1>6, <2>2
<1> QED
  BY <1>5, <1>7, <1>8, <1>9

\* The invariant holds at the start
LEMMA AnswerInvInit == Init => AnswerInv
  BY LinkInvInit DEF Init, AnswerInv, TurnRests, TurnFits, Asks, WiresRest, LossIsReal,
                     AnswerFits, Serves

\* Every step keeps it
LEMMA AnswerInvStep == AnswerInv /\ [Next]_vars => AnswerInv'
<1> SUFFICES ASSUME AnswerInv, [Next]_vars PROVE AnswerInv'
  OBVIOUS
<1> USE DEF AnswerInv
<1>1. LinkInv'
  BY LinkInvStep
<1>2. TurnRests' /\ WiresRest' /\ LossIsReal'
  BY TurnRestsStep, WiresRestStep, LossIsRealStep
<1>3. AnswerFits'
  BY CoroutineFits, ReadEventFits, TurnFit, ServersFit DEF Next, Read
<1> QED
  BY <1>1, <1>2, <1>3

\* So it always holds
LEMMA AnswerInvHolds == Spec => []AnswerInv
  BY AnswerInvInit, AnswerInvStep, PTL DEF Spec

\* However the events of the answers that were cut cross the next question,
\* while an answer arrives the session knows that a turn is under way.
THEOREM AnswerAlwaysInTurn == Spec => []AnswerIsInTurn
<1>1. AnswerInv => AnswerIsInTurn
  <2> SUFFICES ASSUME AnswerInv, run = "watch", ~lost, ~crossed, turn.phase = "sounding"
               PROVE  inTurn
    BY DEF AnswerIsInTurn
  <2>1. AnswerIsMarked(wire[serving], server[serving], turn, inTurn)
    BY DEF AnswerInv, AnswerFits, Serves, Fit
  <2> QED
    BY <2>1 DEF AnswerIsMarked, Has, Sent
<1> QED
  BY <1>1, AnswerInvHolds, PTL

\* A connection that is alive is never replaced while an answer arrives on it,
\* however old it is and however late an earlier loss was told.
THEOREM LiveAnswerAlwaysKept == Spec => LiveAnswerIsKept
<1> DEFINE Kept == run \in {"watch", "recheck"} /\ run' = "dial"
                     /\ socket[serving] = "open"
                     => turn.phase # "sounding" \/ crossed
<1>1. AnswerInv /\ [Next]_vars => [Kept]_vars
  <2> SUFFICES ASSUME AnswerInv, [Next]_vars, run \in {"watch", "recheck"},
                      run' = "dial", socket[serving] = "open",
                      turn.phase = "sounding", ~crossed
               PROVE  FALSE
    OBVIOUS
  <2>1. ~lost
    BY DEF AnswerInv, LossIsReal
  <2>2. ~(Start \/ Attempt \/ ReplaceLost \/ PutOff \/ Stop \/ Stopped)
    BY <2>1 DEF Start, Attempt, DialSucceeds, ShakeSucceeds, Swapped, SwappedLost,
                AttemptFails, Retry, ReplaceLost, PutOff, Stop, Stopped
  <2>3. ~(Read \/ Ask \/ Frame \/ NoQuestion \/ QuestionTooLong \/ Cut \/ Played)
    BY DEF Read, ReadEvent, ReadEnd, Ask, Frame, NoQuestion, QuestionTooLong, Cut,
           Played, Session, Coroutine
  <2>4. ~(\/ UNCHANGED vars \/ Drop \/ GrowOld \/ Answer
          \/ \E c \in Connections : ServerHears(c) \/ ServerAnswers(c))
    BY DEF vars, Drop, GrowOld, Answer, ServerHears, ServerAnswers, ServerSpeaks,
           ServerFinishes, Says, Client, Coroutine
  <2>5. Renew
    BY <2>2, <2>3, <2>4 DEF Next, Supervise
  <2>6. AnswerIsMarked(wire[serving], server[serving], turn, inTurn)
    BY <2>1 DEF AnswerInv, AnswerFits, Serves, Fit
  <2> QED
    BY <2>1, <2>5, <2>6 DEF Renew, AnswerIsMarked, Has, Sent
<1> QED
  BY <1>1, AnswerInvHolds, PTL DEF Spec, LiveAnswerIsKept
==============================================================================

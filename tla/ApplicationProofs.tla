--------------------------- MODULE ApplicationProofs ---------------------------
(***************************************************************************)
(* The application of Application.tla, for every set of phrases, takes and *)
(* passphrases, every queue and however often it is restarted: the key     *)
(* that is unlocked is read, the window is told, the test settles and does *)
(* not hear itself, and the microphone has one user.  The training and the *)
(* detector are proved in modules of their own and brought together here.  *)
(*                                                                         *)
(* Each part has an invariant over its own variables, kept by its own      *)
(* steps; the last section shows that every step of the application is,    *)
(* for each part, one of its steps or none.                                *)
(***************************************************************************)
EXTENDS Application, ClassStatesProofs, VoiceTrainingProofs, WakeWordProofs,
        FiniteSetTheorems

-----------------------------------------------------------------------------
(* The key *)

SettingsStep == SettingsRequests \/ SettingsRestart

\* The cipher is the one of the passphrase the program holds; and unless a save
\* failed or an unlock was overtaken, a passphrase it holds or is about to hold
\* opens the token, if the token needs one.
SettingsInv ==
  /\ SettingsType
  /\ cipher = CipherFor(passphrase)
  /\ ~unsaved /\ ~overtaken =>
       /\ token = "computer" => passphrase = NoPassphrase
       /\ token \in Passphrases => passphrase \in {NoPassphrase, token}
       /\ unlocking # NoPassphrase => token \in {"absent", unlocking}

LEMMA SettingsInitInv == SettingsInit => SettingsInv
BY SettingsAssumption DEF SettingsInit, SettingsInv, SettingsType, CipherFor

LEMMA SettingsStepInv ==
  ASSUME SettingsInv, [SettingsStep]_settingsVars
  PROVE  SettingsInv'
<1> USE SettingsAssumption DEF SettingsInv, SettingsType, CipherFor
<1>1. ASSUME NEW p \in Passphrases \cup {NoPassphrase}, SetKey(p) PROVE SettingsInv'
  <2>1. CASE p # NoPassphrase
    BY <1>1, <2>1 DEF SetKey
  <2>2. CASE p = NoPassphrase
    BY <1>1, <2>2 DEF SetKey
  <2> QED BY <2>1, <2>2
<1>2. CASE ClearKey
  BY <1>2 DEF ClearKey
<1>3. ASSUME NEW p \in Passphrases, UnlockTries(p) PROVE SettingsInv'
  BY <1>3 DEF UnlockTries
<1>4. CASE UnlockSets
  BY <1>4 DEF UnlockSets
<1>5. CASE SettingsRestart
  BY <1>5 DEF SettingsRestart
<1>6. CASE UNCHANGED settingsVars
  BY <1>6 DEF settingsVars
<1> QED BY <1>1, <1>2, <1>3, <1>4, <1>5, <1>6 DEF SettingsStep, SettingsRequests

LEMMA SettingsInvReads == SettingsInv => UnlockedKeyIsRead
BY SettingsAssumption
   DEF SettingsInv, SettingsType, UnlockedKeyIsRead, Unlocked, RequiresPassphrase,
       KeyRead, CipherFor

-----------------------------------------------------------------------------
(* The window *)

\* The window has been given the class as it is, or something that will make it
\* ask is on its way.
Coming == newest = moves \/ lost \/ socket = "closed" \/ OnItsWay

HubInv ==
  /\ HubType
  /\ moves <= MaxMoves /\ newest <= moves
  /\ \A n \in 0..MaxMoves : answers[n] > 0 => n <= moves
  /\ \A i \in 1..Len(wire) : wire[i].at <= moves
  /\ Coming

LEMMA HasAppended ==
  ASSUME NEW s \in Seq(Message), NEW x \in Message, NEW m
  PROVE  Has(Append(s, x), m) <=> Has(s, m) \/ x = m
<1>1. /\ Len(Append(s, x)) = Len(s) + 1 /\ Len(s) \in Nat
      /\ Append(s, x)[Len(s) + 1] = x
      /\ \A i \in 1..Len(s) : Append(s, x)[i] = s[i]
  OBVIOUS
<1>2. 1..Len(Append(s, x)) = (1..Len(s)) \cup {Len(s) + 1}
  BY <1>1
<1>3. Has(Append(s, x), m) <=>
        \/ \E i \in 1..Len(s) : Append(s, x)[i] = m
        \/ Append(s, x)[Len(s) + 1] = m
  BY <1>2 DEF Has
<1> QED
  BY <1>1, <1>3 DEF Has

LEMMA HasHeadOrTail ==
  ASSUME NEW s \in Seq(Message), s # <<>>, NEW m
  PROVE  Has(s, m) => Head(s) = m \/ Has(Tail(s), m)
<1> SUFFICES ASSUME NEW i \in 1..Len(s), s[i] = m
             PROVE  Head(s) = m \/ Has(Tail(s), m)
  BY DEF Has
<1>1. CASE i = 1
  BY <1>1
<1>2. CASE i # 1
  <2>1. i - 1 \in 1..Len(Tail(s)) /\ Tail(s)[i - 1] = s[i]
    BY <1>2
  <2> QED BY <2>1 DEF Has
<1> QED BY <1>1, <1>2

LEMMA HubInitInv == HubInit => HubInv
<1> SUFFICES ASSUME HubInit PROVE HubInv
  OBVIOUS
<1> USE HubAssumption DEF HubInit
<1>1. HubType
  BY DEF HubType
<1>2. Coming
  BY DEF Coming, OnItsWay
<1> QED BY <1>1, <1>2 DEF HubInv

\* Every step of the hub, the socket and the window keeps the invariant.
LEMMA HubStepInv ==
  ASSUME HubInv, [HubStep]_hubVars
  PROVE  HubInv'
<1> USE HubAssumption
<1>0. /\ moves \in Nat /\ texts \in Nat /\ asking \in Nat
      /\ loop \in Seq(Message) /\ queue \in Seq(Message) /\ Len(queue) <= QueueSize
      /\ wire \in Seq(Sent) /\ answers \in [0..MaxMoves -> Nat]
      /\ moves <= MaxMoves /\ newest \in 0..MaxMoves /\ newest <= moves
      /\ socket \in {"closed", "open"}
  BY DEF HubInv, HubType
<1>a. \A n \in 0..MaxMoves : answers[n] > 0 => n <= moves
  BY DEF HubInv
<1>b. /\ Len(wire) \in Nat
      /\ \A i \in 1..Len(wire) : wire[i] \in Sent /\ wire[i].at \in Nat /\ wire[i].at <= moves
  <2>1. Len(wire) \in Nat /\ \A i \in 1..Len(wire) : wire[i] \in Sent
    BY <1>0
  <2>2. \A m \in Sent : m.at \in Nat
    BY DEF Sent
  <2> QED BY <2>1, <2>2 DEF HubInv
<1>1. CASE Moves
  <2>1. /\ moves' = moves + 1 /\ moves' \in Nat /\ moves' <= MaxMoves
        /\ loop' = Append(loop, "move") /\ loop' \in Seq(Message)
        /\ UNCHANGED <<texts, queue, socket, wire, asking, answers, shown, newest,
                       lost, closes>>
    BY <1>0, <1>1 DEF Moves, Message
  <2>2. HubType'
    BY <2>1 DEF HubInv, HubType
  <2>3. Has(loop', "move")
    BY <1>0, <2>1, HasAppended DEF Message
  <2>4. Coming'
    BY <2>3 DEF Coming, OnItsWay
  <2>5. \A n \in 0..MaxMoves : answers'[n] > 0 => n <= moves'
    BY <1>0, <2>1 DEF HubInv
  <2>6. \A i \in 1..Len(wire') : wire'[i].at <= moves'
    BY <1>0, <1>b, <2>1
  <2> QED BY <1>0, <2>1, <2>2, <2>4, <2>5, <2>6 DEF HubInv
<1>2. CASE Tells
  <2>1. /\ texts' \in Nat
        /\ loop' = Append(loop, "text") /\ loop' \in Seq(Message)
        /\ UNCHANGED <<moves, queue, socket, wire, asking, answers, shown, newest,
                       lost, closes>>
    BY <1>0, <1>2 DEF Tells, Message
  <2>2. HubType'
    BY <2>1 DEF HubInv, HubType
  <2>3. Has(loop, "move") => Has(loop', "move")
    BY <1>0, <2>1, HasAppended DEF Message
  <2>4. Coming'
    BY <2>1, <2>3 DEF HubInv, Coming, OnItsWay, MoveSent, SnapshotSent
  <2> QED BY <2>1, <2>2, <2>4 DEF HubInv
<1>3. CASE Publish
  <2>1. /\ loop # <<>> /\ loop' = Tail(loop) /\ loop' \in Seq(Message)
        /\ Head(loop) \in Message
        /\ UNCHANGED <<moves, texts, socket, wire, asking, answers, shown, newest,
                       closes>>
    BY <1>0, <1>3 DEF Publish
  <2>2. Has(loop, "move") => Head(loop) = "move" \/ Has(loop', "move")
    BY <1>0, <2>1, HasHeadOrTail
  <2>3. CASE socket = "open" /\ Len(queue) < QueueSize
    <3>1. /\ queue' = Append(queue, Head(loop))
          /\ lost' = (lost /\ Head(loop) # "move")
      BY <1>3, <2>3 DEF Publish
    <3>2. queue' \in Seq(Message) /\ Len(queue') <= QueueSize
      BY <1>0, <2>1, <2>3, <3>1
    <3>3. Has(queue', "move") <=> Has(queue, "move") \/ Head(loop) = "move"
      BY <1>0, <2>1, <3>1, HasAppended
    <3>4. HubType'
      BY <2>1, <3>1, <3>2 DEF HubInv, HubType
    <3>5. Coming'
      BY <2>1, <2>2, <3>1, <3>3 DEF HubInv, Coming, OnItsWay, MoveSent, SnapshotSent
    <3> QED BY <2>1, <3>4, <3>5 DEF HubInv
  <2>4. CASE ~(socket = "open" /\ Len(queue) < QueueSize)
    <3>1. /\ UNCHANGED queue
          /\ lost' = \/ lost
                     \/ /\ socket = "open" /\ Head(loop) = "move"
                        /\ newest # moves /\ ~OnItsWay'
      BY <1>3, <2>4 DEF Publish
    <3>b. lost' \in BOOLEAN
      <4>1. CASE lost
        BY <3>1, <4>1
      <4>2. CASE ~lost
        BY <3>1, <4>2, Zenon
      <4> QED BY <4>1, <4>2
    <3>2. HubType'
      BY <2>1, <3>1, <3>b DEF HubInv, HubType
    <3>3. CASE Head(loop) = "move"
      <4>1. lost' \/ socket = "closed" \/ newest = moves \/ OnItsWay'
        BY <1>0, <3>1, <3>3, Zenon
      <4>2. Coming'
        BY <2>1, <4>1, Zenon DEF Coming
      <4> QED BY <2>1, <3>1, <3>2, <4>2 DEF HubInv
    <3>4. CASE Head(loop) # "move"
      <4>1. lost => lost'
        BY <3>1, Zenon
      <4> QED BY <2>1, <2>2, <3>1, <3>2, <3>4, <4>1 DEF HubInv, Coming, OnItsWay, MoveSent, SnapshotSent
    <3> QED BY <3>3, <3>4
  <2> QED BY <2>3, <2>4
<1>4. CASE Connect
  <2>1. /\ socket' = "open" /\ queue' = <<>> /\ lost' = FALSE
        /\ wire' = <<Snapshot(moves)>>
        /\ UNCHANGED <<moves, texts, loop, asking, answers, shown, newest, closes>>
    BY <1>4 DEF Connect
  <2>2. /\ Snapshot(moves) \in Sent
        /\ Snapshot(moves).kind = "snapshot" /\ Snapshot(moves).at = moves
    BY <1>0 DEF Snapshot, Sent
  <2>3. wire' \in Seq(Sent) /\ Len(wire') = 1 /\ wire'[1] = Snapshot(moves)
    BY <2>1, <2>2
  <2>4. queue' \in Seq(Message) /\ Len(queue') = 0
    BY <2>1
  <2>5. HubType'
    <3>a. QueueSize \in Nat
      OBVIOUS
    <3>b. Len(queue') <= QueueSize
      BY <2>4, <3>a
    <3>1. Len(queue') <= QueueSize /\ socket' \in {"closed", "open"} /\ lost' \in BOOLEAN
      BY <2>1, <3>b
    <3>2. UNCHANGED <<moves, texts, loop, asking, answers, shown, newest, closes>>
      BY <2>1
    <3> QED BY <2>3, <2>4, <3>1, <3>2 DEF HubInv, HubType
  <2>6. SnapshotSent'
    BY <2>1, <2>2, <2>3 DEF SnapshotSent
  <2>7. \A i \in 1..Len(wire') : wire'[i].at <= moves'
    BY <1>0, <2>1, <2>2, <2>3
  <2> QED BY <2>1, <2>5, <2>6, <2>7 DEF HubInv, Coming, OnItsWay
<1>5. CASE Send
  <2>1. /\ queue # <<>> /\ queue' = Tail(queue) /\ queue' \in Seq(Message)
        /\ Len(queue') <= QueueSize /\ Head(queue) \in Message
        /\ wire' = Append(wire, [kind |-> Head(queue), at |-> 0])
        /\ UNCHANGED <<moves, texts, loop, socket, asking, answers, shown, newest,
                       lost, closes>>
    BY <1>0, <1>5 DEF Send
  <2>2. [kind |-> Head(queue), at |-> 0] \in Sent
    BY <2>1 DEF Sent
  <2>3. /\ wire' \in Seq(Sent) /\ Len(wire') = Len(wire) + 1
        /\ wire'[Len(wire) + 1] = [kind |-> Head(queue), at |-> 0]
        /\ \A i \in 1..Len(wire) : wire'[i] = wire[i]
    BY <1>0, <2>1, <2>2
  <2>4. HubType'
    BY <2>1, <2>3 DEF HubInv, HubType
  <2>5. Has(queue, "move") => Has(queue', "move") \/ MoveSent'
    <3>1. Has(queue, "move") => Head(queue) = "move" \/ Has(queue', "move")
      BY <1>0, <2>1, HasHeadOrTail
    <3>2. Head(queue) = "move" => MoveSent'
      BY <1>b, <2>3 DEF MoveSent
    <3> QED BY <3>1, <3>2
  <2>6. (MoveSent => MoveSent') /\ (SnapshotSent => SnapshotSent')
    BY <1>0, <2>1, <2>3 DEF MoveSent, SnapshotSent
  <2>7. \A i \in 1..Len(wire') : wire'[i].at <= moves'
    <3> SUFFICES ASSUME NEW i \in 1..Len(wire') PROVE wire'[i].at <= moves
      BY <2>1
    <3>1. CASE i = Len(wire) + 1
      BY <1>0, <2>3, <3>1
    <3>2. CASE i # Len(wire) + 1
      BY <1>b, <2>3, <3>2
    <3> QED BY <3>1, <3>2
  <2>8. Coming'
    BY <2>1, <2>5, <2>6 DEF HubInv, Coming, OnItsWay
  <2> QED BY <2>1, <2>4, <2>7, <2>8 DEF HubInv
<1>6. CASE Disconnect
  <2>1. /\ socket' = "closed" /\ queue' = <<>> /\ wire' = <<>>
        /\ closes' = closes + 1 /\ closes < MaxCloses
        /\ UNCHANGED <<moves, texts, loop, asking, answers, shown, newest, lost>>
    BY <1>6 DEF Disconnect
  <2>2. HubType'
    BY <2>1 DEF HubInv, HubType
  <2> QED BY <2>1, <2>2 DEF HubInv, Coming, OnItsWay
<1>7. CASE Serve
  <2>1. /\ asking' = asking - 1 /\ asking' \in Nat
        /\ answers' = [answers EXCEPT ![moves] = @ + 1]
        /\ UNCHANGED <<moves, texts, loop, queue, socket, wire, shown, newest, lost,
                       closes>>
    BY <1>0, <1>7 DEF Serve
  <2>2. /\ answers' \in [0..MaxMoves -> Nat] /\ answers'[moves] > 0
        /\ \A n \in 0..MaxMoves : answers'[n] > 0 => n <= moves
    <3>1. moves \in 0..MaxMoves /\ answers[moves] + 1 \in Nat \ {0}
      BY <1>0
    <3>2. answers' \in [0..MaxMoves -> Nat] /\ answers'[moves] = answers[moves] + 1
      BY <1>0, <2>1, <3>1
    <3>3. \A n \in 0..MaxMoves : n # moves => answers'[n] = answers[n]
      BY <1>0, <2>1
    <3> QED BY <1>0, <1>a, <3>1, <3>2, <3>3
  <2>3. HubType'
    BY <2>1, <2>2 DEF HubInv, HubType
  <2> QED BY <2>1, <2>2, <2>3 DEF HubInv, Coming, OnItsWay
<1>8. CASE Reads
  <2>1. /\ wire # <<>> /\ wire' = Tail(wire) /\ Head(wire) = wire[1]
        /\ asking' = IF Head(wire).kind = "move" THEN asking + 1 ELSE asking
        /\ asking' \in Nat
        /\ UNCHANGED <<moves, texts, loop, queue, socket, answers, lost, closes>>
    BY <1>0, <1>8 DEF Reads
  <2>2. /\ wire' \in Seq(Sent) /\ Len(wire') = Len(wire) - 1 /\ Len(wire) \in Nat
        /\ \A i \in 1..Len(wire') : wire'[i] = wire[i + 1]
        /\ 1 \in 1..Len(wire)
    BY <1>0, <2>1
  <2>3. wire[1] \in Sent /\ wire[1].at \in Nat /\ wire[1].at <= moves
    BY <1>b, <2>2
  <2>4. /\ shown' \in 0..MaxMoves /\ newest' \in 0..MaxMoves
        /\ newest <= newest' /\ newest' <= moves
        /\ Head(wire).kind = "snapshot" => wire[1].at <= newest'
    <3>1. CASE Head(wire).kind = "snapshot"
      BY <1>0, <1>8, <2>1, <2>3, <3>1 DEF Reads, Show
    <3>2. CASE Head(wire).kind # "snapshot"
      BY <1>0, <1>8, <3>2 DEF Reads, HubInv, HubType
    <3> QED BY <3>1, <3>2
  <2>5. HubType'
    BY <2>1, <2>2, <2>4 DEF HubInv, HubType
  <2>6. \A i \in 1..Len(wire') : wire'[i].at <= moves'
    BY <1>0, <2>1, <2>2 DEF HubInv
  <2>7. ASSUME NEW i \in 1..Len(wire), i # 1
        PROVE  i - 1 \in 1..Len(wire') /\ wire'[i - 1] = wire[i]
    BY <2>2, <2>7
  <2>8. MoveSent => MoveSent' \/ asking' > 0
    <3> SUFFICES ASSUME NEW i \in 1..Len(wire), wire[i].kind = "move"
                 PROVE  MoveSent' \/ asking' > 0
      BY DEF MoveSent
    <3>1. CASE i = 1
      BY <1>0, <2>1, <3>1
    <3>2. CASE i # 1
      BY <2>7, <3>2 DEF MoveSent
    <3> QED BY <3>1, <3>2
  <2>9. SnapshotSent => SnapshotSent' \/ newest' = moves'
    <3> SUFFICES ASSUME NEW i \in 1..Len(wire),
                        wire[i].kind = "snapshot", wire[i].at = moves
                 PROVE  SnapshotSent' \/ newest' = moves'
      BY DEF SnapshotSent
    <3>1. CASE i = 1
      BY <1>0, <2>1, <2>4, <3>1
    <3>2. CASE i # 1
      BY <2>1, <2>7, <3>2 DEF SnapshotSent
    <3> QED BY <3>1, <3>2
  <2>10. (newest = moves => newest' = moves') /\ (asking > 0 => asking' > 0)
    BY <1>0, <2>1, <2>4
  <2>11. Coming'
    BY <2>1, <2>8, <2>9, <2>10 DEF HubInv, Coming, OnItsWay
  <2> QED BY <1>0, <2>1, <2>4, <2>5, <2>6, <2>11 DEF HubInv
<1>9. CASE Arrives
  <2>1. PICK n \in 0..MaxMoves :
          /\ answers[n] > 0
          /\ answers' = [answers EXCEPT ![n] = @ - 1]
          /\ Show(n)
    BY <1>9 DEF Arrives
  <2>2. UNCHANGED <<moves, texts, loop, queue, socket, wire, asking, lost, closes>>
    BY <1>9 DEF Arrives
  <2>3. n <= moves /\ n \in Nat
    BY <1>0, <2>1 DEF HubInv
  <2>4. /\ shown' \in 0..MaxMoves /\ newest' \in 0..MaxMoves
        /\ newest <= newest' /\ newest' <= moves /\ n <= newest'
    BY <1>0, <2>1, <2>3 DEF Show
  <2>5. /\ answers' \in [0..MaxMoves -> Nat]
        /\ \A k \in 0..MaxMoves : answers'[k] > 0 => k <= moves
        /\ n # moves => answers'[moves] = answers[moves]
    <3>0. answers[n] \in Nat /\ answers[n] > 0
      BY <1>0, <2>1
    <3>1. answers[n] - 1 \in Nat
      BY <3>0
    <3>2. answers' \in [0..MaxMoves -> Nat]
      BY <1>0, <2>1, <3>1
    <3>3. \A k \in 0..MaxMoves : k # n => answers'[k] = answers[k]
      BY <1>0, <2>1
    <3>4. moves \in 0..MaxMoves
      BY <1>0
    <3> QED BY <1>a, <2>3, <3>2, <3>3, <3>4
  <2>6. HubType'
    BY <2>2, <2>4, <2>5 DEF HubInv, HubType
  <2>7. newest = moves \/ n = moves => newest' = moves'
    BY <1>0, <2>2, <2>3, <2>4
  <2>8. Coming'
    BY <2>2, <2>5, <2>7 DEF HubInv, Coming, OnItsWay, MoveSent, SnapshotSent
  <2> QED BY <1>0, <2>2, <2>4, <2>5, <2>6, <2>8 DEF HubInv
<1>10. CASE RefreshFails
  <2>1. /\ lost' = (lost \/ (newest # moves /\ ~OnItsWay'))
        /\ UNCHANGED <<moves, texts, loop, queue, socket, wire, shown, newest, closes>>
    BY <1>10 DEF RefreshFails
  <2>2. /\ asking' \in Nat /\ answers' \in [0..MaxMoves -> Nat]
        /\ \A k \in 0..MaxMoves : answers'[k] > 0 => k <= moves
    <3>1. CASE asking > 0 /\ asking' = asking - 1 /\ UNCHANGED answers
      BY <1>0, <1>a, <3>1
    <3>2. CASE \E n \in 0..MaxMoves :
                 /\ answers[n] > 0
                 /\ answers' = [answers EXCEPT ![n] = @ - 1]
                 /\ UNCHANGED asking
      <4>1. PICK n \in 0..MaxMoves : /\ answers[n] > 0
                                     /\ answers' = [answers EXCEPT ![n] = @ - 1]
                                     /\ UNCHANGED asking
        BY <3>2
      <4>2. answers[n] \in Nat /\ answers[n] > 0
        BY <1>0, <4>1
      <4>3. answers[n] - 1 \in Nat
        BY <4>2
      <4>4. answers' \in [0..MaxMoves -> Nat]
        BY <1>0, <4>1, <4>3
      <4>5. \A k \in 0..MaxMoves : k # n => answers'[k] = answers[k]
        BY <1>0, <4>1
      <4> QED BY <1>0, <1>a, <4>1, <4>4, <4>5
    <3> QED BY <1>10, <3>1, <3>2 DEF RefreshFails
  <2>3. lost' \in BOOLEAN
    <3>1. CASE newest # moves /\ ~OnItsWay'
      BY <2>1, <3>1
    <3>2. CASE ~(newest # moves /\ ~OnItsWay')
      BY <2>1, <3>2 DEF HubInv, HubType
    <3> QED BY <3>1, <3>2
  <2>4. HubType'
    BY <2>1, <2>2, <2>3 DEF HubInv, HubType
  <2>5. newest = moves \/ lost' \/ OnItsWay'
    BY <2>1, Zenon
  <2>6. Coming'
    BY <2>1, <2>5, Zenon DEF Coming
  <2> QED BY <1>0, <1>b, <2>1, <2>2, <2>4, <2>6 DEF HubInv
<1>11. CASE UNCHANGED hubVars
  BY <1>11 DEF hubVars, HubInv, HubType, Coming, OnItsWay, MoveSent, SnapshotSent
<1> QED
  BY <1>1, <1>2, <1>3, <1>4, <1>5, <1>6, <1>7, <1>8, <1>9, <1>10, <1>11 DEF HubStep

LEMMA HubInvTells == HubInv => WindowIsTold
<1> SUFFICES ASSUME HubInv, Quiet, ~lost PROVE newest = moves
  BY DEF WindowIsTold
<1>1. ~MoveSent /\ ~SnapshotSent
  BY DEF Quiet, MoveSent, SnapshotSent
<1>2. ~(answers[moves] > 0) /\ ~(asking > 0)
  BY DEF Quiet, HubInv, HubType
<1> QED BY <1>1, <1>2 DEF HubInv, Coming, OnItsWay, Quiet

-----------------------------------------------------------------------------
(* The conversation test *)

\* What Restart makes of the test.
ProbeForgotten ==
  /\ test' = "IDLE" /\ task' = "none" /\ checking' = FALSE
  /\ cancelling' = FALSE /\ probeMic' = FALSE /\ link' = FALSE /\ heard' = {}
  /\ committed' = FALSE /\ outcome' = "none" /\ pieces' = FALSE
  /\ speakers' = "none" /\ late' = FALSE

ProbeOwnStep ==
  \/ ProbeTask \/ ProbeEvents
  \/ \E inUse \in BOOLEAN : ProbeRequests(inUse)
  \/ ProbeForgotten

\* The microphone is open between the session and the answer; what the window
\* shows is settled when the task closes its session; and the loudspeakers are
\* quiet from the check of a test until its question has ended, because nobody
\* is connected while it opens and nothing can be played again.
ProbeInv ==
  /\ ProbeType
  /\ probeMic => task \in {"speech", "question"}
  /\ task \in {"closing", "over"} => late \/ test \in {"IDLE", "DONE", "FAILED"}
  /\ checking => ~link /\ ~ProbeRunning
  /\ task = "opening" => ~link /\ test = "CONNECTING" /\ ~Playing /\ ~Asked
  /\ task \in {"speech", "question"} => test # "DONE" /\ (Playing => Asked)

LEMMA ProbeInitInv == ProbeInit => ProbeInv
BY DEF ProbeInit, ProbeInv, ProbeType, ProbeState, Steps, Speakers, Playing, Asked,
       ProbeRunning

LEMMA ProbeTaskInv ==
  ASSUME ProbeInv, ProbeTask
  PROVE  ProbeInv'
<1> USE DEF ProbeInv, ProbeType, ProbeState, Steps, Speakers, Playing, Asked,
            ProbeRunning
<1>1. CASE ProbeStart
  BY <1>1 DEF ProbeStart
<1>2. CASE SessionOpens
  BY <1>2 DEF SessionOpens
<1>3. CASE SessionFails
  BY <1>3 DEF SessionFails, Fails
<1>4. CASE MicrophoneFails
  BY <1>4 DEF MicrophoneFails
<1>5. CASE QuestionHeard
  BY <1>5 DEF QuestionHeard
<1>6. CASE NoQuestionHeard
  BY <1>6 DEF NoQuestionHeard, Fails
<1>7. CASE QuestionOver
  BY <1>7 DEF QuestionOver, StopsListening
<1>8. CASE QuestionCommitted
  BY <1>8 DEF QuestionCommitted, StopsListening
<1>9. CASE AnswerOver
  BY <1>9 DEF AnswerOver
<1>10. CASE AnswerTimesOut
  BY <1>10 DEF AnswerTimesOut, Fails
<1>11. CASE Closes
  BY <1>11 DEF Closes, Settled
<1>12. CASE ReaderEnds
  BY <1>12 DEF ReaderEnds
<1> QED
  BY <1>1, <1>2, <1>3, <1>4, <1>5, <1>6, <1>7, <1>8, <1>9, <1>10, <1>11, <1>12 DEF ProbeTask

LEMMA ProbeEventsInv ==
  ASSUME ProbeInv, ProbeEvents
  PROVE  ProbeInv'
<1> USE DEF ProbeInv, ProbeType, ProbeState, Steps, Speakers, Playing, Asked,
            ProbeRunning
<1>1. CASE HearsSpeech
  BY <1>1 DEF HearsSpeech
<1>2. CASE HearsSilence
  BY <1>2 DEF HearsSilence
<1>3. CASE AnswerPiece
  BY <1>3 DEF AnswerPiece
<1>4. CASE AnswerDone
  BY <1>4 DEF AnswerDone
<1> QED
  BY <1>1, <1>2, <1>3, <1>4 DEF ProbeEvents

LEMMA ProbeRequestsInv ==
  ASSUME ProbeInv, NEW inUse \in BOOLEAN, ProbeRequests(inUse)
  PROVE  ProbeInv'
<1> USE DEF ProbeInv, ProbeType, ProbeState, Steps, Speakers, Playing, Asked,
            ProbeRunning
<1>1. CASE ProbeCheck(inUse)
  BY <1>1 DEF ProbeCheck
<1>2. CASE ProbeHasNoKey
  BY <1>2 DEF ProbeHasNoKey
<1>3. CASE Cancel
  BY <1>3 DEF Cancel, Cut
<1>4. CASE CancelClosing
  BY <1>4 DEF CancelClosing, Settled
<1>5. CASE AnswerPlayed
  BY <1>5 DEF AnswerPlayed, Hears
<1>6. CASE PlayAgain
  BY <1>6 DEF PlayAgain, Hears
<1>7. CASE StopAnswer
  BY <1>7 DEF StopAnswer, Hears
<1> QED
  BY <1>1, <1>2, <1>3, <1>4, <1>5, <1>6, <1>7 DEF ProbeRequests

LEMMA ProbeStepInv ==
  ASSUME ProbeInv, [ProbeOwnStep]_probeVars
  PROVE  ProbeInv'
<1>1. CASE ProbeForgotten
  BY <1>1
     DEF ProbeForgotten, ProbeInv, ProbeType, ProbeState, Steps, Speakers, Playing, Asked,
         ProbeRunning
<1>2. CASE UNCHANGED probeVars
  BY <1>2 DEF probeVars, ProbeInv, ProbeType, Playing, Asked, ProbeRunning
<1> QED
  BY <1>1, <1>2, ProbeTaskInv, ProbeEventsInv, ProbeRequestsInv DEF ProbeOwnStep

LEMMA ProbeInvSettles == ProbeInv => ProbeSettles
BY DEF ProbeInv, ProbeSettles

LEMMA ProbeInvHears == ProbeInv => DoesNotHearItself
BY DEF ProbeInv, DoesNotHearItself

-----------------------------------------------------------------------------
(* The microphone *)

\* Who holds the microphone says so where the others ask, but for a class whose
\* endpoint is under way; and nobody who passed a check in the open is there with
\* another.
MicInv ==
  /\ takeMic => taker # None
  /\ taker # None => recording
  /\ class \in State
  /\ door \in {"still", "starting", "opened", "closing", "stopping"}
  /\ classMic => door \in {"opened", "closing"} \/ (door = "still" /\ ClassHolds)
  /\ door \in {"starting", "opened"} => class \in {"READY", "PAUSED"}
  /\ ~crossed =>
       /\ classMic => ~ProbeRunning /\ ~checking /\ ~recording
       /\ ProbeRunning \/ checking => ~recording

\* What the others see of the test and of a take.
ProbeSeen == <<task, checking>>
TakeSeen == <<taker, takeMic, recording>>
ClassSeen == <<class, door, classMic>>

LEMMA MicInitInv ==
  ASSUME ProbeInit, VoiceInit, class = "READY", door = "still", classMic = FALSE
  PROVE  MicInv
BY DEF ProbeInit, VoiceInit, MicInv, State, ProbeRunning

\* A class that starts or resumes is in class from then on.
LEMMA OpenedIsInClass ==
  ASSUME class \in {"READY", "PAUSED"}
  PROVE  TryDispatch(class, IF class = "PAUSED" THEN "RESUME" ELSE "START_CLASS")
           = "PASSIVE_LISTENING"
<1>1. class \in State
  BY DEF State
<1>2. CASE class = "PAUSED"
  BY <1>1, <1>2, ResumeMove
<1>3. CASE class = "READY"
  BY <1>1, <1>3, StartClassMove
<1> QED BY <1>2, <1>3

LEMMA ClassStepKeepsMic ==
  ASSUME MicInv, ClassStep, UNCHANGED ProbeSeen, UNCHANGED TakeSeen
  PROVE  MicInv'
<1> USE DEF MicInv, ProbeSeen, TakeSeen, ProbeRunning, ClassHolds
<1>0. class \in State /\ "PASSIVE_LISTENING" \in MicActive /\ MicActive \subseteq State
  BY DEF State, MicActive
<1>1. CASE PrepareClass
  BY <1>1 DEF PrepareClass, State, MicActive
<1>2. CASE AskStart
  BY <1>2 DEF AskStart, State, MicActive
<1>3. CASE SessionRefused
  BY <1>3 DEF SessionRefused, State, MicActive
<1>4. CASE AskResume
  BY <1>4 DEF AskResume, State, MicActive
<1>5. CASE OpenMicrophone
  BY <1>5 DEF OpenMicrophone, InUseForClass, ProbeUnseen
<1>6. CASE MicrophoneRefused
  <2>1. class' \in State
    BY <1>0, <1>6, DispatchType DEF MicrophoneRefused
  <2>2. ~classMic
    BY <1>6 DEF MicrophoneRefused
  <2> QED BY <1>6, <2>1, <2>2 DEF MicrophoneRefused
<1>7. CASE SayOpen
  <2>1. class' = "PASSIVE_LISTENING"
    BY <1>7, OpenedIsInClass DEF SayOpen
  <2> QED BY <1>0, <1>7, <2>1 DEF SayOpen
<1>8. CASE Pause
  <2>1. class' \in State
    BY <1>0, <1>8, DispatchType DEF Pause
  <2> QED BY <1>8, <2>1 DEF Pause
<1>9. CASE PauseCloses
  BY <1>9 DEF PauseCloses
<1>10. CASE StopCloses
  BY <1>10 DEF StopCloses
<1>11. CASE SayStopped
  <2>1. class' \in State
    BY <1>0, <1>11, DispatchType DEF SayStopped
  <2>2. ~classMic
    BY <1>11 DEF SayStopped
  <2> QED BY <1>11, <2>1, <2>2 DEF SayStopped
<1> QED
  BY <1>1, <1>2, <1>3, <1>4, <1>5, <1>6, <1>7, <1>8, <1>9, <1>10, <1>11 DEF ClassStep

\* No step of the test but its check makes it one the others have to wait for.
LEMMA ProbeBusy ==
  ASSUME ProbeTask \/ ProbeEvents \/ ProbeHasNoKey \/ Cancel \/ CancelClosing
           \/ AnswerPlayed \/ PlayAgain \/ StopAnswer
  PROVE  ProbeRunning' \/ checking' => ProbeRunning \/ checking
<1> USE DEF ProbeRunning
<1>1. CASE ProbeTask
  BY <1>1 DEF ProbeTask, ProbeStart, SessionOpens, SessionFails, MicrophoneFails,
     QuestionHeard, NoQuestionHeard, QuestionOver, QuestionCommitted, AnswerOver,
     AnswerTimesOut, Closes, ReaderEnds, Fails, StopsListening
<1>2. CASE ProbeEvents
  BY <1>2 DEF ProbeEvents, HearsSpeech, HearsSilence, AnswerPiece, AnswerDone
<1>3. CASE ProbeHasNoKey \/ Cancel \/ CancelClosing \/ AnswerPlayed \/ PlayAgain \/ StopAnswer
  BY <1>3 DEF ProbeHasNoKey, Cancel, CancelClosing, AnswerPlayed, PlayAgain,
     StopAnswer, Hears
<1> QED BY <1>1, <1>2, <1>3

LEMMA ProbeStepKeepsMic ==
  ASSUME MicInv, ProbeStep, UNCHANGED TakeSeen, UNCHANGED ClassSeen
  PROVE  MicInv'
<1> USE DEF TakeSeen, ClassSeen
<1>1. CASE ProbeCheck(InUseForProbe)
  <2>1. /\ ~ProbeRunning /\ ~ClassHolds /\ ~recording /\ ~checking
        /\ checking' /\ UNCHANGED task
    BY <1>1 DEF ProbeCheck, InUseForProbe
  <2>2. crossed' = (crossed \/ (checking' /\ ~checking /\ ClassUnseen))
    BY <1>1, <2>1 DEF ProbeStep, ProbeTask, ProbeEvents, ProbeStart, SessionOpens,
       SessionFails, MicrophoneFails, QuestionHeard, NoQuestionHeard, QuestionOver,
       QuestionCommitted, AnswerOver, AnswerTimesOut, Closes, ReaderEnds, Fails,
       StopsListening, HearsSpeech, HearsSilence, AnswerPiece, AnswerDone
  <2> QED BY <2>1, <2>2 DEF MicInv, ProbeRunning, ClassHolds, ClassUnseen
<1>2. CASE ProbeTask \/ ProbeEvents \/ ProbeHasNoKey \/ Cancel \/ CancelClosing
             \/ AnswerPlayed \/ PlayAgain \/ StopAnswer
  <2>1. ProbeRunning' \/ checking' => ProbeRunning \/ checking
    BY <1>2, ProbeBusy
  <2>2. crossed => crossed'
    BY DEF ProbeStep
  <2> QED BY <2>1, <2>2 DEF MicInv, ClassHolds
<1> QED BY <1>1, <1>2 DEF ProbeStep, ProbeRequests

LEMMA TakeStepKeepsMic ==
  ASSUME MicInv, VoiceType, TakeStep, UNCHANGED ProbeSeen, UNCHANGED ClassSeen
  PROVE  MicInv'
<1> USE DEF ProbeSeen, ClassSeen, ProbeRunning, ClassHolds, MicInv
<1>1. CASE TakeThread /\ UNCHANGED crossed
  BY <1>1 DEF TakeThread, TakeOpens, TakeFails, TakeEnds, TakeKept
<1>2. ASSUME NEW s \in Slots, TakeAsked(s, InUseForVoice) \/ Forget(s),
             crossed' = (crossed \/ (recording' /\ ~recording
                                       /\ (ClassUnseen \/ ProbeUnseen)))
      PROVE  MicInv'
  <2>1. CASE Forget(s)
    <3>1. UNCHANGED TakeSeen /\ (crossed => crossed')
      BY <1>2, <2>1 DEF Forget, TakeSeen
    <3> QED BY <3>1 DEF TakeSeen
  <2>2. CASE TakeAsked(s, InUseForVoice)
    <3>1. /\ ~recording /\ ~class \in MicActive /\ ~(task \notin {"none", "over"})
          /\ recording' /\ UNCHANGED takeMic
          /\ ~crossed' => ~crossed /\ door = "still" /\ ~checking
      BY <1>2, <2>2 DEF TakeAsked, InUseForVoice, ClassUnseen, ProbeUnseen
    <3> QED BY <3>1
  <2> QED BY <1>2, <2>1, <2>2
<1> QED BY <1>1, <1>2 DEF TakeStep, TakeRequests

\* Two users never hold it together unless one of them crossed another.
LEMMA MicInvExcludes ==
  ASSUME MicInv, ProbeInv
  PROVE  OneMicrophoneUser
<1> SUFFICES ASSUME ~crossed PROVE Cardinality(Users) <= 1
  BY DEF OneMicrophoneUser
<1>1. probeMic => ProbeRunning
  BY DEF ProbeInv, ProbeRunning
<1>2. takeMic => recording
  BY DEF MicInv
<1>3. ~(classMic /\ probeMic) /\ ~(classMic /\ takeMic) /\ ~(probeMic /\ takeMic)
  BY <1>1, <1>2 DEF MicInv
<1>4. Users = {} \/ \E u : Users = {u}
  <2>1. CASE classMic
    <3>1. Users = {"class"}
      BY <1>3, <2>1 DEF Users
    <3> QED BY <3>1
  <2>2. CASE probeMic
    <3>1. Users = {"test"}
      BY <1>3, <2>2 DEF Users
    <3> QED BY <3>1
  <2>3. CASE takeMic
    <3>1. Users = {"take"}
      BY <1>3, <2>3 DEF Users
    <3> QED BY <3>1
  <2>4. CASE ~classMic /\ ~probeMic /\ ~takeMic
    BY <2>4 DEF Users
  <2> QED BY <2>1, <2>2, <2>3, <2>4
<1>5. CASE Users = {}
  <2>1. Cardinality(Users) = 0
    BY <1>5, FS_EmptySet
  <2> QED BY <2>1
<1>6. ASSUME NEW u, Users = {u} PROVE Cardinality(Users) <= 1
  <2>1. Cardinality(Users) = 1
    BY <1>6, FS_Singleton
  <2> QED BY <2>1
<1> QED BY <1>4, <1>5, <1>6

-----------------------------------------------------------------------------
(* The diagnostics *)

\* The troubles that fail each check, but for those another one hides.
LocalFatal(T) == T \cap (NeedsSound \cup ModelTroubles) # {}
ServerFatal(T) == T \cap ServerTroubles # {}
DnsFatal(T) == T \cap {"dns silent", "dns unknown"} # {}
TlsFatal(T) ==
  \/ T \cap {"certificate untrusted", "port closed"} # {}
  \/ /\ "certificate expired" \in T
     /\ "traffic inspected" \notin T /\ "certificate undated" \notin T
ApiFatal(T) ==
  T \cap {"api silent", "api unreachable", "key rejected", "api incident"} # {}
HandshakeTroubles ==
  {"socket silent", "socket refused", "HTTP 401", "HTTP 404", "HTTP other",
   "not JSON", "unknown model", "other event", "session silent"}
SessionFatal(T) ==
  \/ "no import" \in T
  \/ Handshake(T) # "BLOCKED" /\ T \cap HandshakeTroubles # {}

LEMMA LocalVerdict ==
  ASSUME NEW T
  PROVE  LocalFatal(T) <=> \/ Blocking(CheckMicrophone(T)) \/ Blocking(CheckSpeakers(T))
                           \/ Blocking(CheckWakewordModel(T))
BY DEF LocalFatal, Blocking, CheckMicrophone, CheckSpeakers, CheckWakewordModel,
   Failing, Any, NeedsSound, NoInventory, ModelTroubles

LEMMA NetworkVerdicts ==
  ASSUME NEW T
  PROVE  /\ ServerFatal(T) <=> Blocking(CheckLocalServer(T))
         /\ DnsFatal(T) <=> Blocking(CheckDns(T))
         /\ TlsFatal(T) <=> Blocking(CheckTls(T))
         /\ ApiFatal(T) <=> Blocking(CheckApiKey(T))
<1>1. ServerFatal(T) <=> Blocking(CheckLocalServer(T))
  BY DEF ServerFatal, Blocking, CheckLocalServer, Failing, Any
<1>2. DnsFatal(T) <=> Blocking(CheckDns(T))
  BY DEF DnsFatal, Blocking, CheckDns, Failing, Any
<1>3. TlsFatal(T) <=> Blocking(CheckTls(T))
  BY DEF TlsFatal, Blocking, CheckTls, Failing, Any
<1>4. ApiFatal(T) <=> Blocking(CheckApiKey(T))
  BY DEF ApiFatal, Blocking, CheckApiKey, Failing, Any
<1> QED BY <1>1, <1>2, <1>3, <1>4

\* A handshake that is neither accepted nor refused for now has a trouble of its
\* own, and one that is accepted has none.
LEMMA SessionVerdict ==
  ASSUME NEW T
  PROVE  SessionFatal(T) <=> Blocking(CheckRealtime(T))
<1>1. Handshake(T) = "OK" => T \cap HandshakeTroubles = {}
  BY DEF Handshake, HandshakeTroubles
<1>2. Handshake(T) \notin {"OK", "BLOCKED"} => T \cap HandshakeTroubles # {}
  BY DEF Handshake, HandshakeTroubles
<1> HIDE DEF Handshake
<1>3. CASE "no import" \in T
  BY <1>3 DEF SessionFatal, Blocking, CheckRealtime
<1>4. CASE "no import" \notin T /\ Handshake(T) = "OK"
  <2>1. Failing(T, {}, {"slow network", "slow session"}) # "FAILED"
    BY DEF Failing, Any
  <2> QED BY <1>1, <1>4, <2>1 DEF SessionFatal, Blocking, CheckRealtime
<1>5. CASE "no import" \notin T /\ Handshake(T) = "BLOCKED"
  BY <1>5 DEF SessionFatal, Blocking, CheckRealtime
<1>6. CASE "no import" \notin T /\ Handshake(T) \notin {"OK", "BLOCKED"}
  BY <1>2, <1>6 DEF SessionFatal, Blocking, CheckRealtime
<1> QED BY <1>3, <1>4, <1>5, <1>6

\* What each provider needs, check by check.
LEMMA NeedsOfOpenAi ==
  NeedsOpenAi = {"dns silent", "dns unknown"}
                  \cup {"certificate untrusted", "port closed", "certificate expired"}
                  \cup {"no key", "key sealed"}
                  \cup {"api silent", "api unreachable", "key rejected", "api incident"}
                  \cup ({"no import"} \cup HandshakeTroubles)
BY DEF NeedsOpenAi, NetworkTroubles, KeyTroubles, SessionTroubles, HandshakeTroubles

LEMMA NeedsLocal ==
  ASSUME provider = "local"
  PROVE  troubles \cap Needs \subseteq Hidden <=> ~LocalFatal(troubles) /\ ~ServerFatal(troubles)
<1>1. Needs = NeedsSound \cup ModelTroubles \cup ServerTroubles
  BY DEF Needs
<1>2. Needs \cap Hidden = {}
  BY <1>1 DEF Hidden, NeedsSound, NoInventory, ModelTroubles, ServerTroubles,
     SessionTroubles
<1> QED BY <1>1, <1>2 DEF LocalFatal, ServerFatal

OpenAiFatal(T) ==
  \/ LocalFatal(T) \/ DnsFatal(T) \/ TlsFatal(T) \/ KeyUnusable(T) \/ ApiFatal(T)
  \/ SessionFatal(T)

LEMMA NeedsRemote ==
  ASSUME provider = "openai"
  PROVE  troubles \cap Needs \subseteq Hidden <=> ~OpenAiFatal(troubles)
<1> DEFINE Plain == NeedsSound \cup ModelTroubles \cup {"dns silent", "dns unknown"}
                      \cup {"certificate untrusted", "port closed"}
                      \cup {"no key", "key sealed"}
                      \cup {"api silent", "api unreachable", "key rejected", "api incident"}
                      \cup {"no import"}
<1>1. Needs = Plain \cup {"certificate expired"} \cup HandshakeTroubles
  BY NeedsOfOpenAi DEF Needs
<1>2. Plain \cap Hidden = {}
  BY DEF Hidden, NeedsSound, NoInventory, ModelTroubles, SessionTroubles
<1>3. "certificate expired" \in Hidden
        <=> "traffic inspected" \in troubles \/ "certificate undated" \in troubles
  BY DEF Hidden, SessionTroubles
<1>4. \A t \in HandshakeTroubles : t \in Hidden <=> Handshake(troubles) = "BLOCKED"
  <2>1. HandshakeTroubles \subseteq SessionTroubles \ {"no import"}
    BY DEF HandshakeTroubles, SessionTroubles
  <2>2. "certificate expired" \notin HandshakeTroubles
    BY DEF HandshakeTroubles
  <2> QED BY <2>1, <2>2 DEF Hidden
<1>5. troubles \cap Needs \subseteq Hidden <=>
        /\ troubles \cap Plain = {}
        /\ "certificate expired" \in troubles =>
             "traffic inspected" \in troubles \/ "certificate undated" \in troubles
        /\ troubles \cap HandshakeTroubles # {} => Handshake(troubles) = "BLOCKED"
  <2> HIDE DEF Plain
  <2> QED BY <1>1, <1>2, <1>3, <1>4
<1>6. troubles \cap Plain = {} <=>
        /\ ~LocalFatal(troubles) /\ ~DnsFatal(troubles) /\ ~KeyUnusable(troubles)
        /\ ~ApiFatal(troubles) /\ "no import" \notin troubles
        /\ troubles \cap {"certificate untrusted", "port closed"} = {}
  BY DEF LocalFatal, DnsFatal, KeyUnusable, ApiFatal, Any
<1> HIDE DEF Plain
<1> QED BY <1>5, <1>6 DEF OpenAiFatal, TlsFatal, SessionFatal

\* The checks a run has asked when it waits for the next one.
AskedBefore(check) ==
  LocalChecks
    \cup (IF check \in {"tls", "api_key", "realtime"} THEN {"dns"} ELSE {})
    \cup (IF check \in {"api_key", "realtime"} THEN {"tls"} ELSE {})
    \cup (IF check = "realtime" THEN {"api_key"} ELSE {})

\* A run during which nothing has changed has asked every check before the one
\* it waits for, of the provider that is set, and has gone on past a check of the
\* network only if nothing fatal to it is wrong.
RunInv ==
  awaiting # "nobody" /\ ~unsteady =>
    /\ provider = IF awaiting = "local_server" THEN "local" ELSE "openai"
    /\ DOMAIN results = AskedBefore(awaiting)
    /\ LocalFatal(troubles) <=> \E c \in LocalChecks : Blocking(results[c])
    /\ \A c \in DOMAIN results \ LocalChecks : ~Blocking(results[c])
    /\ awaiting \in {"tls", "api_key", "realtime"} => ~DnsFatal(troubles)
    /\ awaiting \in {"api_key", "realtime"} => ~TlsFatal(troubles) /\ ~KeyUnusable(troubles)
    /\ awaiting = "realtime" => ~ApiFatal(troubles)

DiagnosticsInv ==
  /\ provider \in {"openai", "local"}
  /\ awaiting \in {"nobody", "local_server", "dns", "tls", "api_key", "realtime"}
  /\ unsteady \in BOOLEAN
  /\ RunInv
  /\ ReportIsTrue

LEMMA DiagnosticsInitInv ==
  ASSUME NEW some \in BOOLEAN, DiagnosticsInit(some)
  PROVE  DiagnosticsInv
BY DEF DiagnosticsInit, DiagnosticsInv, RunInv, ReportIsTrue

\* The report of a run lets a class start unless one of its verdicts is blocking:
\* what was skipped does not stand in the way.
LEMMA ReportOfARun ==
  ASSUME NEW verdicts, Ends(verdicts),
         DOMAIN results \cup DOMAIN verdicts
           \subseteq ChecksOf(IF awaiting = "local_server" THEN "local" ELSE "openai"),
         DOMAIN results \cap DOMAIN verdicts = {}
  PROVE  ReadyToStart(last') <=>
           /\ \A c \in DOMAIN results : ~Blocking(results[c])
           /\ \A c \in DOMAIN verdicts : ~Blocking(verdicts[c])
<1> DEFINE asked == ChecksOf(IF awaiting = "local_server" THEN "local" ELSE "openai")
           all == Answered(verdicts)
<1>1. /\ DOMAIN all = DOMAIN results \cup DOMAIN verdicts
      /\ \A c \in DOMAIN verdicts : all[c] = verdicts[c]
      /\ \A c \in DOMAIN results : all[c] = results[c]
  BY DEF Answered
<1>2. last' = [c \in asked |-> IF c \in DOMAIN all THEN all[c] ELSE "SKIPPED"]
  BY DEF Ends
<1> HIDE DEF all, asked
<1>3. DOMAIN all \subseteq asked
  BY <1>1 DEF asked
<1>4. ~Blocking("SKIPPED")
  BY DEF Blocking
<1>5. ReadyToStart(last') <=> \A c \in DOMAIN all : ~Blocking(all[c])
  BY <1>2, <1>3, <1>4 DEF ReadyToStart
<1> QED BY <1>1, <1>5

\* A run that ends says so, and leaves a report that is true if it was steady.
LEMMA EndingKeeps ==
  ASSUME DiagnosticsInv, NEW verdicts, Ends(verdicts), awaiting # "nobody",
         UNCHANGED <<provider, troubles>>,
         ~unsteady =>
           /\ DOMAIN results \cup DOMAIN verdicts
                \subseteq ChecksOf(IF awaiting = "local_server" THEN "local" ELSE "openai")
           /\ DOMAIN results \cap DOMAIN verdicts = {}
           /\ (troubles \cap Needs \subseteq Hidden <=>
                 /\ ~LocalFatal(troubles)
                 /\ \A c \in DOMAIN verdicts : ~Blocking(verdicts[c]))
  PROVE  DiagnosticsInv'
<1>1. /\ awaiting' = "nobody" /\ unsteady' = FALSE /\ outdated' = unsteady
  BY DEF Ends
<1>2. RunInv'
  BY <1>1 DEF RunInv
<1>3. ReportIsTrue'
  <2> SUFFICES ASSUME ~unsteady
               PROVE  ReadyToStart(last') <=> troubles \cap Needs \subseteq Hidden
    BY <1>1 DEF ReportIsTrue, Needs, Hidden, Handshake, Any, NeedsSound, NeedsOpenAi
  <2>1. ReadyToStart(last') <=>
           /\ \A c \in DOMAIN results : ~Blocking(results[c])
           /\ \A c \in DOMAIN verdicts : ~Blocking(verdicts[c])
    BY ReportOfARun
  <2>2. (\A c \in DOMAIN results : ~Blocking(results[c])) <=> ~LocalFatal(troubles)
    <3>1. LocalChecks \subseteq DOMAIN results
      BY DEF DiagnosticsInv, RunInv, AskedBefore
    <3> QED BY <3>1 DEF DiagnosticsInv, RunInv
  <2> QED BY <2>1, <2>2
<1> QED BY <1>1, <1>2, <1>3 DEF DiagnosticsInv

\* A run that goes on has passed the check it waited for.
LEMMA GoingOnKeeps ==
  ASSUME DiagnosticsInv, NEW verdicts, NEW next \in {"tls", "api_key", "realtime"},
         GoesOn(verdicts, next), awaiting \in {"dns", "tls", "api_key"},
         UNCHANGED <<provider, troubles>>,
         DOMAIN verdicts \cap LocalChecks = {},
         AskedBefore(next) = AskedBefore(awaiting) \cup DOMAIN verdicts,
         \A c \in DOMAIN verdicts : ~Blocking(verdicts[c]),
         ~unsteady =>
           /\ ~DnsFatal(troubles)
           /\ next \in {"api_key", "realtime"} => ~TlsFatal(troubles) /\ ~KeyUnusable(troubles)
           /\ next = "realtime" => ~ApiFatal(troubles)
  PROVE  DiagnosticsInv'
<1>1. /\ results' = Answered(verdicts) /\ awaiting' = next
      /\ UNCHANGED <<last, unsteady, outdated>>
  BY DEF GoesOn
<1>2. /\ DOMAIN results' = DOMAIN results \cup DOMAIN verdicts
      /\ \A c \in DOMAIN verdicts : results'[c] = verdicts[c]
      /\ \A c \in DOMAIN results \ DOMAIN verdicts : results'[c] = results[c]
  BY <1>1 DEF Answered
<1>3. RunInv'
  <2> SUFFICES ASSUME ~unsteady
               PROVE  /\ provider = "openai"
                      /\ DOMAIN results' = AskedBefore(next)
                      /\ LocalFatal(troubles) <=> \E c \in LocalChecks : Blocking(results'[c])
                      /\ \A c \in DOMAIN results' \ LocalChecks : ~Blocking(results'[c])
    BY <1>1 DEF RunInv, LocalFatal, DnsFatal, TlsFatal, KeyUnusable, ApiFatal, Any
  <2>1. /\ provider = "openai" /\ DOMAIN results = AskedBefore(awaiting)
        /\ LocalFatal(troubles) <=> \E c \in LocalChecks : Blocking(results[c])
        /\ \A c \in DOMAIN results \ LocalChecks : ~Blocking(results[c])
    BY DEF DiagnosticsInv, RunInv
  <2>2. LocalChecks \subseteq DOMAIN results \ DOMAIN verdicts
    BY <2>1 DEF AskedBefore
  <2>3. \A c \in LocalChecks : results'[c] = results[c]
    BY <1>2, <2>2
  <2> QED BY <1>2, <2>1, <2>3
<1>4. ReportIsTrue'
  BY <1>1 DEF DiagnosticsInv, ReportIsTrue, Needs, Hidden
<1> QED BY <1>1, <1>3, <1>4 DEF DiagnosticsInv

\* The answer to one check.
LEMMA OneAnswer ==
  ASSUME NEW check, NEW status
  PROVE  /\ DOMAIN One(check, status) = {check}
         /\ One(check, status)[check] = status
BY DEF One

LEMMA ChecksInOrder ==
  /\ \A check \in {"dns", "tls", "api_key", "realtime"} :
       /\ AskedBefore(check) \cup {check} \subseteq ChecksOf("openai")
       /\ check \notin AskedBefore(check) /\ check \notin LocalChecks
  /\ AskedBefore("local_server") \cup {"local_server"} \subseteq ChecksOf("local")
  /\ "local_server" \notin AskedBefore("local_server")
  /\ AskedBefore("tls") = AskedBefore("dns") \cup {"dns"}
  /\ AskedBefore("api_key") = AskedBefore("tls") \cup {"tls"}
  /\ AskedBefore("realtime") = AskedBefore("api_key") \cup {"api_key"}
  /\ AskedBefore("dns") = LocalChecks /\ AskedBefore("local_server") = LocalChecks
BY DEF AskedBefore, ChecksOf, LocalChecks, NetworkChecks

\* A run that ends with a check that fails, and needs to have passed the others.
LEMMA FailingEnds ==
  ASSUME DiagnosticsInv, NEW status, awaiting \in {"dns", "tls", "api_key", "realtime"},
         Ends(One(awaiting, status)), UNCHANGED <<provider, troubles>>,
         ~unsteady => (~LocalFatal(troubles) => (OpenAiFatal(troubles) <=> Blocking(status)))
  PROVE  DiagnosticsInv'
<1>0. /\ DOMAIN One(awaiting, status) = {awaiting}
      /\ One(awaiting, status)[awaiting] = status
  BY OneAnswer
<1>1. ~unsteady =>
        /\ DOMAIN results \cup DOMAIN One(awaiting, status) \subseteq ChecksOf("openai")
        /\ DOMAIN results \cap DOMAIN One(awaiting, status) = {}
  <2>1. ~unsteady => DOMAIN results = AskedBefore(awaiting)
    BY DEF DiagnosticsInv, RunInv
  <2>2. /\ AskedBefore(awaiting) \cup {awaiting} \subseteq ChecksOf("openai")
        /\ awaiting \notin AskedBefore(awaiting)
    BY ChecksInOrder
  <2> QED BY <1>0, <2>1, <2>2
<1>2. ~unsteady => provider = "openai"
  BY DEF DiagnosticsInv, RunInv
<1>3. ~unsteady =>
        (troubles \cap Needs \subseteq Hidden <=>
           /\ ~LocalFatal(troubles)
           /\ \A c \in DOMAIN One(awaiting, status) : ~Blocking(One(awaiting, status)[c]))
  <2>1. LocalFatal(troubles) => OpenAiFatal(troubles)
    BY DEF OpenAiFatal
  <2> QED BY <1>0, <1>2, <2>1, NeedsRemote
<1>4. awaiting # "nobody" /\ awaiting # "local_server"
  OBVIOUS
<1> QED BY <1>1, <1>3, <1>4, EndingKeeps

LEMMA DnsKeeps ==
  ASSUME DiagnosticsInv, DnsAnswers, UNCHANGED <<provider, troubles>>
  PROVE  DiagnosticsInv'
<1>0. awaiting = "dns"
  BY DEF DnsAnswers
<1>1. CASE Blocking(CheckDns(troubles))
  <2>1. Ends(One(awaiting, CheckDns(troubles)))
    BY <1>0, <1>1 DEF DnsAnswers
  <2>2. OpenAiFatal(troubles)
    BY <1>1, NetworkVerdicts DEF OpenAiFatal
  <2> QED BY <1>0, <1>1, <2>1, <2>2, FailingEnds
<1>2. CASE ~Blocking(CheckDns(troubles))
  <2>1. GoesOn(One("dns", CheckDns(troubles)), "tls")
    BY <1>2 DEF DnsAnswers
  <2>2. ~DnsFatal(troubles)
    BY <1>2, NetworkVerdicts
  <2> DEFINE verdicts == One("dns", CheckDns(troubles))
  <2>3. /\ DOMAIN verdicts \cap LocalChecks = {}
        /\ AskedBefore("tls") = AskedBefore(awaiting) \cup DOMAIN verdicts
        /\ \A c \in DOMAIN verdicts : ~Blocking(verdicts[c])
    <3>1. DOMAIN verdicts = {"dns"} /\ verdicts["dns"] = CheckDns(troubles)
      BY OneAnswer
    <3> HIDE DEF verdicts
    <3> QED BY <1>0, <1>2, <3>1, ChecksInOrder
  <2> HIDE DEF verdicts
  <2>4. GoesOn(verdicts, "tls")
    BY <2>1 DEF verdicts
  <2> QED BY <1>0, <2>2, <2>3, <2>4, GoingOnKeeps
<1> QED BY <1>1, <1>2

LEMMA TlsKeeps ==
  ASSUME DiagnosticsInv, TlsAnswers, UNCHANGED <<provider, troubles>>
  PROVE  DiagnosticsInv'
<1>0. awaiting = "tls"
  BY DEF TlsAnswers
<1>a. ~unsteady => ~DnsFatal(troubles) /\ provider = "openai"
                     /\ DOMAIN results = AskedBefore("tls")
  BY <1>0 DEF DiagnosticsInv, RunInv
<1>1. CASE Blocking(CheckTls(troubles))
  <2>1. Ends(One(awaiting, CheckTls(troubles)))
    BY <1>0, <1>1 DEF TlsAnswers
  <2>2. OpenAiFatal(troubles)
    BY <1>1, NetworkVerdicts DEF OpenAiFatal
  <2> QED BY <1>0, <1>1, <2>1, <2>2, FailingEnds
<1>2. CASE ~Blocking(CheckTls(troubles)) /\ KeyUnusable(troubles)
  <2> DEFINE verdicts == [tls |-> CheckTls(troubles), api_key |-> "FAILED"]
  <2>1. Ends(verdicts)
    BY <1>2 DEF TlsAnswers
  <2>2. DOMAIN verdicts = {"tls", "api_key"} /\ Blocking(verdicts["api_key"])
    BY DEF Blocking
  <2>3. AskedBefore("tls") = LocalChecks \cup {"dns"}
    BY ChecksInOrder
  <2>4. /\ AskedBefore("tls") \cup DOMAIN verdicts \subseteq ChecksOf("openai")
        /\ AskedBefore("tls") \cap DOMAIN verdicts = {}
    BY <2>2, <2>3 DEF ChecksOf, LocalChecks, NetworkChecks
  <2>5. OpenAiFatal(troubles)
    BY <1>2 DEF OpenAiFatal
  <2>6. ~unsteady => ~(troubles \cap Needs \subseteq Hidden)
    BY <1>a, <2>5, NeedsRemote
  <2>7. ~(\A c \in DOMAIN verdicts : ~Blocking(verdicts[c]))
    BY <2>2
  <2> HIDE DEF verdicts
  <2>8. awaiting # "nobody" /\ awaiting # "local_server"
    BY <1>0
  <2> QED BY <1>a, <2>1, <2>4, <2>6, <2>7, <2>8, EndingKeeps
<1>3. CASE ~Blocking(CheckTls(troubles)) /\ ~KeyUnusable(troubles)
  <2> DEFINE verdicts == One("tls", CheckTls(troubles))
  <2>1. GoesOn(verdicts, "api_key")
    BY <1>3 DEF TlsAnswers
  <2>2. ~TlsFatal(troubles)
    BY <1>3, NetworkVerdicts
  <2>3. /\ DOMAIN verdicts \cap LocalChecks = {}
        /\ AskedBefore("api_key") = AskedBefore(awaiting) \cup DOMAIN verdicts
        /\ \A c \in DOMAIN verdicts : ~Blocking(verdicts[c])
    <3>1. DOMAIN verdicts = {"tls"} /\ verdicts["tls"] = CheckTls(troubles)
      BY OneAnswer
    <3> HIDE DEF verdicts
    <3> QED BY <1>0, <1>3, <3>1, ChecksInOrder
  <2> HIDE DEF verdicts
  <2> QED BY <1>0, <1>3, <1>a, <2>1, <2>2, <2>3, GoingOnKeeps
<1> QED BY <1>1, <1>2, <1>3

LEMMA ApiKeeps ==
  ASSUME DiagnosticsInv, ApiAnswers, UNCHANGED <<provider, troubles>>
  PROVE  DiagnosticsInv'
<1>0. awaiting = "api_key"
  BY DEF ApiAnswers
<1>a. ~unsteady => ~DnsFatal(troubles) /\ ~TlsFatal(troubles) /\ ~KeyUnusable(troubles)
  BY <1>0 DEF DiagnosticsInv, RunInv
<1>1. CASE Blocking(CheckApiKey(troubles))
  <2>1. Ends(One(awaiting, CheckApiKey(troubles)))
    BY <1>0, <1>1 DEF ApiAnswers
  <2>2. OpenAiFatal(troubles)
    BY <1>1, NetworkVerdicts DEF OpenAiFatal
  <2> QED BY <1>0, <1>1, <2>1, <2>2, FailingEnds
<1>2. CASE ~Blocking(CheckApiKey(troubles))
  <2> DEFINE verdicts == One("api_key", CheckApiKey(troubles))
  <2>1. GoesOn(verdicts, "realtime")
    BY <1>2 DEF ApiAnswers
  <2>2. ~ApiFatal(troubles)
    BY <1>2, NetworkVerdicts
  <2>3. /\ DOMAIN verdicts \cap LocalChecks = {}
        /\ AskedBefore("realtime") = AskedBefore(awaiting) \cup DOMAIN verdicts
        /\ \A c \in DOMAIN verdicts : ~Blocking(verdicts[c])
    <3>1. DOMAIN verdicts = {"api_key"} /\ verdicts["api_key"] = CheckApiKey(troubles)
      BY OneAnswer
    <3> HIDE DEF verdicts
    <3> QED BY <1>0, <1>2, <3>1, ChecksInOrder
  <2> HIDE DEF verdicts
  <2> QED BY <1>0, <1>a, <2>1, <2>2, <2>3, GoingOnKeeps
<1> QED BY <1>1, <1>2

LEMMA RealtimeKeeps ==
  ASSUME DiagnosticsInv, RealtimeAnswers, UNCHANGED <<provider, troubles>>
  PROVE  DiagnosticsInv'
<1>0. awaiting = "realtime"
  BY DEF RealtimeAnswers
<1>1. ~unsteady => /\ ~DnsFatal(troubles) /\ ~TlsFatal(troubles)
                   /\ ~KeyUnusable(troubles) /\ ~ApiFatal(troubles)
  BY <1>0 DEF DiagnosticsInv, RunInv
<1>2. ~unsteady => (~LocalFatal(troubles) =>
                      (OpenAiFatal(troubles) <=> Blocking(CheckRealtime(troubles))))
  BY <1>1, SessionVerdict DEF OpenAiFatal
<1>3. Ends(One(awaiting, CheckRealtime(troubles)))
  BY <1>0 DEF RealtimeAnswers
<1> QED BY <1>0, <1>2, <1>3, FailingEnds

LEMMA LocalServerKeeps ==
  ASSUME DiagnosticsInv, LocalServerAnswers, UNCHANGED <<provider, troubles>>
  PROVE  DiagnosticsInv'
<1> DEFINE verdicts == One("local_server", CheckLocalServer(troubles))
<1>0. awaiting = "local_server" /\ Ends(verdicts)
  BY DEF LocalServerAnswers
<1>a. /\ DOMAIN verdicts = {"local_server"}
      /\ verdicts["local_server"] = CheckLocalServer(troubles)
  BY OneAnswer
<1> HIDE DEF verdicts
<1>1. ~unsteady =>
        /\ DOMAIN results \cup DOMAIN verdicts \subseteq ChecksOf("local")
        /\ DOMAIN results \cap DOMAIN verdicts = {}
        /\ provider = "local"
  <2>1. ~unsteady => DOMAIN results = AskedBefore(awaiting) /\ provider = "local"
    BY <1>0 DEF DiagnosticsInv, RunInv
  <2> QED BY <1>0, <1>a, <2>1, ChecksInOrder
<1>2. (\A c \in DOMAIN verdicts : ~Blocking(verdicts[c])) <=> ~ServerFatal(troubles)
  BY <1>a, NetworkVerdicts
<1>3. ~unsteady =>
        (troubles \cap Needs \subseteq Hidden <=>
           /\ ~LocalFatal(troubles)
           /\ \A c \in DOMAIN verdicts : ~Blocking(verdicts[c]))
  BY <1>1, <1>2, NeedsLocal
<1> QED BY <1>0, <1>1, <1>3, EndingKeeps

LEMMA RunKeeps ==
  ASSUME DiagnosticsInv, RunDiagnostics, UNCHANGED <<provider, troubles>>
  PROVE  DiagnosticsInv'
<1>1. /\ awaiting' = IF provider = "local" THEN "local_server" ELSE "dns"
      /\ results' = [microphone |-> CheckMicrophone(troubles),
                     speakers |-> CheckSpeakers(troubles),
                     wakeword_model |-> CheckWakewordModel(troubles)]
      /\ unsteady' = FALSE /\ UNCHANGED <<last, outdated>>
  BY DEF RunDiagnostics
<1>2. DOMAIN results' = LocalChecks
  BY <1>1 DEF LocalChecks
<1>3. LocalFatal(troubles) <=> \E c \in LocalChecks : Blocking(results'[c])
  <2>1. (\E c \in LocalChecks : Blocking(results'[c])) <=>
          \/ Blocking(results'["microphone"]) \/ Blocking(results'["speakers"])
          \/ Blocking(results'["wakeword_model"])
    BY DEF LocalChecks
  <2>2. /\ results'["microphone"] = CheckMicrophone(troubles)
        /\ results'["speakers"] = CheckSpeakers(troubles)
        /\ results'["wakeword_model"] = CheckWakewordModel(troubles)
    BY <1>1
  <2> QED BY <2>1, <2>2, LocalVerdict
<1>4. provider = IF awaiting' = "local_server" THEN "local" ELSE "openai"
  BY <1>1 DEF DiagnosticsInv
<1>5. AskedBefore(awaiting') = LocalChecks /\ awaiting' \in {"local_server", "dns"}
  BY <1>1, ChecksInOrder
<1>6. LocalFatal(troubles)' <=> LocalFatal(troubles)
  BY DEF LocalFatal
<1>7. RunInv'
  BY <1>2, <1>3, <1>4, <1>5, <1>6 DEF RunInv
<1>8. ReportIsTrue'
  BY <1>1 DEF DiagnosticsInv, ReportIsTrue, Needs, Hidden
<1> QED BY <1>1, <1>5, <1>7, <1>8 DEF DiagnosticsInv

DiagnosticsOwnStep == DiagnosticsStep \/ DiagnosticsRestart

LEMMA DiagnosticsStepInv ==
  ASSUME DiagnosticsInv, [DiagnosticsOwnStep]_diagnosticsVars
  PROVE  DiagnosticsInv'
<1>1. CASE DiagnosticsRequests
  <2>1. UNCHANGED <<provider, troubles>>
    BY <1>1 DEF DiagnosticsRequests
  <2> QED
    BY <1>1, <2>1, RunKeeps, LocalServerKeeps, DnsKeeps, TlsKeeps, ApiKeeps, RealtimeKeeps
       DEF DiagnosticsRequests
<1>2. CASE Changes
  <2>1. /\ unsteady' = (awaiting # "nobody") /\ outdated' = (last # NoReport)
        /\ UNCHANGED <<awaiting, results, last>>
        /\ provider' \in {"openai", "local"}
    BY <1>2 DEF Changes, DiagnosticsInv
  <2>2. RunInv' /\ ReportIsTrue'
    BY <2>1 DEF RunInv, ReportIsTrue
  <2> QED BY <2>1, <2>2 DEF DiagnosticsInv
<1>3. CASE DiagnosticsRestart
  <2>1. /\ awaiting' = "nobody" /\ last' = NoReport /\ unsteady' = FALSE
        /\ UNCHANGED provider
    BY <1>3 DEF DiagnosticsRestart
  <2>2. RunInv' /\ ReportIsTrue'
    BY <2>1 DEF RunInv, ReportIsTrue, NoReport
  <2> QED BY <2>1, <2>2 DEF DiagnosticsInv
<1>4. CASE UNCHANGED diagnosticsVars
  <2>1. UNCHANGED <<provider, troubles, awaiting, results, last, unsteady, outdated>>
    BY <1>4 DEF diagnosticsVars
  <2>2. RunInv'
    BY <2>1 DEF DiagnosticsInv, RunInv, LocalFatal, DnsFatal, TlsFatal, KeyUnusable,
       ApiFatal, Any
  <2>3. ReportIsTrue'
    BY <2>1 DEF DiagnosticsInv, ReportIsTrue, Needs, Hidden
  <2> QED BY <2>1, <2>2, <2>3 DEF DiagnosticsInv
<1> QED BY <1>1, <1>2, <1>3, <1>4 DEF DiagnosticsOwnStep, DiagnosticsStep

-----------------------------------------------------------------------------
(* The types *)

\* The diagnostics, with what its invariant leaves out: the answers are statuses,
\* and what is wrong is a finite set, or it could not be counted.
DiagnosticsFits == DiagnosticsType /\ IsFiniteSet(troubles)

LEMMA FewAreFew ==
  ASSUME NEW T \in FewTroubles
  PROVE  T \subseteq Troubles /\ IsFiniteSet(T) /\ Cardinality(T) <= MaxTroubles
<1> USE DiagnosticsAssumption
<1>1. CASE T = {}
  <2>1. IsFiniteSet({}) /\ Cardinality({}) = 0
    BY FS_EmptySet
  <2> QED BY <1>1, <2>1
<1>2. ASSUME NEW t \in [1..MaxTroubles -> Troubles], T = {t[i] : i \in 1..MaxTroubles}
      PROVE  T \subseteq Troubles /\ IsFiniteSet(T) /\ Cardinality(T) <= MaxTroubles
  <2>1. IsFiniteSet(1..MaxTroubles) /\ Cardinality(1..MaxTroubles) = MaxTroubles
    <3>1. /\ IsFiniteSet(1..MaxTroubles)
          /\ Cardinality(1..MaxTroubles) = IF 1 > MaxTroubles THEN 0 ELSE MaxTroubles - 1 + 1
      BY FS_Interval
    <3> QED BY <3>1
  <2>2. t \in Surjection(1..MaxTroubles, T)
    BY <1>2 DEF Surjection
  <2>3. IsFiniteSet(T) /\ Cardinality(T) <= Cardinality(1..MaxTroubles)
    BY <2>1, <2>2, FS_Surjection
  <2>4. T \subseteq Troubles
    BY <1>2
  <2> QED BY <2>1, <2>3, <2>4
<1> QED BY <1>1, <1>2 DEF FewTroubles

LEMMA DiagnosticsInitFits ==
  ASSUME NEW some \in BOOLEAN, DiagnosticsInit(some)
  PROVE  DiagnosticsFits
<1>1. troubles \in FewTroubles
  BY DEF DiagnosticsInit, FewTroubles
<1>2. troubles \subseteq Troubles /\ IsFiniteSet(troubles) /\ Cardinality(troubles) <= MaxTroubles
  BY <1>1, FewAreFew
<1>3. DOMAIN NoReport = {}
  BY DEF NoReport
<1>4. /\ provider \in {"openai", "local"} /\ awaiting = "nobody" /\ results = NoReport
      /\ last = NoReport /\ unsteady \in BOOLEAN /\ outdated \in BOOLEAN
  BY DEF DiagnosticsInit
<1>5. changes \in 0..MaxChanges
  <2>1. changes = 0
    BY DEF DiagnosticsInit
  <2> QED BY <2>1, DiagnosticsAssumption
<1> QED
  BY <1>2, <1>3, <1>4, <1>5 DEF DiagnosticsFits, DiagnosticsType

\* Every check answers with a status.
LEMMA VerdictsAreStatuses ==
  ASSUME NEW T
  PROVE  {CheckMicrophone(T), CheckSpeakers(T), CheckWakewordModel(T),
          CheckLocalServer(T), CheckDns(T), CheckTls(T), CheckApiKey(T),
          CheckRealtime(T)} \subseteq Status
<1>1. ASSUME NEW failed, NEW warned
      PROVE  Failing(T, failed, warned) \in Status
  BY DEF Failing, Status
<1>2. {"FAILED", "WARNING", "OK"} \subseteq Status
  BY DEF Status
<1>3. /\ CheckMicrophone(T) \in Status /\ CheckSpeakers(T) \in Status
      /\ CheckWakewordModel(T) \in Status /\ CheckLocalServer(T) \in Status
      /\ CheckDns(T) \in Status
  BY <1>1 DEF CheckMicrophone, CheckSpeakers, CheckWakewordModel, CheckLocalServer, CheckDns
<1>4. CheckTls(T) \in Status
  BY <1>1, <1>2 DEF CheckTls
<1>5. CheckApiKey(T) \in Status
  BY <1>1, <1>2 DEF CheckApiKey
<1>6. CheckRealtime(T) \in Status
  BY <1>1, <1>2 DEF CheckRealtime
<1> QED BY <1>3, <1>4, <1>5, <1>6

Statuses(f) == \A c \in DOMAIN f : f[c] \in Status

LEMMA AnsweredFits ==
  ASSUME Statuses(results), NEW verdicts, Statuses(verdicts)
  PROVE  /\ Statuses(Answered(verdicts))
         /\ DOMAIN Answered(verdicts) = DOMAIN results \cup DOMAIN verdicts
BY DEF Statuses, Answered

\* A run that ends leaves a report.
LEMMA EndingFits ==
  ASSUME DiagnosticsFits, NEW verdicts, Statuses(verdicts), Ends(verdicts),
         UNCHANGED <<provider, troubles, changes>>
  PROVE  DiagnosticsFits'
<1> DEFINE all == Answered(verdicts)
           asked == ChecksOf(IF awaiting = "local_server" THEN "local" ELSE "openai")
<1>1. Statuses(all)
  BY AnsweredFits DEF DiagnosticsFits, DiagnosticsType, Statuses
<1>2. last' = [c \in asked |-> IF c \in DOMAIN all THEN all[c] ELSE "SKIPPED"]
  BY DEF Ends
<1>3. asked \in {ChecksOf("local"), ChecksOf("openai")}
  OBVIOUS
<1> HIDE DEF all, asked
<1>4. last' \in [asked -> Status]
  BY <1>1, <1>2 DEF Statuses, Status
<1>5. last' \in Reports
  BY <1>3, <1>4 DEF Reports
<1>6. /\ awaiting' = "nobody" /\ results' = NoReport
      /\ unsteady' = FALSE /\ outdated' = unsteady
  BY DEF Ends
<1>7. DOMAIN NoReport = {}
  BY DEF NoReport
<1> QED BY <1>5, <1>6, <1>7 DEF DiagnosticsFits, DiagnosticsType

\* A run that goes on has one answer more.
LEMMA GoingOnFits ==
  ASSUME DiagnosticsFits, NEW check \in NetworkChecks, NEW status \in Status,
         NEW next \in {"tls", "api_key", "realtime"}, GoesOn(One(check, status), next),
         UNCHANGED <<provider, troubles, changes>>
  PROVE  DiagnosticsFits'
<1> DEFINE verdicts == One(check, status)
<1>1. DOMAIN verdicts = {check} /\ Statuses(verdicts)
  BY DEF One, Statuses
<1>2. /\ results' = Answered(verdicts) /\ awaiting' = next
      /\ UNCHANGED <<last, unsteady, outdated>>
  BY DEF GoesOn
<1> HIDE DEF verdicts
<1>3. /\ Statuses(results') /\ DOMAIN results' = DOMAIN results \cup {check}
  BY <1>1, <1>2, AnsweredFits DEF DiagnosticsFits, DiagnosticsType, Statuses
<1> QED BY <1>2, <1>3 DEF DiagnosticsFits, DiagnosticsType, Statuses

LEMMA ChangesFit ==
  ASSUME DiagnosticsFits, Changes
  PROVE  DiagnosticsFits'
<1>1. /\ changes \in 0..MaxChanges /\ changes < MaxChanges /\ changes' = changes + 1
      /\ UNCHANGED <<awaiting, results, last>>
      /\ unsteady' \in BOOLEAN /\ outdated' \in BOOLEAN
  BY DEF Changes, DiagnosticsFits, DiagnosticsType
<1>2. changes' \in 0..MaxChanges
  BY <1>1, DiagnosticsAssumption
<1>3. provider' \in {"openai", "local"}
  BY DEF Changes, DiagnosticsFits, DiagnosticsType
<1>4. troubles' \subseteq Troubles /\ IsFiniteSet(troubles') /\ Cardinality(troubles') <= MaxTroubles
  <2>0. troubles \subseteq Troubles /\ IsFiniteSet(troubles) /\ Cardinality(troubles) <= MaxTroubles
    BY DEF DiagnosticsFits, DiagnosticsType
  <2>1. ASSUME NEW t \in Troubles \ troubles, troubles' = troubles \cup {t},
               Cardinality(troubles') <= MaxTroubles
        PROVE  troubles' \subseteq Troubles /\ IsFiniteSet(troubles')
                 /\ Cardinality(troubles') <= MaxTroubles
    BY <2>0, <2>1, FS_AddElement
  <2>2. ASSUME NEW t \in troubles, troubles' = troubles \ {t}
        PROVE  troubles' \subseteq Troubles /\ IsFiniteSet(troubles')
                 /\ Cardinality(troubles') <= MaxTroubles
    <3>1. /\ IsFiniteSet(troubles')
          /\ Cardinality(troubles') = Cardinality(troubles) - 1
      BY <2>0, <2>2, FS_RemoveElement
    <3>2. Cardinality(troubles) \in Nat
      BY <2>0, FS_CardinalityType
    <3> QED BY <2>0, <2>2, <3>1, <3>2, DiagnosticsAssumption
  <2> QED BY <2>0, <2>1, <2>2 DEF Changes
<1> QED BY <1>1, <1>2, <1>3, <1>4 DEF DiagnosticsFits, DiagnosticsType

LEMMA DiagnosticsStepFits ==
  ASSUME DiagnosticsFits, [DiagnosticsOwnStep]_diagnosticsVars
  PROVE  DiagnosticsFits'
<1> DEFINE Still == UNCHANGED <<provider, troubles, changes>>
<1>0. \A check \in {"local_server", "dns", "tls", "api_key", "realtime"}, status \in Status :
        Statuses(One(check, status))
  <2> TAKE check \in {"local_server", "dns", "tls", "api_key", "realtime"}, status \in Status
  <2> QED BY DEF One, Statuses
<1>a. {"dns", "tls", "api_key"} \subseteq NetworkChecks
  BY DEF NetworkChecks
<1>1. CASE RunDiagnostics /\ Still
  <2>1. /\ awaiting' \in {"local_server", "dns"} /\ unsteady' = FALSE
        /\ UNCHANGED <<last, outdated, provider, troubles, changes>>
        /\ results' = [microphone |-> CheckMicrophone(troubles),
                       speakers |-> CheckSpeakers(troubles),
                       wakeword_model |-> CheckWakewordModel(troubles)]
    BY <1>1 DEF RunDiagnostics
  <2>2. DOMAIN results' \subseteq LocalChecks /\ \A c \in DOMAIN results' : results'[c] \in Status
    BY <2>1, VerdictsAreStatuses DEF LocalChecks
  <2> QED BY <2>1, <2>2 DEF DiagnosticsFits, DiagnosticsType
<1>2. CASE LocalServerAnswers /\ Still
  BY <1>0, <1>2, VerdictsAreStatuses, EndingFits DEF LocalServerAnswers
<1>3. CASE DnsAnswers /\ Still
  BY <1>0, <1>a, <1>3, VerdictsAreStatuses, EndingFits, GoingOnFits DEF DnsAnswers
<1>4. CASE TlsAnswers /\ Still
  <2>1. CASE ~Blocking(CheckTls(troubles)) /\ KeyUnusable(troubles)
    <3> DEFINE verdicts == [tls |-> CheckTls(troubles), api_key |-> "FAILED"]
    <3>1. Ends(verdicts)
      BY <1>4, <2>1 DEF TlsAnswers
    <3>2. Statuses(verdicts)
      BY VerdictsAreStatuses DEF Statuses, Status
    <3> HIDE DEF verdicts
    <3> QED BY <1>4, <3>1, <3>2, EndingFits
  <2>2. CASE Blocking(CheckTls(troubles)) \/ ~KeyUnusable(troubles)
    BY <1>0, <1>a, <1>4, <2>2, VerdictsAreStatuses, EndingFits, GoingOnFits DEF TlsAnswers
  <2> QED BY <2>1, <2>2
<1>5. CASE ApiAnswers /\ Still
  BY <1>0, <1>a, <1>5, VerdictsAreStatuses, EndingFits, GoingOnFits DEF ApiAnswers
<1>6. CASE RealtimeAnswers /\ Still
  BY <1>0, <1>6, VerdictsAreStatuses, EndingFits DEF RealtimeAnswers
<1>7. CASE DiagnosticsRestart
  <2>1. DOMAIN NoReport = {}
    BY DEF NoReport
  <2> QED BY <1>7, <2>1 DEF DiagnosticsRestart, DiagnosticsFits, DiagnosticsType
<1>8. CASE UNCHANGED diagnosticsVars
  BY <1>8 DEF diagnosticsVars, DiagnosticsFits, DiagnosticsType
<1> QED
  BY <1>1, <1>2, <1>3, <1>4, <1>5, <1>6, <1>7, <1>8, ChangesFit
     DEF DiagnosticsOwnStep, DiagnosticsStep, DiagnosticsRequests

\* What is left of the type: the choice of a group and what only the
\* application counts.
RestFits ==
  /\ group \in Groups
  /\ classMic \in BOOLEAN
  /\ crossed \in BOOLEAN
  /\ restarts \in 0..MaxRestarts

LEMMA RestStepFits ==
  ASSUME RestFits, [Next]_vars
  PROVE  RestFits'
<1> USE DEF RestFits
<1>1. CASE UsesMicrophone
  <2>1. UNCHANGED <<group, restarts>>
    BY <1>1 DEF UsesMicrophone, Others
  <2>2. CASE (ProbeStep \/ TakeStep) /\ ClassAlone
    <3>1. crossed' \in BOOLEAN
      BY <2>2 DEF ProbeStep, TakeStep
    <3> QED BY <2>1, <2>2, <3>1 DEF ClassAlone
  <2>3. CASE ClassStep
    BY <2>1, <2>3
       DEF ClassStep, PrepareClass, AskStart, SessionRefused, AskResume, OpenMicrophone,
           MicrophoneRefused, SayOpen, Pause, PauseCloses, StopCloses, SayStopped
  <2>4. CASE UNCHANGED classVars
    BY <2>1, <2>4 DEF classVars
  <2> QED BY <1>1, <2>2, <2>3, <2>4 DEF UsesMicrophone
<1>2. CASE UsesKey \/ UsesWindow \/ UsesDetector \/ UsesDiagnostics
  BY <1>2 DEF UsesKey, UsesWindow, UsesDetector, UsesDiagnostics, classVars
<1>3. CASE Restart
  <2>1. /\ restarts < MaxRestarts /\ restarts' = restarts + 1
        /\ classMic' = FALSE /\ crossed' = FALSE /\ group' = group
    BY <1>3, Zenon DEF Restart
  <2>2. restarts' \in 0..MaxRestarts
    BY <2>1, RestartsAssumption
  <2> QED BY <2>1, <2>2
<1>4. CASE UNCHANGED vars
  BY <1>4 DEF vars, classVars
<1> QED BY <1>1, <1>2, <1>3, <1>4 DEF Next

-----------------------------------------------------------------------------
(* The application *)

AppInv == SettingsInv /\ HubInv /\ ProbeInv /\ VoiceInv /\ WakeInv
            /\ DiagnosticsInv /\ MicInv /\ DiagnosticsFits /\ RestFits

LEMMA AppInitInv == Init => AppInv
<1> SUFFICES ASSUME Init PROVE AppInv
  OBVIOUS
<1>1. /\ ProbeInit /\ VoiceInit /\ SettingsInit /\ HubInit /\ WakeInit
      /\ class = "READY" /\ door = "still" /\ classMic = FALSE
      /\ DiagnosticsInit(group = "diagnostics")
  BY DEF Init
<1>2. DiagnosticsInv /\ DiagnosticsFits
  <2>1. (group = "diagnostics") \in BOOLEAN
    OBVIOUS
  <2> QED BY <1>1, <2>1, DiagnosticsInitInv, DiagnosticsInitFits
<1>3. RestFits
  <2>1. group \in Groups /\ classMic \in BOOLEAN /\ crossed \in BOOLEAN
    BY Zenon DEF Init
  <2>2. restarts = 0
    BY Zenon DEF Init
  <2>3. restarts \in 0..MaxRestarts
    BY <2>2, RestartsAssumption
  <2> QED BY <2>1, <2>3 DEF RestFits
<1> QED
  BY <1>1, <1>2, <1>3, SettingsInitInv, HubInitInv, ProbeInitInv, VoiceInitInv, WakeInitInv,
     MicInitInv DEF AppInv

\* For each part, a step of the application is one of its own or none.
LEMMA StepsOfTheParts ==
  ASSUME [Next]_vars
  PROVE  /\ [SettingsStep]_settingsVars
         /\ [HubStep]_hubVars
         /\ [WakeStep]_wakeVars
         /\ [DiagnosticsOwnStep]_diagnosticsVars
         /\ [ProbeOwnStep]_probeVars
         /\ [VoiceStep]_voiceVars
<1>1. CASE UsesMicrophone
  <2>1. /\ UNCHANGED settingsVars /\ UNCHANGED hubVars /\ UNCHANGED wakeVars
        /\ UNCHANGED diagnosticsVars
    BY <1>1 DEF UsesMicrophone, Others
  <2>2. CASE ProbeStep /\ UNCHANGED voiceVars
    <3>1. InUseForProbe \in BOOLEAN
      BY DEF InUseForProbe, ClassHolds
    <3>2. ProbeOwnStep
      BY <2>2, <3>1 DEF ProbeStep, ProbeOwnStep
    <3> QED BY <2>1, <2>2, <3>2
  <2>3. CASE ClassStep /\ UNCHANGED <<voiceVars, probeVars>>
    BY <2>1, <2>3
  <2>4. CASE TakeStep /\ UNCHANGED probeVars
    <3>1. InUseForVoice \in BOOLEAN
      BY DEF InUseForVoice, ClassHolds, ProbeRunning
    <3>2. VoiceStep
      BY <2>4, <3>1 DEF TakeStep, VoiceStep
    <3> QED BY <2>1, <2>4, <3>2
  <2>5. CASE (TrainingThread \/ TrainingRequests) /\ UNCHANGED <<probeVars, classVars>>
    <3>1. VoiceStep
      BY <2>5 DEF VoiceStep
    <3> QED BY <2>1, <2>5, <3>1
  <2> QED BY <1>1, <2>2, <2>3, <2>4, <2>5 DEF UsesMicrophone
<1>2. CASE UsesKey
  BY <1>2 DEF UsesKey, SettingsStep
<1>3. CASE UsesWindow
  BY <1>3 DEF UsesWindow
<1>4. CASE UsesDetector
  BY <1>4 DEF UsesDetector
<1>5. CASE UsesDiagnostics
  BY <1>5 DEF UsesDiagnostics, DiagnosticsOwnStep
<1>6. CASE Restart
  BY <1>6 DEF Restart, SettingsStep, DiagnosticsOwnStep, ProbeOwnStep, ProbeForgotten, VoiceStep
<1>7. CASE UNCHANGED vars
  BY <1>7 DEF vars
<1> QED BY <1>1, <1>2, <1>3, <1>4, <1>5, <1>6, <1>7 DEF Next

LEMMA StepKeepsMic ==
  ASSUME AppInv, [Next]_vars
  PROVE  MicInv'
<1>0. MicInv /\ VoiceType
  BY DEF AppInv, VoiceInv
<1> USE DEF ProbeSeen, TakeSeen, ClassSeen, ClassAlone, probeVars, voiceVars, classVars
<1>1. CASE UsesMicrophone
  <2>1. CASE ProbeStep /\ UNCHANGED voiceVars /\ ClassAlone
    BY <1>0, <2>1, ProbeStepKeepsMic
  <2>2. CASE ClassStep /\ UNCHANGED <<voiceVars, probeVars>>
    BY <1>0, <2>2, ClassStepKeepsMic
  <2>3. CASE TakeStep /\ UNCHANGED probeVars /\ ClassAlone
    BY <1>0, <2>3, TakeStepKeepsMic
  <2>4. CASE (TrainingThread \/ TrainingRequests) /\ UNCHANGED <<probeVars, classVars>>
    <3>1. UNCHANGED TakeSeen
      BY <2>4 DEF TrainingThread, TrainingRequests, TrainerBegins, TrainerSucceeds,
         TrainerFails, TrainerEnds, DropsPending, DropsTakes, StartTraining, Accept,
         Discard, RestoreOriginal, SavePhrase
    <3> QED BY <1>0, <2>4, <3>1 DEF MicInv, ProbeRunning, ClassHolds
  <2> QED BY <1>1, <2>1, <2>2, <2>3, <2>4 DEF UsesMicrophone
<1>2. CASE UsesKey \/ UsesWindow \/ UsesDetector \/ UsesDiagnostics
  <2>1. UNCHANGED <<probeVars, voiceVars, classVars>>
    BY <1>2 DEF UsesKey, UsesWindow, UsesDetector, UsesDiagnostics
  <2> QED BY <1>0, <2>1 DEF MicInv, ProbeRunning, ClassHolds
<1>3. CASE Restart
  <2>1. /\ task' = "none" /\ checking' = FALSE /\ takeMic' = FALSE /\ taker' = None
        /\ recording' = FALSE /\ class' = "READY" /\ door' = "still" /\ classMic' = FALSE
    BY <1>3 DEF Restart, VoiceRestart, Fresh
  <2> QED BY <2>1 DEF MicInv, State, ProbeRunning
<1>4. CASE UNCHANGED vars
  BY <1>0, <1>4 DEF vars, MicInv, ProbeRunning, ClassHolds
<1> QED BY <1>1, <1>2, <1>3, <1>4 DEF Next

LEMMA AppStepInv == AppInv /\ [Next]_vars => AppInv'
<1> SUFFICES ASSUME AppInv, [Next]_vars PROVE AppInv'
  OBVIOUS
<1>1. /\ SettingsInv' /\ HubInv' /\ WakeInv' /\ ProbeInv' /\ VoiceInv'
      /\ DiagnosticsInv'
  BY StepsOfTheParts, DiagnosticsStepInv, SettingsStepInv, HubStepInv, WakeStepInv, ProbeStepInv,
     VoiceStepInv DEF AppInv
<1>2. MicInv'
  BY StepKeepsMic
<1>3. DiagnosticsFits' /\ RestFits'
  BY StepsOfTheParts, DiagnosticsStepFits, RestStepFits DEF AppInv
<1> QED BY <1>1, <1>2, <1>3 DEF AppInv

\* Every part keeps its invariant in every behaviour of the application.
LEMMA AppInvariant == Spec => []AppInv
BY AppInitInv, AppStepInv, PTL DEF Spec

\* Every part of the application keeps its variables in their types: a report
\* answers every check of its provider with a status, what is wrong stays within
\* its bound, and the class within the states of its machine.
THEOREM ApplicationTypeCorrect == Spec => []TypeOK
<1>1. AppInv => TypeOK
  BY DEF AppInv, SettingsInv, HubInv, ProbeInv, VoiceInv, WakeInv, DiagnosticsFits, MicInv,
     RestFits, TypeOK
<1> QED BY <1>1, AppInvariant, PTL

\* An unlocked key that was saved on this computer is read, for every set of
\* passphrases and whatever is saved, cleared, unlocked and restarted.
THEOREM UnlockedKeyRead == Spec => []UnlockedKeyIsRead
<1>1. AppInv => UnlockedKeyIsRead
  BY SettingsInvReads DEF AppInv
<1> QED BY <1>1, AppInvariant, PTL

\* A window with nothing on its way has been given the class as it is, for every
\* size of its queue and however often its socket closes.
THEOREM WindowTold == Spec => []WindowIsTold
<1>1. AppInv => WindowIsTold
  BY HubInvTells DEF AppInv
<1> QED BY <1>1, AppInvariant, PTL

\* A conversation test that is over has let go of the microphone and says how it
\* ended.
THEOREM TestSettles == Spec => []ProbeSettles
<1>1. AppInv => ProbeSettles
  BY ProbeInvSettles DEF AppInv
<1> QED BY <1>1, AppInvariant, PTL

\* While a conversation test records its question nothing sounds.
THEOREM TestDoesNotHearItself == Spec => []DoesNotHearItself
<1>1. AppInv => DoesNotHearItself
  BY ProbeInvHears DEF AppInv
<1> QED BY <1>1, AppInvariant, PTL

\* An accepted model listens for the phrase it was trained on, for every set of
\* phrases and every order of trainings, decisions, settings and restarts.
THEOREM ModelForItsPhrase == Spec => []ModelIsForItsPhrase
<1>1. AppInv => ModelIsForItsPhrase
  BY VoiceInvNamesModels DEF AppInv
<1> QED BY <1>1, AppInvariant, PTL

\* When a training is over its recordings are gone, for every number of takes.
THEOREM TakesGone == Spec => []TakesGoWithTraining
<1>1. AppInv => TakesGoWithTraining
  BY VoiceInvDropsTakes DEF AppInv
<1> QED BY <1>1, AppInvariant, PTL

\* The count two models are compared by mirrors the detector, for every
\* sensitivity, refractory time and sequence of scores.
THEOREM CountMirrorsInTheClass == Spec => []CountMirrorsDetector
<1>1. AppInv => CountMirrorsDetector
  BY DEF AppInv, WakeInv, Together, CountMirrorsDetector
<1> QED BY <1>1, AppInvariant, PTL

\* A report that nothing has overtaken says ready exactly when nothing a class
\* needs was wrong, whatever was wrong and however much of it.
THEOREM ReportTrue == Spec => []ReportIsTrue
<1>1. AppInv => ReportIsTrue
  BY DEF AppInv, DiagnosticsInv
<1> QED BY <1>1, AppInvariant, PTL

\* The class, the conversation test and a take never hold the microphone
\* together unless one of them opened it in a moment the others could not see.
THEOREM MicrophoneHasOneUser == Spec => []OneMicrophoneUser
<1>1. AppInv => OneMicrophoneUser
  BY MicInvExcludes DEF AppInv
<1> QED BY <1>1, AppInvariant, PTL
==============================================================================

------------------------ MODULE ClassLifecycleProofs --------------------------
(***************************************************************************)
(* Proofs about the life of a class (module ClassLifecycle), for any       *)
(* number of windows: from one inductive invariant the type invariant and  *)
(* that state and microphone agree; that no session is left without a      *)
(* class; and, for one window, that a class that runs has its session.     *)
(***************************************************************************)
EXTENDS ClassLifecycle, ClassStatesProofs, TLAPS

-----------------------------------------------------------------------------
(***************************************************************************)
(* Moves of the machine within a class                                     *)
(***************************************************************************)

\* What the audio thread, the timers and the turn dispatch moves a running
\* class within the class, and leaves any other state alone.
LEMMA InClassMoves ==
  ASSUME NEW s \in State,
         NEW e \in TurnEvents \cup {"WAKE_WORD_DETECTED", "ACTIVATION_EXPIRED"}
  PROVE  /\ s \in MicActive => TryDispatch(s, e) \in MicActive
         /\ s \notin MicActive => TryDispatch(s, e) = s
<1>1. CASE e = "WAKE_WORD_DETECTED"
  BY <1>1, WakeMove DEF MicActive
<1>2. CASE e \in {"CAPTURE_STARTED", "REQUEST_CAPTURED", "RESPONSE_STARTED"}
  BY <1>2, CaptureStarted, RequestCaptured, ResponseStartedMove DEF MicActive
<1>3. CASE e \in {"RESPONSE_FINISHED", "TURN_FAILED", "ACTIVATION_EXPIRED"}
  BY <1>3, ResponseFinishedMove, TurnFailed, ActivationExpired DEF MicActive
<1>4. CASE e \in {"INTERRUPT", "INTERRUPTION_HANDLED"}
  BY <1>4, InterruptMove, InterruptionHandledMove DEF MicActive
<1> QED BY <1>1, <1>2, <1>3, <1>4 DEF TurnEvents

-----------------------------------------------------------------------------
(***************************************************************************)
(* The inductive invariant                                                 *)
(***************************************************************************)

\* How the state, the microphones and the callback agree when no operation
\* is half way
Rest(s, m, e, x) ==
  /\ m # {} => s \in MicActive
  /\ m = {} => e = "idle"
  /\ s \in MicActive /\ "torn" \notin x => m # {}

\* What the operation that holds the lock knows of them at each of its steps:
\* nobody else leaves READY, PAUSED, IDLE or PREPARING meanwhile
Midway(r, s, m, e) ==
  /\ r.pc = "preparing" => s \in {"IDLE", "PREPARING"} /\ m = {} /\ e = "idle"
  /\ r.pc \in {"openMic", "announce"} =>
       \/ r.op = "start" /\ s = "READY"
       \/ r.op = "resume" /\ s = "PAUSED"
  /\ r.pc = "openMic" => m = {} /\ e = "idle"
  /\ r.pc = "announce" => m # {}
  /\ r.pc = "closeMic" => r.op = "pause" /\ s = "PAUSED"
  /\ r.pc = "closing" => /\ m = {} /\ r.op \in {"pause", "stop", "recover"}
                         /\ r.op = "pause" => s = "PAUSED"

\* Nobody but c holds the lock
Alone(c) == \A d \in Windows : d # c => request[d].pc \notin Inside

IInv ==
  /\ TypeOK
  /\ OneMicrophone
  /\ \A c \in Windows : request[c].pc \in Inside => Alone(c)
  /\ \A c \in Windows : Midway(request[c], state, mics, ear)
  /\ LockFree => Rest(state, mics, ear, stale)

-----------------------------------------------------------------------------
(***************************************************************************)
(* Types                                                                   *)
(***************************************************************************)

\* A request that goes on, or ends, is a request.
LEMMA RequestType ==
  ASSUME TypeOK, NEW c \in Windows, NEW r \in RequestRecord,
         request' = [request EXCEPT ![c] = r]
  PROVE  /\ request' \in [Windows -> RequestRecord]
         /\ request'[c] = r
         /\ \A d \in Windows : d # c => request'[d] = request[d]
BY DEF TypeOK

\* Goto changes where a request is, and nothing else of it.
LEMMA GotoType ==
  ASSUME TypeOK, NEW c \in Windows, NEW pc, Goto(c, pc),
         pc \in {"idle", "asked", "opening", "waiting", "returned", "raised"} \cup Inside
  PROVE  /\ request' \in [Windows -> RequestRecord]
         /\ request'[c].pc = pc /\ request'[c].op = request[c].op
         /\ \A d \in Windows : d # c => request'[d] = request[d]
BY DEF TypeOK, Goto, RequestRecord

\* A cancelled timer leaves timers.
LEMMA TimerCancelledType ==
  TypeOK =>
    TimerCancelled \in [armed : SUBSET Nat, woken : SUBSET Nat, due : SUBSET Nat, last : Nat]
BY DEF TypeOK, TimerCancelled

\* Whatever is dispatched, the class state stays one.
LEMMA Moved ==
  ASSUME TypeOK, NEW e
  PROVE  TryDispatch(state, e) \in State
BY DispatchType DEF TypeOK

\* Closing the session keeps the types.
LEMMA CloseType ==
  ASSUME TypeOK, CloseSession
  PROVE  active' \in BOOLEAN /\ stale' \in SUBSET Stale
BY DEF TypeOK, CloseSession, Stale

\* The first state has its types.
LEMMA InitType == Init => TypeOK
<1> SUFFICES ASSUME Init PROVE TypeOK
  OBVIOUS
<1>1. NoRequest \in RequestRecord
  BY DEF NoRequest, RequestRecord
<1>2. request \in [Windows -> RequestRecord]
  BY <1>1 DEF Init
<1>3. conversation \in BOOLEAN /\ "IDLE" \in State
  BY ClassAssumption DEF Init, State
<1>4. timers \in [armed : SUBSET Nat, woken : SUBSET Nat, due : SUBSET Nat, last : Nat]
  BY DEF Init
<1> QED BY <1>2, <1>3, <1>4 DEF Init, TypeOK

\* The steps of an endpoint on the event loop keep the types.
LEMMA LoopType ==
  ASSUME TypeOK, NEW c \in Windows,
         (\E op \in Operations : Press(c, op)) \/ Serve(c) \/ SessionOpens(c) \/ Answer(c)
  PROVE  TypeOK'
<1>1. CASE \E op \in Operations : Press(c, op)
  <2> PICK op \in Operations : Press(c, op)
    BY <1>1
  <2> USE DEF shown
  <2>1. [op |-> op, pc |-> "asked", closes |-> FALSE] \in RequestRecord
    BY DEF RequestRecord
  <2>2. request' \in [Windows -> RequestRecord]
    BY <2>1 DEF Press, TypeOK
  <2>3. spent' \in [requests : Nat, detections : Nat]
    BY DEF Press, TypeOK
  <2> QED BY <2>2, <2>3 DEF Press, TypeOK
<1>2. CASE Serve(c)
  <2>1. request[c] \in RequestRecord
    BY DEF TypeOK
  <2>2. NoRequest \in RequestRecord
    BY DEF NoRequest, RequestRecord
  <2>3. \A pc \in {"opening", "waiting"}, closes \in BOOLEAN :
          [request[c] EXCEPT !.pc = pc, !.closes = closes] \in RequestRecord
    BY <2>1 DEF RequestRecord
  <2>4. request' \in [Windows -> RequestRecord] /\ active' \in BOOLEAN
    BY <1>2, <2>2, <2>3 DEF Serve, TypeOK
  <2> QED BY <1>2, <2>4 DEF Serve, TypeOK, shown
<1>3. CASE SessionOpens(c)
  <2>1. NoRequest \in RequestRecord
    BY DEF NoRequest, RequestRecord
  <2>2. CASE Goto(c, "waiting") /\ UNCHANGED <<active, stale>>
    <3>1. request' \in [Windows -> RequestRecord]
      BY <2>2, GotoType
    <3> QED BY <1>3, <2>2, <3>1 DEF SessionOpens, TypeOK, shown
  <2>3. CASE request' = [request EXCEPT ![c] = NoRequest] /\ CloseSession
    BY <1>3, <2>1, <2>3, CloseType DEF SessionOpens, TypeOK, shown
  <2> QED BY <1>3, <2>2, <2>3 DEF SessionOpens
<1>4. CASE Answer(c)
  <2>1. NoRequest \in RequestRecord
    BY DEF NoRequest, RequestRecord
  <2>2. request' \in [Windows -> RequestRecord]
    BY <1>4, <2>1 DEF Answer, TypeOK
  <2>3. active' \in BOOLEAN /\ stale' \in SUBSET Stale
    <3>1. CloseSession \/ UNCHANGED <<active, stale>>
      BY <1>4 DEF Answer
    <3> QED BY <3>1, CloseType DEF TypeOK
  <2> QED BY <1>4, <2>2, <2>3 DEF Answer, TypeOK, shown
<1> QED BY <1>1, <1>2, <1>3, <1>4

\* The steps made with the lock of the controller keep the types.
LEMMA ControllerType ==
  ASSUME TypeOK, NEW c \in Windows, Controller(c)
  PROVE  TypeOK'
<1> USE Moved DEF Inside, Move, shown
<1>1. CASE Prepare(c)
  <2>1. /\ request' \in [Windows -> RequestRecord]
        /\ state' \in State /\ offered' \in SUBSET Operations
    BY <1>1, GotoType DEF Prepare, TypeOK
  <2>2. stale' \in SUBSET Stale
    BY <1>1 DEF Prepare, TypeOK, Stale
  <2> QED BY <1>1, <2>1, <2>2 DEF Prepare, TypeOK
<1>2. CASE StartClass(c)
  <2>1. [request[c] EXCEPT !.op = "resume", !.pc = "openMic"] \in RequestRecord
    BY DEF TypeOK, RequestRecord, Operations
  <2>2. request' \in [Windows -> RequestRecord]
    <3>1. CASE request' = [request EXCEPT ![c].op = "resume", ![c].pc = "openMic"]
      BY <3>1, <2>1 DEF TypeOK
    <3>2. CASE Goto(c, "raised") \/ Goto(c, "openMic")
      BY <3>2, GotoType
    <3> QED BY <1>2, <3>1, <3>2 DEF StartClass
  <2>3. /\ state' \in State /\ engine' \in Nat /\ offered' \in SUBSET Operations
        /\ stale' \in SUBSET Stale
    BY <1>2 DEF StartClass, TypeOK
  <2> QED BY <1>2, <2>2, <2>3 DEF StartClass, TypeOK
<1>3. CASE Resume(c)
  <2>1. request' \in [Windows -> RequestRecord]
    BY <1>3, GotoType DEF Resume
  <2> QED BY <1>3, <2>1 DEF Resume, TypeOK
<1>4. CASE OpenMic(c)
  <2>1. request' \in [Windows -> RequestRecord]
    BY <1>4, GotoType DEF OpenMic
  <2>2. /\ state' \in State /\ mics' \in SUBSET Nat /\ offered' \in SUBSET Operations
        /\ stale' \in SUBSET Stale
    BY <1>4 DEF OpenMic, TypeOK
  <2>3. timers' \in [armed : SUBSET Nat, woken : SUBSET Nat, due : SUBSET Nat, last : Nat]
    BY <1>4, TimerCancelledType DEF OpenMic, TypeOK
  <2> QED BY <1>4, <2>1, <2>2, <2>3 DEF OpenMic, TypeOK
<1>5. CASE Announce(c)
  <2>1. /\ request' \in [Windows -> RequestRecord]
        /\ state' \in State /\ offered' \in SUBSET Operations
    BY <1>5, GotoType DEF Announce, TypeOK
  <2> QED BY <1>5, <2>1 DEF Announce, TypeOK
<1>6. CASE Pause(c)
  <2>1. /\ request' \in [Windows -> RequestRecord]
        /\ state' \in State /\ offered' \in SUBSET Operations
    BY <1>6, GotoType DEF Pause, TypeOK
  <2> QED BY <1>6, <2>1 DEF Pause, TypeOK
<1>7. CASE CloseMic(c)
  <2>1. request' \in [Windows -> RequestRecord] /\ mics' \in SUBSET Nat
    BY <1>7, GotoType DEF CloseMic, TypeOK
  <2>2. timers' \in [armed : SUBSET Nat, woken : SUBSET Nat, due : SUBSET Nat, last : Nat]
    BY <1>7, TimerCancelledType DEF CloseMic
  <2> QED BY <1>7, <2>1, <2>2 DEF CloseMic, TypeOK
<1>8. CASE MicClosed(c)
  <2>1. /\ request' \in [Windows -> RequestRecord]
        /\ state' \in State /\ offered' \in SUBSET Operations
    BY <1>8, GotoType DEF MicClosed, TypeOK
  <2>2. stale' \in SUBSET Stale
    BY <1>8 DEF MicClosed, TypeOK, Stale
  <2> QED BY <1>8, <2>1, <2>2 DEF MicClosed, TypeOK
<1> QED BY <1>1, <1>2, <1>3, <1>4, <1>5, <1>6, <1>7, <1>8 DEF Controller

\* The audio thread, the timers and the turn keep the types.
LEMMA ThreadsType ==
  ASSUME TypeOK, FrameArrives \/ AudioCallback \/ Timers \/ TurnMoves
  PROVE  TypeOK'
<1> USE Moved DEF Move, shown
<1>1. CASE FrameArrives
  BY <1>1 DEF FrameArrives, Hearing, TypeOK
<1>2. CASE NothingHeard
  BY <1>2 DEF NothingHeard, Hearing, TypeOK
<1>3. CASE PhraseHeard
  <2>1. spent' \in [requests : Nat, detections : Nat]
    BY <1>3 DEF PhraseHeard, TypeOK
  <2> QED BY <1>3, <2>1 DEF PhraseHeard, Hearing, TypeOK
<1>4. CASE WakeUp
  BY <1>4 DEF WakeUp, Hearing, TypeOK
<1>5. CASE NotifyDetection
  <2>1. timers' \in [armed : SUBSET Nat, woken : SUBSET Nat, due : SUBSET Nat, last : Nat]
    BY <1>5, TimerCancelledType DEF NotifyDetection, TypeOK
  <2> QED BY <1>5, <2>1 DEF NotifyDetection, Hearing, TypeOK
<1>6. CASE TimerWakes
  <2>1. timers' \in [armed : SUBSET Nat, woken : SUBSET Nat, due : SUBSET Nat, last : Nat]
    <3>1. PICK t \in timers.armed :
             timers' = [timers EXCEPT !.armed = @ \ {t}, !.woken = @ \cup {t}]
      BY <1>6 DEF TimerWakes
    <3>2. /\ timers.armed \ {t} \in SUBSET Nat
          /\ timers.woken \cup {t} \in SUBSET Nat
      BY DEF TypeOK
    <3> QED BY <3>1, <3>2 DEF TypeOK
  <2> QED BY <1>6, <2>1 DEF TimerWakes, Ticking, Hearing, TypeOK
<1>7. CASE TimerForgotten
  <2>1. timers' \in [armed : SUBSET Nat, woken : SUBSET Nat, due : SUBSET Nat, last : Nat]
    <3>1. PICK t \in timers.woken :
             timers' = [timers EXCEPT !.woken = @ \ {t}, !.due = @ \cup {t}, !.last = 0]
      BY <1>7 DEF TimerForgotten
    <3>2. /\ timers.woken \ {t} \in SUBSET Nat
          /\ timers.due \cup {t} \in SUBSET Nat
      BY DEF TypeOK
    <3> QED BY <3>1, <3>2 DEF TypeOK
  <2> QED BY <1>7, <2>1 DEF TimerForgotten, Ticking, Hearing, TypeOK
<1>8. CASE ExpireActivation
  BY <1>8 DEF ExpireActivation, Ticking, Hearing, TypeOK
<1>9. CASE TurnMoves
  BY <1>9 DEF TurnMoves, Ticking, Hearing, TypeOK
<1> QED BY <1>1, <1>2, <1>3, <1>4, <1>5, <1>6, <1>7, <1>8, <1>9 DEF AudioCallback, Timers

\* Every variable keeps its type.
THEOREM TypeCorrect == Spec => []TypeOK
<1>1. TypeOK /\ [Next]_vars => TypeOK'
  <2> SUFFICES ASSUME TypeOK, [Next]_vars PROVE TypeOK'
    OBVIOUS
  <2>1. CASE \E c \in Windows : Endpoint(c) \/ \E op \in Operations : Press(c, op)
    BY <2>1, LoopType, ControllerType DEF Endpoint
  <2>2. CASE FrameArrives \/ AudioCallback \/ Timers \/ TurnMoves
    BY <2>2, ThreadsType
  <2>3. CASE UNCHANGED vars
    BY <2>3 DEF vars, TypeOK
  <2> QED BY <2>1, <2>2, <2>3 DEF Next
<1> QED BY <1>1, InitType, PTL DEF Spec

-----------------------------------------------------------------------------
(***************************************************************************)
(* The invariant is inductive                                              *)
(***************************************************************************)

\* The state of an idle application is at rest.
LEMMA InitInv == Init => IInv
<1> SUFFICES ASSUME Init PROVE IInv
  OBVIOUS
<1>1. \A c \in Windows : request[c].pc = "idle"
  BY DEF Init, NoRequest
<1>2. OneMicrophone /\ Rest(state, mics, ear, stale)
  BY DEF Init, OneMicrophone, Rest, MicActive
<1>3. \A c \in Windows : request[c].pc \notin Inside /\ Midway(request[c], state, mics, ear)
  BY <1>1 DEF Inside, Midway
<1> QED BY InitType, <1>2, <1>3 DEF IInv

\* Whoever takes the lock, or has it, is alone, and finds things as its step
\* expects them or at rest.
LEMMA Holder ==
  ASSUME IInv, NEW c \in Windows, LockFree \/ request[c].pc \in Inside
  PROVE  /\ Alone(c)
         /\ Midway(request[c], state, mics, ear)
         /\ LockFree => Rest(state, mics, ear, stale)
BY DEF IInv, LockFree, Alone

\* A step of the request of c, alone with the lock before and after it or
\* giving it back, has only its own facts to establish.
LEMMA HolderStep ==
  ASSUME IInv, NEW c \in Windows, Alone(c), TypeOK', OneMicrophone',
         \A d \in Windows : d # c => request'[d] = request[d],
         Midway(request'[c], state', mics', ear'),
         request'[c].pc \notin Inside => Rest(state', mics', ear', stale')
  PROVE  IInv'
<1>1. \A d \in Windows : d # c => request'[d].pc \notin Inside
  BY DEF Alone
<1>2. \A d \in Windows : request'[d].pc \in Inside => Alone(d)'
  BY <1>1 DEF Alone
<1>3. \A d \in Windows : d # c => Midway(request'[d], state', mics', ear')
  BY <1>1 DEF Midway, Inside
<1>4. LockFree' => request'[c].pc \notin Inside
  BY DEF LockFree
<1> QED BY <1>2, <1>3, <1>4 DEF IInv

\* A step of c that neither has nor takes the lock leaves it to the others.
LEMMA LoopInv ==
  ASSUME IInv, NEW c \in Windows,
         (\E op \in Operations : Press(c, op)) \/ Serve(c) \/ SessionOpens(c) \/ Answer(c)
  PROVE  IInv'
<1>1. TypeOK'
  BY LoopType DEF IInv
<1>2. UNCHANGED <<state, engine, mics, ear>> /\ ("torn" \in stale <=> "torn" \in stale')
  BY DEF Press, Serve, SessionOpens, Answer, CloseSession, shown
<1>3. request[c].pc \notin Inside
  BY DEF Press, Serve, SessionOpens, Answer, NoRequest, Inside
<1>4. /\ request'[c].pc \notin Inside
      /\ \A d \in Windows : d # c => request'[d] = request[d]
  <2>1. request \in [Windows -> RequestRecord]
    BY DEF IInv, TypeOK
  <2>2. CASE \E op \in Operations : Press(c, op)
    <3> PICK op \in Operations : Press(c, op)
      BY <2>2
    <3>1. /\ request'[c] = [op |-> op, pc |-> "asked", closes |-> FALSE]
          /\ \A d \in Windows : d # c => request'[d] = request[d]
      BY <2>1 DEF Press
    <3> QED BY <3>1 DEF Inside
  <2>3. CASE Serve(c)
    <3>1. request[c] \in RequestRecord
      BY <2>1
    <3>2. \A pc, closes : [request[c] EXCEPT !.pc = pc, !.closes = closes].pc = pc
      BY <3>1 DEF RequestRecord
    <3>3. CASE request' = [request EXCEPT ![c] = NoRequest]
      BY <2>1, <3>3 DEF NoRequest, Inside
    <3>4. CASE \E pc \in {"opening", "waiting"}, closes \in BOOLEAN :
                 request' = [request EXCEPT ![c].pc = pc, ![c].closes = closes]
      <4> PICK pc \in {"opening", "waiting"}, closes \in BOOLEAN :
             request' = [request EXCEPT ![c].pc = pc, ![c].closes = closes]
        BY <3>4
      <4>1. /\ request'[c] = [request[c] EXCEPT !.pc = pc, !.closes = closes]
            /\ \A d \in Windows : d # c => request'[d] = request[d]
        BY <2>1
      <4> QED BY <3>2, <4>1 DEF Inside
    <3> QED BY <2>3, <3>3, <3>4 DEF Serve
  <2>4. CASE SessionOpens(c)
    <3>1. CASE Goto(c, "waiting")
      BY <3>1, GotoType DEF IInv, Inside
    <3>2. CASE request' = [request EXCEPT ![c] = NoRequest]
      BY <2>1, <3>2 DEF NoRequest, Inside
    <3> QED BY <2>4, <3>1, <3>2 DEF SessionOpens
  <2>5. CASE Answer(c)
    BY <2>1, <2>5 DEF Answer, NoRequest, Inside
  <2> QED BY <2>2, <2>3, <2>4, <2>5
<1>5. \A d \in Windows : request'[d].pc \in Inside => request'[d] = request[d]
  BY <1>4
<1>6. \A d \in Windows : request[d].pc \in Inside => request'[d].pc \in Inside
  BY <1>3, <1>4
<1>7. OneMicrophone'
  BY <1>2 DEF IInv, OneMicrophone
<1>8. \A d \in Windows : request'[d].pc \in Inside => Alone(d)'
  BY <1>4, <1>5 DEF IInv, Alone
<1>9. \A d \in Windows : Midway(request'[d], state', mics', ear')
  <2> TAKE d \in Windows
  <2>1. CASE request'[d].pc \in Inside
    <3>1. Midway(request[d], state, mics, ear) /\ request'[d] = request[d]
      BY <2>1, <1>5 DEF IInv
    <3> QED BY <1>2, <3>1
  <2>2. CASE request'[d].pc \notin Inside
    BY <2>2 DEF Midway, Inside
  <2> QED BY <2>1, <2>2
<1>10. LockFree' => Rest(state', mics', ear', stale')
  BY <1>2, <1>6 DEF IInv, LockFree, Rest
<1> QED BY <1>1, <1>7, <1>8, <1>9, <1>10 DEF IInv

\* The steps made with the lock.
LEMMA ControllerInv ==
  ASSUME IInv, NEW c \in Windows, Controller(c)
  PROVE  IInv'
<1> USE DEF Inside, Move, shown
<1>1. /\ TypeOK' /\ TypeOK
      /\ OneMicrophone /\ state \in State
      /\ request \in [Windows -> RequestRecord]
  BY ControllerType DEF IInv, TypeOK
<1>2. LockFree \/ request[c].pc \in Inside
  BY DEF Controller, Prepare, StartClass, Resume, OpenMic, Announce, Pause, CloseMic,
         MicClosed, Locks
<1>3. /\ Alone(c)
      /\ Midway(request[c], state, mics, ear)
      /\ LockFree => Rest(state, mics, ear, stale)
  BY <1>2, Holder
<1>4. CASE Prepare(c)
  <2>1. PICK pc \in {"returned", "preparing", "raised"} : Goto(c, pc)
    BY <1>4 DEF Prepare
  <2>2. /\ request'[c].pc = pc
        /\ \A d \in Windows : d # c => request'[d] = request[d]
    BY <1>1, <2>1, GotoType
  <2>3. UNCHANGED <<engine, mics, ear>> /\ ("torn" \in stale <=> "torn" \in stale')
    BY <1>4 DEF Prepare
  <2>4. CASE request[c].pc = "waiting"
    <3>1. Rest(state, mics, ear, stale)
      BY <1>3, <1>4, <2>4 DEF Prepare, Locks
    <3>2. /\ pc \in {"returned", "raised"} => state' = state
          /\ pc = "preparing" => state \in {"STOPPED", "ERROR", "IDLE"} /\ state' \in {"IDLE", "PREPARING"}
      BY <1>1, <1>4, <2>1, <2>2, <2>4, GotoType, ResetMove, CreateSessionMove DEF Prepare
    <3>3. pc = "preparing" => mics = {} /\ ear = "idle"
      BY <3>1, <3>2 DEF Rest, MicActive
    <3> QED BY <1>1, <1>3, <2>2, <2>3, <3>1, <3>2, <3>3, HolderStep
            DEF Midway, OneMicrophone, Rest
  <2>5. CASE request[c].pc = "preparing"
    <3>1. mics = {} /\ ear = "idle" /\ state \in {"IDLE", "PREPARING"}
      BY <1>3, <2>5 DEF Midway
    <3>2. pc = "preparing" => state' \in {"IDLE", "PREPARING"}
      BY <1>1, <1>4, <2>1, <2>2, <2>5, <3>1, GotoType, CreateSessionMove DEF Prepare
    <3>3. pc \in {"returned", "raised"} => state' \notin MicActive
      BY <1>1, <1>4, <2>1, <2>2, <2>5, <3>1, GotoType, SessionPreparedMove
         DEF Prepare, MicActive
    <3> QED BY <1>1, <1>3, <2>2, <2>3, <3>1, <3>2, <3>3, HolderStep
            DEF Midway, OneMicrophone, Rest
  <2> QED BY <1>4, <2>4, <2>5 DEF Prepare, Locks
<1>5. CASE StartClass(c)
  <2>1. /\ request[c].op = "start"
        /\ Rest(state, mics, ear, stale)
        /\ UNCHANGED <<mics, ear>>
    BY <1>3, <1>5 DEF StartClass, Locks
  <2>2. state \in {"PAUSED", "READY"} => mics = {} /\ ear = "idle"
    BY <2>1 DEF Rest, MicActive
  <2>3. CASE /\ state = "PAUSED"
             /\ request' = [request EXCEPT ![c].op = "resume", ![c].pc = "openMic"]
             /\ UNCHANGED <<state, engine>>
    <3>1. /\ request'[c].pc = "openMic" /\ request'[c].op = "resume"
          /\ \A d \in Windows : d # c => request'[d] = request[d]
      <4>1. request[c] \in RequestRecord
        BY <1>1
      <4>2. request'[c] = [request[c] EXCEPT !.op = "resume", !.pc = "openMic"]
        BY <1>1, <2>3
      <4> QED BY <1>1, <2>3, <4>1, <4>2 DEF RequestRecord
    <3> QED BY <1>1, <1>3, <2>1, <2>2, <2>3, <3>1, HolderStep DEF Midway, OneMicrophone
  <2>4. CASE Goto(c, "raised") /\ UNCHANGED <<state, engine, stale>>
    <3>1. /\ request'[c].pc = "raised"
          /\ \A d \in Windows : d # c => request'[d] = request[d]
      BY <1>1, <2>4, GotoType
    <3> QED BY <1>1, <1>3, <2>1, <2>4, <3>1, HolderStep DEF Midway, OneMicrophone
  <2>5. CASE /\ Can(state, "START_CLASS")
             /\ Move("FAIL") /\ Goto(c, "raised") /\ UNCHANGED <<engine, stale>>
    <3>1. /\ request'[c].pc = "raised"
          /\ \A d \in Windows : d # c => request'[d] = request[d]
      BY <1>1, <2>5, GotoType
    <3>2. state = "READY" /\ state' = "ERROR"
      BY <1>1, <2>5, StartClassMove, FailMove DEF State
    <3> QED BY <1>1, <1>3, <2>1, <2>2, <2>5, <3>1, <3>2, HolderStep
            DEF Midway, OneMicrophone, Rest, MicActive
  <2>6. CASE /\ Can(state, "START_CLASS")
             /\ engine' = engine + 1 /\ Goto(c, "openMic") /\ UNCHANGED state
    <3>1. /\ request'[c].pc = "openMic" /\ request'[c].op = "start"
          /\ \A d \in Windows : d # c => request'[d] = request[d]
      BY <1>1, <2>1, <2>6, GotoType
    <3>2. state = "READY"
      BY <1>1, <2>6, StartClassMove
    <3> QED BY <1>1, <1>3, <2>1, <2>2, <2>6, <3>1, <3>2, HolderStep
            DEF Midway, OneMicrophone
  <2> QED BY <1>5, <2>3, <2>4, <2>5, <2>6 DEF StartClass
<1>6. CASE Resume(c)
  <2>1. /\ request[c].op = "resume" /\ Rest(state, mics, ear, stale)
        /\ UNCHANGED <<state, engine, mics, ear, stale>>
    BY <1>3, <1>6 DEF Resume, Locks
  <2>2. PICK pc \in {"openMic", "raised"} :
          Goto(c, pc) /\ (pc = "openMic" => state = "PAUSED")
    BY <1>6 DEF Resume
  <2>3. /\ request'[c].pc = pc /\ request'[c].op = "resume"
        /\ \A d \in Windows : d # c => request'[d] = request[d]
    BY <1>1, <2>1, <2>2, GotoType
  <2>4. state = "PAUSED" => mics = {} /\ ear = "idle"
    BY <2>1 DEF Rest, MicActive
  <2> QED BY <1>1, <1>3, <2>1, <2>2, <2>3, <2>4, HolderStep DEF Midway, OneMicrophone
<1>7. CASE OpenMic(c)
  <2>1. /\ mics = {} /\ ear = "idle" /\ UNCHANGED <<engine, ear>>
        /\ \/ request[c].op = "start" /\ state = "READY"
           \/ request[c].op = "resume" /\ state = "PAUSED"
    BY <1>3, <1>7 DEF OpenMic, Midway
  <2>2. CASE mics' = mics \cup {engine} /\ Goto(c, "announce") /\ UNCHANGED state
    <3>1. /\ request'[c].pc = "announce" /\ request'[c].op = request[c].op
          /\ \A d \in Windows : d # c => request'[d] = request[d]
      BY <1>1, <2>2, GotoType
    <3> QED BY <1>1, <1>3, <2>1, <2>2, <3>1, HolderStep DEF Midway, OneMicrophone
  <2>3. CASE Move("FAIL") /\ Goto(c, "raised") /\ UNCHANGED mics
    <3>0. state' = "ERROR"
      BY <1>1, <2>1, <2>3, FailMove DEF State
    <3>1. /\ request'[c].pc = "raised"
          /\ \A d \in Windows : d # c => request'[d] = request[d]
      BY <1>1, <2>3, GotoType
    <3> QED BY <1>1, <1>3, <2>1, <2>3, <3>0, <3>1, HolderStep
            DEF Midway, OneMicrophone, Rest, MicActive
  <2> QED BY <1>7, <2>2, <2>3 DEF OpenMic
<1>8. CASE Announce(c)
  <2>1. /\ mics # {} /\ UNCHANGED <<engine, mics, ear>>
        /\ \/ request[c].op = "start" /\ state = "READY"
           \/ request[c].op = "resume" /\ state = "PAUSED"
    BY <1>3, <1>8 DEF Announce, Midway
  <2>2. state' = "PASSIVE_LISTENING" /\ Goto(c, "returned")
    BY <1>1, <1>8, <2>1, StartClassMove, ResumeMove DEF Announce
  <2>3. /\ request'[c].pc = "returned"
        /\ \A d \in Windows : d # c => request'[d] = request[d]
    BY <1>1, <2>2, GotoType
  <2> QED BY <1>1, <1>3, <2>1, <2>2, <2>3, HolderStep
          DEF Midway, OneMicrophone, Rest, MicActive
<1>9. CASE Pause(c)
  <2>1. /\ request[c].op = "pause" /\ Rest(state, mics, ear, stale)
        /\ UNCHANGED <<engine, mics, ear, stale>>
    BY <1>3, <1>9 DEF Pause, Locks
  <2>2. PICK pc \in {"closeMic", "raised"} :
          /\ Goto(c, pc)
          /\ pc = "closeMic" => state' = "PAUSED"
          /\ pc = "raised" => state' = state
    BY <1>1, <1>9, PauseMove DEF Pause
  <2>3. /\ request'[c].pc = pc /\ request'[c].op = "pause"
        /\ \A d \in Windows : d # c => request'[d] = request[d]
    BY <1>1, <2>1, <2>2, GotoType
  <2> QED BY <1>1, <1>3, <2>1, <2>2, <2>3, HolderStep DEF Midway, OneMicrophone, Rest
<1>10. CASE CloseMic(c)
  <2>1. /\ mics' = {} /\ UNCHANGED <<state, engine, ear>>
        /\ request[c].op \in {"pause", "stop", "recover"}
        /\ request[c].op = "pause" => state = "PAUSED"
    BY <1>1, <1>3, <1>10 DEF CloseMic, Locks, Midway, OneMicrophone
  <2>2. /\ request'[c].pc = "closing" /\ request'[c].op = request[c].op
        /\ \A d \in Windows : d # c => request'[d] = request[d]
    BY <1>1, <1>10, GotoType DEF CloseMic
  <2> QED BY <1>1, <1>3, <2>1, <2>2, HolderStep DEF Midway, OneMicrophone
<1>11. CASE MicClosed(c)
  <2>1. mics = {} /\ ear = "idle" /\ UNCHANGED <<engine, mics, ear>>
    BY <1>3, <1>11 DEF MicClosed, Midway
  <2>2. PICK pc \in {"returned", "raised"} : Goto(c, pc)
    BY <1>11 DEF MicClosed
  <2>4. state' \notin MicActive \/ "torn" \in stale'
    <3>1. CASE request[c].op = "pause"
      BY <1>3, <1>11, <3>1 DEF MicClosed, Midway, MicActive
    <3>2. CASE request[c].op = "stop"
      <4>1. Move("STOP")
        BY <1>11, <3>2 DEF MicClosed
      <4> QED BY <1>1, <4>1, StopMove DEF MicActive
    <3>3. CASE request[c].op = "recover"
      <4>1. CASE Move("RECOVER") /\ Can(state, "RECOVER")
        BY <1>1, <4>1, RecoverMove DEF MicActive
      <4>2. CASE stale' = stale \cup {"torn"}
        BY <4>2
      <4> QED BY <1>11, <3>3, <4>1, <4>2 DEF MicClosed
    <3> QED BY <1>11, <3>1, <3>2, <3>3 DEF MicClosed
  <2>3. /\ request'[c].pc = pc
        /\ \A d \in Windows : d # c => request'[d] = request[d]
    BY <1>1, <2>2, GotoType
  <2> QED BY <1>1, <1>3, <2>1, <2>2, <2>3, <2>4, HolderStep
          DEF Midway, OneMicrophone, Rest
<1> QED BY <1>4, <1>5, <1>6, <1>7, <1>8, <1>9, <1>10, <1>11 DEF Controller

\* Whatever the other threads dispatch stays within the class.
LEMMA WithinClass ==
  ASSUME TypeOK, FrameArrives \/ AudioCallback \/ Timers \/ TurnMoves
  PROVE  /\ state' \in State
         /\ state \in MicActive => state' \in MicActive
         /\ state \notin MicActive => state' = state
<1>1. TypeOK' /\ state \in State
  BY ThreadsType DEF TypeOK
<1> USE DEF Move, shown
<1>2. CASE \E e \in TurnEvents \cup {"WAKE_WORD_DETECTED", "ACTIVATION_EXPIRED"} :
             state' = TryDispatch(state, e)
  BY <1>1, <1>2, InClassMoves DEF TypeOK
<1>3. CASE WakeUp \/ ExpireActivation
  BY <1>2, <1>3 DEF WakeUp, ExpireActivation
<1>4. CASE TurnMoves
  BY <1>2, <1>4 DEF TurnMoves
<1>5. CASE FrameArrives \/ NothingHeard \/ PhraseHeard \/ NotifyDetection
           \/ TimerWakes \/ TimerForgotten
  BY <1>1, <1>5 DEF FrameArrives, NothingHeard, PhraseHeard, NotifyDetection, TimerWakes,
                    TimerForgotten
<1> QED BY <1>3, <1>4, <1>5 DEF AudioCallback, Timers

\* The other threads: a callback begins only with a microphone open, and
\* whatever they dispatch stays within the class.
LEMMA ThreadsInv ==
  ASSUME IInv, FrameArrives \/ AudioCallback \/ Timers \/ TurnMoves
  PROVE  IInv'
<1>1. TypeOK' /\ state \in State
  BY ThreadsType DEF IInv, TypeOK
<1>2. UNCHANGED <<request, engine, mics, stale>>
  BY DEF FrameArrives, AudioCallback, NothingHeard, PhraseHeard, WakeUp, NotifyDetection,
         Timers, TimerWakes, TimerForgotten, ExpireActivation, TurnMoves, Ticking, Hearing
<1>3. mics = {} /\ ear = "idle" => ear' = "idle"
  BY DEF FrameArrives, AudioCallback, NothingHeard, PhraseHeard, WakeUp, NotifyDetection,
         Timers, TimerWakes, TimerForgotten, ExpireActivation, TurnMoves, Ticking, Hearing
<1>4. /\ state \in MicActive => state' \in MicActive
      /\ state \notin MicActive => state' = state
  BY WithinClass DEF IInv
<1>5. Rest(state, mics, ear, stale) => Rest(state', mics', ear', stale')
  BY <1>2, <1>3, <1>4 DEF Rest
<1>6. \A c \in Windows :
        Midway(request[c], state, mics, ear) => Midway(request'[c], state', mics', ear')
  BY <1>2, <1>3, <1>4 DEF Midway, MicActive
<1> QED BY <1>1, <1>2, <1>5, <1>6 DEF IInv, OneMicrophone, LockFree, Alone

\* What every reachable state satisfies, and the induction behind the
\* theorems below.
THEOREM Invariant == Spec => []IInv
<1>1. IInv /\ [Next]_vars => IInv'
  <2> SUFFICES ASSUME IInv, [Next]_vars PROVE IInv'
    OBVIOUS
  <2>1. CASE \E c \in Windows : Endpoint(c) \/ \E op \in Operations : Press(c, op)
    BY <2>1, LoopInv, ControllerInv DEF Endpoint
  <2>2. CASE FrameArrives \/ AudioCallback \/ Timers \/ TurnMoves
    BY <2>2, ThreadsInv
  <2>3. CASE UNCHANGED vars
    BY <2>3 DEF vars, IInv, TypeOK, OneMicrophone, Alone, Midway, LockFree, Rest
  <2> QED BY <2>1, <2>2, <2>3 DEF Next
<1> QED BY <1>1, InitInv, PTL DEF Spec

\* When no operation is half way, an open microphone is one the state shows
\* as open, for any number of windows pressing any buttons.
THEOREM MicAnnounced == Spec => []OpenMicIsAnnounced
<1>1. IInv => OpenMicIsAnnounced
  BY DEF IInv, Rest, OpenMicIsAnnounced
<1> QED BY <1>1, Invariant, PTL

\* The state never shows as open a microphone that is closed, for any number
\* of windows: but for a refused recover, which the run class_recover shows.
THEOREM MicShownIsOpen == Spec => []SilentOnlyWhenTorn
<1>1. IInv => SilentOnlyWhenTorn
  BY DEF IInv, Rest, SilentOnlyWhenTorn, IndicatorIsHonest
<1> QED BY <1>1, Invariant, PTL

\* No microphone stays open behind an engine the controller has let go.
THEOREM SingleMicrophone == Spec => []OneMicrophone
<1>1. IInv => OneMicrophone
  BY DEF IInv
<1> QED BY <1>1, Invariant, PTL

\* When the operation that closed the microphone is over, nothing is heard.
THEOREM ClosedIsQuiet == Spec => []ClosedMicIsQuiet
<1>1. IInv => ClosedMicIsQuiet
  BY DEF IInv, Rest, ClosedMicIsQuiet
<1> QED BY <1>1, Invariant, PTL

-----------------------------------------------------------------------------
(***************************************************************************)
(* The end of a session, for any number of windows                         *)
(***************************************************************************)

\* A request that will close the session, unless its class starts
Closer(r) ==
  \/ r.pc = "returned" /\ r.op \in {"stop", "recover"}
  \/ r.closes /\ r.pc \in {"opening", "waiting", "openMic", "announce", "raised"}

\* A session that is open belongs to a class, was kept, or is about to be
\* closed
Owed ==
  /\ \A c \in Windows : request[c].closes => request[c].op \in {"start", "resume"}
  /\ active => \/ state \in Running \cup {"ERROR"}
               \/ "kept" \in stale
               \/ \E c \in Windows : Closer(request[c])

\* A step of the request of c answers for the session when the class, what is
\* kept or the request itself does, or when it changes none of what did.
LEMMA OwedStep ==
  ASSUME Owed, NEW c \in Windows,
         \A d \in Windows : d # c => request'[d] = request[d],
         request'[c].closes => request'[c].op \in {"start", "resume"},
         active' => \/ state' \in Running \cup {"ERROR"}
                    \/ "kept" \in stale'
                    \/ Closer(request'[c])
                    \/ /\ active /\ state \notin Running \cup {"ERROR"}
                       /\ "kept" \notin stale /\ ~Closer(request[c])
  PROVE  Owed'
<1>1. \A d \in Windows : request'[d].closes => request'[d].op \in {"start", "resume"}
  BY DEF Owed
<1>2. ASSUME active', state' \notin Running \cup {"ERROR"}, "kept" \notin stale'
      PROVE  \E d \in Windows : Closer(request'[d])
  <2>1. CASE Closer(request'[c])
    BY <2>1
  <2>2. CASE /\ active /\ state \notin Running \cup {"ERROR"}
             /\ "kept" \notin stale /\ ~Closer(request[c])
    <3>1. PICK d \in Windows : Closer(request[d])
      BY <2>2 DEF Owed
    <3>2. request'[d] = request[d]
      BY <2>2, <3>1
    <3> QED BY <3>1, <3>2
  <2> QED BY <1>2, <2>1, <2>2
<1> QED BY <1>1, <1>2 DEF Owed

\* The endpoint: a start that opens a session will close it, and one that
\* ends without closing had nothing to close.
LEMMA OwedLoop ==
  ASSUME IInv, Owed, NEW c \in Windows,
         (\E op \in Operations : Press(c, op)) \/ Serve(c) \/ SessionOpens(c) \/ Answer(c)
  PROVE  Owed'
<1>1. /\ TypeOK /\ request \in [Windows -> RequestRecord] /\ request[c] \in RequestRecord
      /\ active \in BOOLEAN
      /\ request[c].closes => request[c].op \in {"start", "resume"}
  BY DEF IInv, TypeOK, Owed
<1>2. state' = state
  BY DEF Press, Serve, SessionOpens, Answer, shown
<1>3. CASE \E op \in Operations : Press(c, op)
  <2> PICK op \in Operations : Press(c, op)
    BY <1>3
  <2>1. /\ request[c] = NoRequest /\ UNCHANGED <<active, stale>>
        /\ request'[c] = [op |-> op, pc |-> "asked", closes |-> FALSE]
        /\ \A d \in Windows : d # c => request'[d] = request[d]
    BY <1>1 DEF Press
  <2> QED BY <1>2, <2>1, OwedStep DEF NoRequest, Closer
<1>4. CASE Serve(c)
  <2> DEFINE start == request[c].op = "start"
             closes == start /\ state # "PAUSED"
             opens == closes /\ conversation /\ ~active
  <2>1. request[c].pc = "asked" /\ UNCHANGED stale
    BY <1>4 DEF Serve
  <2>2. CASE opens /\ active' = TRUE
             /\ request' = [request EXCEPT ![c].pc = "opening", ![c].closes = TRUE]
    <3>1. /\ request'[c] = [request[c] EXCEPT !.pc = "opening", !.closes = TRUE]
          /\ \A d \in Windows : d # c => request'[d] = request[d]
      BY <1>1, <2>2
    <3>2. request'[c].pc = "opening" /\ request'[c].op = "start" /\ request'[c].closes
      BY <1>1, <2>2, <3>1 DEF RequestRecord
    <3> QED BY <3>1, <3>2, OwedStep DEF Closer
  <2>3. CASE opens /\ UNCHANGED active /\ request' = [request EXCEPT ![c] = NoRequest]
    <3>1. /\ request'[c] = NoRequest /\ ~active'
          /\ \A d \in Windows : d # c => request'[d] = request[d]
      BY <1>1, <2>3
    <3> QED BY <3>1, OwedStep DEF NoRequest
  <2>4. CASE ~opens /\ UNCHANGED active
             /\ request' = [request EXCEPT ![c].pc = "waiting", ![c].closes = closes]
    <3>1. /\ request'[c] = [request[c] EXCEPT !.pc = "waiting", !.closes = closes]
          /\ \A d \in Windows : d # c => request'[d] = request[d]
      BY <1>1, <2>4
    <3>2. /\ request'[c].op = request[c].op
          /\ request'[c].closes => request[c].op = "start"
      BY <1>1, <3>1 DEF RequestRecord
    <3>3. ~Closer(request[c])
      BY <2>1 DEF Closer
    <3> QED BY <1>2, <2>1, <2>4, <3>1, <3>2, <3>3, OwedStep
  <2> QED BY <1>4, <2>2, <2>3, <2>4 DEF Serve
<1>5. CASE SessionOpens(c)
  <2>1. CASE Goto(c, "waiting") /\ UNCHANGED <<active, stale>>
    <3>1. /\ request'[c].pc = "waiting" /\ request'[c].op = request[c].op
          /\ request'[c].closes = request[c].closes
          /\ \A d \in Windows : d # c => request'[d] = request[d]
      BY <1>1, <2>1 DEF Goto, RequestRecord
    <3>2. request[c].pc = "opening"
      BY <1>5 DEF SessionOpens
    <3>3. Closer(request[c]) => Closer(request'[c])
      BY <3>1, <3>2 DEF Closer
    <3> QED BY <1>1, <1>2, <2>1, <3>1, <3>3, OwedStep
  <2>2. CASE request' = [request EXCEPT ![c] = NoRequest] /\ CloseSession
    <3>1. /\ request'[c] = NoRequest /\ ~active'
          /\ \A d \in Windows : d # c => request'[d] = request[d]
      BY <1>1, <2>2 DEF CloseSession
    <3> QED BY <3>1, OwedStep DEF NoRequest
  <2> QED BY <1>5, <2>1, <2>2 DEF SessionOpens
<1>6. CASE Answer(c)
  <2>1. /\ request'[c] = NoRequest
        /\ \A d \in Windows : d # c => request'[d] = request[d]
    BY <1>1, <1>6 DEF Answer
  <2>2. CASE CloseSession
    BY <2>1, <2>2, OwedStep DEF CloseSession, NoRequest
  <2>3. CASE UNCHANGED <<active, stale>> /\ ~CloseSession
    <3>1. ~Closer(request[c])
      BY <1>6, <2>3 DEF Answer, Closer
    <3> QED BY <1>2, <2>1, <2>3, <3>1, OwedStep DEF NoRequest
  <2> QED BY <1>6, <2>2, <2>3 DEF Answer
<1> QED BY <1>3, <1>4, <1>5, <1>6

\* The steps made with the lock: a request that takes a class out of where its
\* session is due closes it afterwards.
LEMMA OwedController ==
  ASSUME IInv, Owed, NEW c \in Windows, Controller(c)
  PROVE  Owed'
<1> USE DEF Inside, Move, shown
<1>1. /\ TypeOK /\ request \in [Windows -> RequestRecord] /\ request[c] \in RequestRecord
      /\ state \in State
      /\ request[c].closes => request[c].op \in {"start", "resume"}
      /\ Midway(request[c], state, mics, ear)
  BY DEF IInv, TypeOK, Owed
<1>2. active' = active
  BY DEF Controller, Prepare, StartClass, Resume, OpenMic, Announce, Pause, CloseMic,
         MicClosed
<1>3. ASSUME NEW pc \in {"preparing", "openMic", "announce", "closeMic", "closing",
                         "returned", "raised"}, Goto(c, pc)
      PROVE  /\ request'[c].pc = pc /\ request'[c].op = request[c].op
             /\ request'[c].closes = request[c].closes
             /\ \A d \in Windows : d # c => request'[d] = request[d]
  BY <1>1, <1>3 DEF Goto, RequestRecord
<1>4. CASE Prepare(c)
  <2>1. PICK pc \in {"returned", "preparing", "raised"} : Goto(c, pc)
    BY <1>4 DEF Prepare
  <2>2. /\ request'[c].closes = request[c].closes /\ request'[c].op = request[c].op
        /\ \A d \in Windows : d # c => request'[d] = request[d]
    BY <1>3, <2>1
  <2>3. ~Closer(request[c])
    <3>1. \/ request[c].op = "prepare" /\ request[c].pc = "waiting"
          \/ request[c].pc = "preparing"
      BY <1>4 DEF Prepare, Locks
    <3> QED BY <1>1, <3>1 DEF Closer
  <2>4. active /\ state \in Running \cup {"ERROR"} =>
          state' \in Running \cup {"ERROR"} \/ "kept" \in stale'
    <3>1. request[c].pc = "preparing" => state \notin Running \cup {"ERROR"}
      BY <1>1 DEF Midway, Running, MicActive
    <3>2. state \in Running => state' = state
      BY <1>4, <3>1 DEF Prepare, Running, MicActive
    <3>3. active /\ state = "ERROR" => "kept" \in stale'
      BY <1>4, <3>1 DEF Prepare, Locks, Running, MicActive
    <3> QED BY <3>2, <3>3
  <2>5. "kept" \in stale => "kept" \in stale'
    BY <1>4 DEF Prepare
  <2> QED BY <1>1, <1>2, <2>2, <2>3, <2>4, <2>5, OwedStep
<1>5. CASE StartClass(c)
  <2>1. /\ request[c].op = "start" /\ request[c].pc = "waiting"
        /\ "kept" \in stale => "kept" \in stale'
    BY <1>5 DEF StartClass, Locks
  <2>2. CASE /\ state = "PAUSED" /\ UNCHANGED state
             /\ request' = [request EXCEPT ![c].op = "resume", ![c].pc = "openMic"]
    <3>1. /\ request'[c].op = "resume"
          /\ \A d \in Windows : d # c => request'[d] = request[d]
      <4>1. request'[c] = [request[c] EXCEPT !.op = "resume", !.pc = "openMic"]
        BY <1>1, <2>2
      <4> QED BY <1>1, <2>2, <4>1 DEF RequestRecord
    <3> QED BY <2>2, <3>1, OwedStep DEF Running
  <2>3. CASE (Goto(c, "raised") \/ Goto(c, "openMic")) /\ UNCHANGED state
    <3>1. /\ request'[c].pc \in {"raised", "openMic"} /\ request'[c].op = request[c].op
          /\ request'[c].closes = request[c].closes
          /\ \A d \in Windows : d # c => request'[d] = request[d]
      BY <1>3, <2>3
    <3>2. Closer(request[c]) => Closer(request'[c])
      BY <2>1, <3>1 DEF Closer
    <3> QED BY <1>1, <1>2, <2>1, <2>3, <3>1, <3>2, OwedStep
  <2>4. CASE Can(state, "START_CLASS") /\ Move("FAIL") /\ Goto(c, "raised")
    <3>1. state' = "ERROR"
      BY <1>1, <2>4, StartClassMove, FailMove DEF State
    <3>2. /\ request'[c].op = request[c].op
          /\ \A d \in Windows : d # c => request'[d] = request[d]
      BY <1>3, <2>4
    <3> QED BY <2>1, <3>1, <3>2, OwedStep
  <2> QED BY <1>5, <2>2, <2>3, <2>4 DEF StartClass
<1>6. CASE Resume(c)
  <2>1. request[c].op = "resume" /\ request[c].pc = "waiting" /\ UNCHANGED <<state, stale>>
    BY <1>6 DEF Resume, Locks
  <2>2. PICK pc \in {"openMic", "raised"} : Goto(c, pc)
    BY <1>6 DEF Resume
  <2>3. /\ request'[c].pc = pc /\ request'[c].op = "resume"
        /\ request'[c].closes = request[c].closes
        /\ \A d \in Windows : d # c => request'[d] = request[d]
    BY <1>3, <2>1, <2>2
  <2>4. Closer(request[c]) => Closer(request'[c])
    BY <2>1, <2>3 DEF Closer
  <2> QED BY <1>1, <1>2, <2>1, <2>3, <2>4, OwedStep
<1>7. CASE OpenMic(c)
  <2>1. request[c].pc = "openMic" /\ ("kept" \in stale => "kept" \in stale')
    BY <1>7 DEF OpenMic
  <2>2. CASE UNCHANGED state /\ Goto(c, "announce")
    <3>1. /\ request'[c].pc = "announce" /\ request'[c].op = request[c].op
          /\ request'[c].closes = request[c].closes
          /\ \A d \in Windows : d # c => request'[d] = request[d]
      BY <1>3, <2>2
    <3>2. Closer(request[c]) => Closer(request'[c])
      BY <2>1, <3>1 DEF Closer
    <3> QED BY <1>1, <1>2, <2>1, <2>2, <3>1, <3>2, OwedStep
  <2>3. CASE Move("FAIL") /\ Goto(c, "raised")
    <3>1. state \in {"READY", "PAUSED"}
      BY <1>1, <2>1 DEF Midway
    <3>2. state' = "ERROR"
      BY <1>1, <2>3, <3>1, FailMove DEF State
    <3>3. /\ request'[c].op = request[c].op /\ request'[c].closes = request[c].closes
          /\ \A d \in Windows : d # c => request'[d] = request[d]
      BY <1>3, <2>3
    <3> QED BY <1>1, <3>2, <3>3, OwedStep
  <2> QED BY <1>7, <2>2, <2>3 DEF OpenMic
<1>8. CASE Announce(c)
  <2>1. \/ request[c].op = "start" /\ state = "READY"
        \/ request[c].op = "resume" /\ state = "PAUSED"
    BY <1>1, <1>8 DEF Announce, Midway
  <2>2. state' = "PASSIVE_LISTENING" /\ Goto(c, "returned")
    BY <1>1, <1>8, <2>1, StartClassMove, ResumeMove DEF Announce
  <2>3. /\ request'[c].op = request[c].op /\ request'[c].closes = request[c].closes
        /\ \A d \in Windows : d # c => request'[d] = request[d]
    BY <1>3, <2>2
  <2> QED BY <1>1, <2>2, <2>3, OwedStep DEF Running, MicActive
<1>9. CASE Pause(c)
  <2>1. request[c].op = "pause" /\ request[c].pc = "waiting" /\ UNCHANGED stale
    BY <1>9 DEF Pause, Locks
  <2>2. PICK pc \in {"closeMic", "raised"} :
          /\ Goto(c, pc)
          /\ state' = IF state \in MicActive THEN "PAUSED" ELSE state
    BY <1>1, <1>9, PauseMove DEF Pause
  <2>3. /\ request'[c].op = request[c].op /\ request'[c].closes = request[c].closes
        /\ \A d \in Windows : d # c => request'[d] = request[d]
    BY <1>3, <2>2
  <2>4. ~Closer(request[c])
    BY <1>1, <2>1 DEF Closer
  <2> QED BY <1>1, <1>2, <2>1, <2>2, <2>3, <2>4, OwedStep DEF Running
<1>10. CASE CloseMic(c)
  <2>1. UNCHANGED <<state, stale>>
    BY <1>10 DEF CloseMic
  <2>2. /\ request'[c].op = request[c].op /\ request'[c].closes = request[c].closes
        /\ \A d \in Windows : d # c => request'[d] = request[d]
    BY <1>3, <1>10 DEF CloseMic
  <2>3. ~Closer(request[c])
    <3>1. \/ request[c].pc = "closeMic"
          \/ request[c].pc = "waiting" /\ request[c].op \in {"stop", "recover"}
      BY <1>10 DEF CloseMic, Locks
    <3> QED BY <1>1, <3>1 DEF Closer
  <2> QED BY <1>1, <1>2, <2>1, <2>2, <2>3, OwedStep
<1>11. CASE MicClosed(c)
  <2>1. PICK pc \in {"returned", "raised"} : Goto(c, pc)
    BY <1>11 DEF MicClosed
  <2>2. /\ request'[c].pc = pc /\ request'[c].op = request[c].op
        /\ request'[c].closes = request[c].closes
        /\ \A d \in Windows : d # c => request'[d] = request[d]
    BY <1>3, <2>1
  <2>3. ~Closer(request[c]) /\ ("kept" \in stale => "kept" \in stale')
    BY <1>11 DEF MicClosed, Closer
  <2>4. state' = state \/ Closer(request'[c])
    <3>1. ASSUME Goto(c, "returned"), request[c].op \in {"stop", "recover"}
          PROVE  Closer(request'[c])
      BY <1>3, <3>1 DEF Closer
    <3> QED BY <1>11, <3>1 DEF MicClosed
  <2> QED BY <1>1, <1>2, <2>2, <2>3, <2>4, OwedStep
<1> QED BY <1>4, <1>5, <1>6, <1>7, <1>8, <1>9, <1>10, <1>11 DEF Controller

\* The other threads move the class within itself.
LEMMA OwedThreads ==
  ASSUME IInv, Owed, FrameArrives \/ AudioCallback \/ Timers \/ TurnMoves
  PROVE  Owed'
<1>1. UNCHANGED <<request, active, stale>>
  BY DEF FrameArrives, AudioCallback, NothingHeard, PhraseHeard, WakeUp, NotifyDetection,
         Timers, TimerWakes, TimerForgotten, ExpireActivation, TurnMoves, Ticking, Hearing
<1>2. state \in Running \cup {"ERROR"} => state' \in Running \cup {"ERROR"}
  BY WithinClass DEF IInv, Running, MicActive
<1> QED BY <1>1, <1>2 DEF Owed

\* What every reachable state satisfies of the session.
LEMMA OwedInvariant == Spec => []Owed
<1>1. Init => Owed
  BY DEF Init, Owed, NoRequest
<1>2. IInv /\ Owed /\ [Next]_vars => Owed'
  <2> SUFFICES ASSUME IInv, Owed, [Next]_vars PROVE Owed'
    OBVIOUS
  <2>1. CASE \E c \in Windows : Endpoint(c) \/ \E op \in Operations : Press(c, op)
    BY <2>1, OwedLoop, OwedController DEF Endpoint
  <2>2. CASE FrameArrives \/ AudioCallback \/ Timers \/ TurnMoves
    BY <2>2, OwedThreads
  <2>3. CASE UNCHANGED vars
    BY <2>3 DEF vars, Owed
  <2> QED BY <2>1, <2>2, <2>3 DEF Next
<1> QED BY <1>1, <1>2, Invariant, PTL DEF Spec

\* No session outlives its class, or comes before it, for any number of windows
\* pressing the buttons of any screen they have shown.
THEOREM NoSessionLeft == Spec => []NoSessionWithoutClass
<1>1. Owed => NoSessionWithoutClass
  BY DEF Owed, NoSessionWithoutClass, Quiet, NoRequest, Closer
<1> QED BY <1>1, OwedInvariant, PTL

-----------------------------------------------------------------------------
(***************************************************************************)
(* The session of a class that runs, with one window: two of them cross    *)
(* the end of one class with the start of the next.                        *)
(***************************************************************************)
OneWindow == \E c : Windows = {c}

\* The session for where the class and the request are.  Between the endpoint
\* and the controller nothing moves the class but within itself, so that a
\* start that finds it READY has its session.
HasSession(r, s, a, conv, x) ==
  /\ r.pc = "opening" => a
  /\ conv /\ "robbed" \notin x /\ s \in Running => a
  /\ /\ conv /\ s = "READY"
     /\ r.op = "start" /\ r.pc \in {"opening", "waiting", "openMic", "announce"}
     => a

Lone(c) == HasSession(request[c], state, active, conversation, stale)

\* The endpoint: a start opens the session a class has not got, and where the
\* session is closed under a class the class is robbed.
LEMMA LoneLoop ==
  ASSUME IInv, NEW c \in Windows, Lone(c),
         (\E op \in Operations : Press(c, op)) \/ Serve(c) \/ SessionOpens(c) \/ Answer(c)
  PROVE  Lone(c)'
<1>1. /\ TypeOK /\ request \in [Windows -> RequestRecord] /\ request[c] \in RequestRecord
      /\ HasSession(request[c], state, active, conversation, stale)
  BY DEF IInv, TypeOK, Lone
<1>2. UNCHANGED <<state, conversation>>
  BY DEF Press, Serve, SessionOpens, Answer, shown
<1>3. CASE \E op \in Operations : Press(c, op)
  <2> PICK op \in Operations : Press(c, op)
    BY <1>3
  <2>1. /\ UNCHANGED <<active, stale>>
        /\ request'[c] = [op |-> op, pc |-> "asked", closes |-> FALSE]
    BY <1>1 DEF Press
  <2> QED BY <1>1, <1>2, <2>1 DEF Lone, HasSession
<1>4. CASE Serve(c)
  <2> DEFINE start == request[c].op = "start"
             closes == start /\ state # "PAUSED"
             opens == closes /\ conversation /\ ~active
  <2>1. UNCHANGED stale
    BY <1>4 DEF Serve
  <2>2. CASE active' = TRUE
    BY <2>2 DEF Lone, HasSession
  <2>3. CASE UNCHANGED active /\ request' = [request EXCEPT ![c] = NoRequest]
    <3>1. request'[c] = NoRequest
      BY <1>1, <2>3
    <3> QED BY <1>1, <1>2, <2>1, <2>3, <3>1 DEF Lone, HasSession, NoRequest
  <2>4. CASE ~opens /\ UNCHANGED active
             /\ request' = [request EXCEPT ![c].pc = "waiting", ![c].closes = closes]
    <3>1. request'[c] = [request[c] EXCEPT !.pc = "waiting", !.closes = closes]
      BY <1>1, <2>4
    <3>2. request'[c].pc = "waiting" /\ request'[c].op = request[c].op
      BY <1>1, <3>1 DEF RequestRecord
    <3>3. start /\ state = "READY" /\ conversation => active
      BY <2>4
    <3> QED BY <1>1, <1>2, <2>1, <2>4, <3>2, <3>3 DEF Lone, HasSession
  <2> QED BY <1>4, <2>2, <2>3, <2>4 DEF Serve
<1>5. CASE SessionOpens(c)
  <2>1. active
    BY <1>1, <1>5 DEF SessionOpens, HasSession
  <2>2. CASE UNCHANGED <<active, stale>>
    BY <2>1, <2>2 DEF Lone, HasSession
  <2>3. CASE request' = [request EXCEPT ![c] = NoRequest] /\ CloseSession
    <3>1. /\ request'[c] = NoRequest
          /\ state \in Running => "robbed" \in stale'
      BY <1>1, <2>1, <2>3 DEF CloseSession
    <3> QED BY <1>2, <3>1 DEF Lone, HasSession, NoRequest
  <2> QED BY <1>5, <2>2, <2>3 DEF SessionOpens
<1>6. CASE Answer(c)
  <2>1. request'[c] = NoRequest
    BY <1>1, <1>6 DEF Answer
  <2>2. CASE CloseSession
    <3>1. /\ state \in Running /\ active => "robbed" \in stale'
          /\ "robbed" \in stale => "robbed" \in stale'
      BY <2>2 DEF CloseSession
    <3> QED BY <1>1, <1>2, <2>1, <3>1 DEF Lone, HasSession, NoRequest
  <2>3. CASE UNCHANGED <<active, stale>>
    BY <1>1, <1>2, <2>1, <2>3 DEF Lone, HasSession, NoRequest
  <2> QED BY <1>6, <2>2, <2>3 DEF Answer
<1> QED BY <1>3, <1>4, <1>5, <1>6

\* The steps made with the lock.  A class begins READY or PAUSED, with the
\* session it has there.
LEMMA LoneController ==
  ASSUME IInv, NEW c \in Windows, Lone(c), Controller(c)
  PROVE  Lone(c)'
<1> USE DEF Inside, Move, shown
<1>1. /\ TypeOK /\ request \in [Windows -> RequestRecord] /\ request[c] \in RequestRecord
      /\ state \in State
      /\ HasSession(request[c], state, active, conversation, stale)
      /\ Midway(request[c], state, mics, ear)
  BY DEF IInv, TypeOK, Lone
<1>2. UNCHANGED <<conversation, active>>
  BY DEF Controller, Prepare, StartClass, Resume, OpenMic, Announce, Pause, CloseMic,
         MicClosed
<1>3. ASSUME NEW pc \in {"preparing", "openMic", "announce", "closeMic", "closing",
                         "returned", "raised"}, Goto(c, pc)
      PROVE  request'[c].pc = pc /\ request'[c].op = request[c].op
  BY <1>1, <1>3 DEF Goto, RequestRecord
\* A step that begins no class, and takes nobody's session
<1>4. ASSUME "robbed" \in stale => "robbed" \in stale',
             state' = state \/ state' \notin Running \/ state \in Running,
             request'[c].op # "start" \/ request'[c].pc \in {"returned", "raised"},
             request'[c].pc # "opening"
      PROVE  Lone(c)'
  BY <1>1, <1>2, <1>4 DEF Lone, HasSession
<1>5. CASE Prepare(c)
  <2>1. PICK pc \in {"returned", "preparing", "raised"} : Goto(c, pc)
    BY <1>5 DEF Prepare
  <2>2. request'[c].pc = pc /\ request'[c].op = request[c].op
    BY <1>3, <2>1
  <2>3. "robbed" \in stale => "robbed" \in stale'
    BY <1>5 DEF Prepare
  <2>4. state' = state \/ state' \in {"IDLE", "PREPARING", "READY"}
    BY <1>1, <1>5, ResetMove, CreateSessionMove, SessionPreparedMove DEF Prepare
  <2>5. state' \in {"IDLE", "PREPARING", "READY"} => state' \notin Running
    BY DEF Running, MicActive
  <2>6. request[c].op = "start" => pc \in {"returned", "raised"} \/ state' # "READY"
    BY <1>1, <1>5, <2>1, <2>2, CreateSessionMove, ResetMove, GotoType DEF Prepare, Locks, Midway
  <2> QED BY <1>1, <1>2, <2>2, <2>3, <2>4, <2>5, <2>6 DEF Lone, HasSession
<1>6. CASE StartClass(c)
  <2>1. request[c].op = "start" /\ request[c].pc = "waiting"
    BY <1>6 DEF StartClass, Locks
  <2>2. CASE /\ UNCHANGED <<state, stale>>
             /\ request' = [request EXCEPT ![c].op = "resume", ![c].pc = "openMic"]
    <3>1. request'[c].op = "resume" /\ request'[c].pc = "openMic"
      <4>1. request'[c] = [request[c] EXCEPT !.op = "resume", !.pc = "openMic"]
        BY <1>1, <2>2
      <4> QED BY <1>1, <4>1 DEF RequestRecord
    <3> QED BY <1>4, <2>2, <3>1
  <2>3. CASE Goto(c, "raised") /\ UNCHANGED <<state, stale>>
    <3>1. request'[c].pc = "raised"
      BY <1>3, <2>3
    <3> QED BY <1>4, <2>3, <3>1
  <2>4. CASE Can(state, "START_CLASS") /\ Move("FAIL") /\ Goto(c, "raised") /\ UNCHANGED stale
    <3>1. state' = "ERROR"
      BY <1>1, <2>4, StartClassMove, FailMove DEF State
    <3>2. request'[c].pc = "raised"
      BY <1>3, <2>4
    <3> QED BY <1>4, <2>4, <3>1, <3>2 DEF Running, MicActive
  <2>5. CASE Can(state, "START_CLASS") /\ Goto(c, "openMic") /\ UNCHANGED state
    <3>1. state = "READY"
      BY <1>1, <2>5, StartClassMove
    <3>2. request'[c].pc = "openMic" /\ request'[c].op = "start"
      BY <1>3, <2>1, <2>5
    <3> QED BY <1>1, <1>2, <2>1, <2>5, <3>1, <3>2 DEF Lone, HasSession, Running, MicActive
  <2> QED BY <1>6, <2>2, <2>3, <2>4, <2>5 DEF StartClass
<1>7. CASE Resume(c)
  <2>1. request[c].op = "resume" /\ UNCHANGED <<state, stale>>
    BY <1>7 DEF Resume, Locks
  <2>2. PICK pc \in {"openMic", "raised"} : Goto(c, pc)
    BY <1>7 DEF Resume
  <2>3. request'[c].pc = pc /\ request'[c].op = "resume"
    BY <1>3, <2>1, <2>2
  <2> QED BY <1>4, <2>1, <2>3
<1>8. CASE OpenMic(c)
  <2>1. /\ request[c].pc = "openMic" /\ state \in {"READY", "PAUSED"}
        /\ "robbed" \in stale => "robbed" \in stale'
    BY <1>1, <1>8 DEF OpenMic, Midway
  <2>2. CASE UNCHANGED state /\ Goto(c, "announce")
    <3>1. request'[c].pc = "announce" /\ request'[c].op = request[c].op
      BY <1>3, <2>2
    <3> QED BY <1>1, <1>2, <2>1, <2>2, <3>1 DEF Lone, HasSession
  <2>3. CASE Move("FAIL") /\ Goto(c, "raised")
    <3>1. state' = "ERROR"
      BY <1>1, <2>1, <2>3, FailMove DEF State
    <3>2. request'[c].pc = "raised"
      BY <1>3, <2>3
    <3> QED BY <1>4, <2>1, <3>1, <3>2 DEF Running, MicActive
  <2> QED BY <1>8, <2>2, <2>3 DEF OpenMic
<1>9. CASE Announce(c)
  <2>1. /\ request[c].pc = "announce" /\ UNCHANGED stale
        /\ \/ request[c].op = "start" /\ state = "READY"
           \/ request[c].op = "resume" /\ state = "PAUSED"
    BY <1>1, <1>9 DEF Announce, Midway
  <2>2. state' = "PASSIVE_LISTENING" /\ Goto(c, "returned")
    BY <1>1, <1>9, <2>1, StartClassMove, ResumeMove DEF Announce
  <2>3. request'[c].pc = "returned"
    BY <1>3, <2>2
  <2> QED BY <1>1, <1>2, <2>1, <2>2, <2>3 DEF Lone, HasSession, Running
<1>10. CASE Pause(c)
  <2>1. request[c].op = "pause" /\ UNCHANGED stale
    BY <1>10 DEF Pause, Locks
  <2>2. PICK pc \in {"closeMic", "raised"} :
          /\ Goto(c, pc)
          /\ state' = IF state \in MicActive THEN "PAUSED" ELSE state
    BY <1>1, <1>10, PauseMove DEF Pause
  <2>3. request'[c].pc = pc /\ request'[c].op = "pause"
    BY <1>3, <2>1, <2>2
  <2> QED BY <1>4, <2>1, <2>2, <2>3 DEF Running
<1>11. CASE CloseMic(c)
  <2>1. /\ request[c].op \in {"pause", "stop", "recover"} /\ UNCHANGED <<state, stale>>
    BY <1>1, <1>11 DEF CloseMic, Locks, Midway
  <2>2. request'[c].pc = "closing" /\ request'[c].op = request[c].op
    BY <1>3, <1>11 DEF CloseMic
  <2> QED BY <1>4, <2>1, <2>2
<1>12. CASE MicClosed(c)
  <2>1. PICK pc \in {"returned", "raised"} : Goto(c, pc)
    BY <1>12 DEF MicClosed
  <2>2. request'[c].pc = pc
    BY <1>3, <2>1
  <2>3. /\ "robbed" \in stale => "robbed" \in stale'
        /\ UNCHANGED state \/ Move("STOP") \/ Move("RECOVER")
    BY <1>12 DEF MicClosed
  <2>4. state' = state \/ state' \in {"STOPPED", "READY"}
    BY <1>1, <2>3, StopMove, RecoverMove
  <2> QED BY <1>4, <2>2, <2>3, <2>4 DEF Running, MicActive
<1> QED BY <1>5, <1>6, <1>7, <1>8, <1>9, <1>10, <1>11, <1>12 DEF Controller

\* The other threads move the class within itself.
LEMMA LoneThreads ==
  ASSUME IInv, NEW c \in Windows, Lone(c),
         FrameArrives \/ AudioCallback \/ Timers \/ TurnMoves
  PROVE  Lone(c)'
<1>1. UNCHANGED <<request, active, conversation, stale>>
  BY DEF FrameArrives, AudioCallback, NothingHeard, PhraseHeard, WakeUp, NotifyDetection,
         Timers, TimerWakes, TimerForgotten, ExpireActivation, TurnMoves, Ticking, Hearing
<1>2. /\ state' \in Running => state \in Running
      /\ state' = "READY" => state = "READY"
  BY WithinClass DEF IInv, Running, MicActive
<1> QED BY <1>1, <1>2 DEF Lone, HasSession

\* What one window can rely on, in every behaviour.
LEMMA LoneInvariant ==
  ASSUME NEW c, Windows = {c}
  PROVE  Spec => []Lone(c)
<1>1. Init => Lone(c)
  <2> SUFFICES ASSUME Init PROVE Lone(c)
    OBVIOUS
  <2>1. request[c] = NoRequest /\ state = "IDLE"
    BY DEF Init
  <2> QED BY <2>1 DEF Lone, HasSession, NoRequest, Running, MicActive
<1>2. IInv /\ Lone(c) /\ [Next]_vars => Lone(c)'
  <2> SUFFICES ASSUME IInv, Lone(c), [Next]_vars PROVE Lone(c)'
    OBVIOUS
  <2>1. CASE \E d \in Windows : Endpoint(d) \/ \E op \in Operations : Press(d, op)
    BY <2>1, LoneLoop, LoneController DEF Endpoint
  <2>2. CASE FrameArrives \/ AudioCallback \/ Timers \/ TurnMoves
    BY <2>2, LoneThreads
  <2>3. CASE UNCHANGED vars
    BY <2>3 DEF vars, Lone
  <2> QED BY <2>1, <2>2, <2>3 DEF Next
<1> QED BY <1>1, <1>2, Invariant, PTL DEF Spec

\* With one window, whatever screens it has shown: a class that runs with the
\* conversation on has its session, until a start that finds it running is
\* refused (the run class_session).
THEOREM OneWindowHasSession == OneWindow => (Spec => []LosesSessionOnlyRobbed)
<1> SUFFICES ASSUME NEW c, Windows = {c} PROVE Spec => []LosesSessionOnlyRobbed
  BY DEF OneWindow
<1>1. Lone(c) => LosesSessionOnlyRobbed
  BY DEF Lone, HasSession, LosesSessionOnlyRobbed, ClassHasItsSession
<1> QED BY <1>1, LoneInvariant, PTL
==============================================================================

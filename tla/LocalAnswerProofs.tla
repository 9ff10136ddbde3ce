-------------------------- MODULE LocalAnswerProofs ---------------------------
(***************************************************************************)
(* What module LocalAnswer promises for every bound, and the speaker of    *)
(* module Playback for every prebuffer, every block the device asks for    *)
(* and every piece of an answer.                                           *)
(*                                                                         *)
(* The speaker comes first, on its own.  Then the calls queued on the loop *)
(* and the conversation that is remembered, as facts about sequences; then *)
(* the types; and then the invariant from which the properties follow.     *)
(***************************************************************************)
EXTENDS LocalAnswer, SequenceTheorems, FiniteSetTheorems, TLAPS

\* No sample is lost or invented, and an answer is over by itself only when it
\* was finished and nothing of it is queued.
Accounted(s) ==
  /\ ~s.stopped => s.consumed + s.queued = s.fed
  /\ s.done /\ ~s.stopped /\ ~s.failed => s.finished /\ s.queued = 0

SpeakerInv == SpeakerType /\ Accounted(speaker)

-----------------------------------------------------------------------------
(***************************************************************************)
(* Each call keeps the count                                               *)
(***************************************************************************)

\* push keeps the count of samples: a piece is either accepted whole or not at
\* all.
LEMMA PushKeeps ==
  ASSUME NEW s \in Speakers, NEW n \in Nat, Accounted(s)
  PROVE  Pushed(s, n) \in Speakers /\ Accounted(Pushed(s, n))
<1>1. CASE s.stopped \/ s.finished
  BY <1>1 DEF Pushed
<1>2. CASE ~s.stopped /\ ~s.finished
  <2>1. Pushed(s, n) = [s EXCEPT !.queued = @ + n, !.fed = @ + n]
    BY <1>2 DEF Pushed
  <2>2. s.queued + n \in Nat /\ s.fed + n \in Nat
    BY DEF Speakers
  <2>3. Pushed(s, n) \in Speakers
    BY <2>1, <2>2 DEF Speakers
  <2>4. Accounted(Pushed(s, n))
    BY <1>2, <2>1, <2>2 DEF Speakers, Accounted
  <2> QED BY <2>3, <2>4
<1> QED BY <1>1, <1>2

\* finish keeps the count: it ends at once only an answer with nothing queued.
LEMMA FinishKeeps ==
  ASSUME NEW s \in Speakers, Accounted(s)
  PROVE  Finished(s) \in Speakers /\ Accounted(Finished(s))
<1>1. Finished(s) \in Speakers
  BY DEF Finished, Speakers
<1>2. Accounted(Finished(s))
  BY DEF Finished, Speakers, Accounted
<1> QED BY <1>1, <1>2

\* read keeps the count: a block moves samples from the queue to the device, and
\* one that it could not fill ends the answer only if it emptied the queue.
LEMMA ReadKeeps ==
  ASSUME NEW s \in Speakers, Accounted(s)
  PROVE  Read(s) \in Speakers /\ Accounted(Read(s))
<1> DEFINE written == IF s.queued < Block THEN s.queued ELSE Block
<1>1. CASE s.stopped \/ ~Sounds(s)
  BY <1>1 DEF Read
<1>2. CASE ~s.stopped /\ Sounds(s)
  <2>1. /\ written \in Nat
        /\ written <= s.queued
        /\ written < Block => written = s.queued
    BY PlaybackAssumption DEF Speakers
  <2>2. Read(s) = [s EXCEPT !.started = TRUE,
                            !.queued = @ - written,
                            !.consumed = @ + written,
                            !.done = @ \/ (written < Block /\ s.finished)]
    BY <1>2 DEF Read
  <2> HIDE DEF written
  <2>3. s.queued - written \in Nat /\ s.consumed + written \in Nat
    BY <2>1 DEF Speakers
  <2>4. Read(s) \in Speakers
    BY <2>2, <2>3 DEF Speakers
  <2>5. Accounted(Read(s))
    BY <1>2, <2>1, <2>2, PlaybackAssumption DEF Speakers, Accounted
  <2> QED BY <2>4, <2>5
<1> QED BY <1>1, <1>2

-----------------------------------------------------------------------------
(***************************************************************************)
(* The invariant of the speaker                                            *)
(***************************************************************************)

\* A stream that has just been opened has lost nothing.
LEMMA NewSpeakerAccounted ==
  NewSpeaker \in Speakers /\ Accounted(NewSpeaker)
BY DEF NewSpeaker, Speakers, Accounted

\* Nor has the turn that holds none.
LEMMA SilenceAccounted ==
  Silence \in Speakers /\ Accounted(Silence)
BY DEF Silence, NewSpeaker, Speakers, Accounted

\* The speaker on its own starts accounted for, ...
LEMMA SpeakerInitInv == SpeakerInit => SpeakerInv
BY SilenceAccounted DEF SpeakerInit, SpeakerInv, SpeakerType

\* ... and every call of it keeps it so.
LEMMA SpeakerStepInv ==
  SpeakerInv /\ [SpeakerNext]_speaker => SpeakerInv'
<1> SUFFICES ASSUME SpeakerInv, [SpeakerNext]_speaker PROVE SpeakerInv'
  OBVIOUS
<1>0. speaker \in Speakers /\ Accounted(speaker)
  BY DEF SpeakerInv, SpeakerType
<1>1. SUFFICES speaker' \in Speakers /\ Accounted(speaker')
  BY DEF SpeakerInv, SpeakerType, Accounted
<1>2. \A n \in 0..MaxPiece : n \in Nat
  BY PlaybackAssumption
<1>3. CASE Opens
  BY <1>2, <1>3, NewSpeakerAccounted, PushKeeps DEF Opens
<1>4. CASE Pushes
  BY <1>0, <1>2, <1>4, PushKeeps DEF Pushes
<1>5. CASE Finishes
  BY <1>0, <1>5, FinishKeeps DEF Finishes
<1>6. CASE Stops
  BY <1>6, SilenceAccounted DEF Stops
<1>7. CASE Plays
  BY <1>0, <1>7, ReadKeeps DEF Plays
<1>8. CASE DeviceEnds
  BY <1>0, <1>8 DEF DeviceEnds, Speakers, Accounted
<1>9. CASE UNCHANGED speaker
  BY <1>0, <1>9
<1> QED
  BY <1>3, <1>4, <1>5, <1>6, <1>7, <1>8, <1>9 DEF SpeakerNext

\* The count is right in every state the speaker can be in.
LEMMA SpeakerInvariant == SpeakerSpec => []SpeakerInv
BY SpeakerInitInv, SpeakerStepInv, PTL DEF SpeakerSpec

\* The stream of an answer is always one the turn can hold.
THEOREM SpeakerTypeCorrect == SpeakerSpec => []SpeakerType
<1>1. SpeakerInv => SpeakerType
  BY DEF SpeakerInv
<1> QED BY <1>1, SpeakerInvariant, PTL

\* An answer that ended by itself was heard whole, whatever the prebuffer and
\* the blocks: no sample pushed before it was finished is left behind.
THEOREM AnswerHeardWhole == SpeakerSpec => []HeardWhole
<1>1. SpeakerInv => HeardWhole
  BY DEF SpeakerInv, SpeakerType, Speakers, Accounted, HeardWhole
<1> QED BY <1>1, SpeakerInvariant, PTL

-----------------------------------------------------------------------------
(***************************************************************************)
(* The calls queued on the loop                                            *)
(***************************************************************************)

\* The callbacks that end a turn the machine has left
Cutting(call) == call.name \in {"cut", "again"}

Has(s, name) == \E i \in DOMAIN s : s[i].name = name
HasCut(s) == \E i \in DOMAIN s : Cutting(s[i])

\* The end of a question that no cut precedes: it will be the end of the
\* question of this turn
EndsFirst(s, i) ==
  s[i].name = "ended" /\ \A j \in DOMAIN s : j < i => ~Cutting(s[j])
HasEnd(s) == \E i \in DOMAIN s : EndsFirst(s, i)

\* A turn is cut once, its question ends once, and when the next one begins at
\* once no end of the last one is behind
OneCut(s) == \A i, j \in DOMAIN s : Cutting(s[i]) /\ Cutting(s[j]) => i = j
OneEnd(s) == \A i, j \in DOMAIN s : EndsFirst(s, i) /\ EndsFirst(s, j) => i = j
AgainLast(s) ==
  \A i, j \in DOMAIN s : s[i].name = "again" /\ i < j => s[j].name # "ended"

\* The answers that are to begin
BeginsUpTo(s, last) == \A i \in DOMAIN s : s[i].name = "begin" => s[i].of \in 1..last

\* What a call that is queued changes.
LEMMA CallQueued ==
  ASSUME NEW s \in Seq(Calls), NEW call \in Calls
  PROVE  LET t == Append(s, call) IN
         /\ t \in Seq(Calls)
         /\ \A name : Has(t, name) <=> Has(s, name) \/ call.name = name
         /\ HasCut(t) <=> HasCut(s) \/ Cutting(call)
         /\ HasEnd(t) <=> HasEnd(s) \/ (call.name = "ended" /\ ~HasCut(s))
         /\ OneCut(s) /\ ~(Cutting(call) /\ HasCut(s)) => OneCut(t)
         /\ OneEnd(s) /\ ~(call.name = "ended" /\ ~HasCut(s) /\ HasEnd(s)) => OneEnd(t)
         /\ AgainLast(s) /\ ~(call.name = "ended" /\ Has(s, "again")) => AgainLast(t)
         /\ \A last \in Nat : BeginsUpTo(s, last)
              /\ (call.name = "begin" => call.of \in 1..last) => BeginsUpTo(t, last)
<1> DEFINE t == Append(s, call)
           n == Len(s) + 1
<1>1. /\ t \in Seq(Calls) /\ n \in Nat /\ t[n] = call
      /\ DOMAIN t = DOMAIN s \cup {n} /\ n \notin DOMAIN s
      /\ DOMAIN s \subseteq Nat
      /\ \A i \in DOMAIN s : t[i] = s[i] /\ i < n /\ ~(n < i)
  <2>1. /\ t \in Seq(Calls) /\ Len(t) = n /\ Len(s) \in Nat
        /\ DOMAIN s = 1..Len(s) /\ DOMAIN t = 1..n
        /\ \A i \in 1..Len(s) : t[i] = s[i]
        /\ t[n] = call
    OBVIOUS
  <2> QED BY <2>1
<1> HIDE DEF t, n
<1>2. \A name : Has(t, name) <=> Has(s, name) \/ call.name = name
  BY <1>1 DEF Has
<1>3. HasCut(t) <=> HasCut(s) \/ Cutting(call)
  BY <1>1 DEF HasCut
<1>4. /\ \A i \in DOMAIN s : EndsFirst(t, i) <=> EndsFirst(s, i)
      /\ EndsFirst(t, n) <=> call.name = "ended" /\ ~HasCut(s)
  <2>1. ~Cutting(call) \/ call.name # "ended"
    BY DEF Cutting
  <2> QED BY <1>1, <2>1 DEF EndsFirst, HasCut
<1>5. HasEnd(t) <=> HasEnd(s) \/ (call.name = "ended" /\ ~HasCut(s))
  BY <1>1, <1>4 DEF HasEnd
<1>6. OneCut(s) /\ ~(Cutting(call) /\ HasCut(s)) => OneCut(t)
  BY <1>1 DEF OneCut, HasCut
<1>7. OneEnd(s) /\ ~(call.name = "ended" /\ ~HasCut(s) /\ HasEnd(s)) => OneEnd(t)
  BY <1>1, <1>4 DEF OneEnd, HasEnd
<1>8. AgainLast(s) /\ ~(call.name = "ended" /\ Has(s, "again")) => AgainLast(t)
  BY <1>1 DEF AgainLast, Has
<1>9. \A last \in Nat : BeginsUpTo(s, last)
        /\ (call.name = "begin" => call.of \in 1..last) => BeginsUpTo(t, last)
  BY <1>1 DEF BeginsUpTo
<1> QED BY <1>1, <1>2, <1>3, <1>5, <1>6, <1>7, <1>8, <1>9 DEF t

\* What the call that is run leaves.
LEMMA CallRun ==
  ASSUME NEW s \in Seq(Calls), s # <<>>
  PROVE  LET t == Tail(s) call == Head(s) IN
         /\ t \in Seq(Calls) /\ call \in Calls
         /\ \A name : Has(s, name) <=> Has(t, name) \/ call.name = name
         /\ HasCut(s) <=> HasCut(t) \/ Cutting(call)
         /\ OneCut(s) => OneCut(t) /\ (Cutting(call) => ~HasCut(t))
         /\ ~Cutting(call) => (HasEnd(s) <=> HasEnd(t) \/ call.name = "ended")
         /\ OneEnd(s) /\ ~Cutting(call) =>
              OneEnd(t) /\ (call.name = "ended" => ~HasEnd(t))
         /\ AgainLast(s) => AgainLast(t) /\ (call.name = "again" => ~Has(t, "ended"))
         /\ HasEnd(t) => Has(t, "ended")
         /\ \A last \in Nat : BeginsUpTo(s, last) =>
              BeginsUpTo(t, last) /\ (call.name = "begin" => call.of \in 1..last)
<1> DEFINE t == Tail(s)
           call == Head(s)
<1>1. /\ t \in Seq(Calls) /\ call \in Calls /\ call = s[1] /\ 1 \in DOMAIN s
      /\ DOMAIN s \subseteq Nat /\ DOMAIN t \subseteq Nat
      /\ \A i \in DOMAIN t : i + 1 \in DOMAIN s /\ t[i] = s[i + 1] /\ 1 <= i
      /\ \A i \in DOMAIN s : i # 1 => i - 1 \in DOMAIN t /\ t[i - 1] = s[i] /\ 1 < i
  <2>1. /\ t \in Seq(Calls) /\ call \in Calls /\ call = s[1]
        /\ Len(s) \in Nat \ {0} /\ Len(t) = Len(s) - 1
        /\ DOMAIN s = 1..Len(s) /\ DOMAIN t = 1..Len(t)
        /\ \A i \in 1..Len(t) : t[i] = s[i + 1]
    OBVIOUS
  <2>2. \A i \in 1..Len(s) : i # 1 => i - 1 \in 1..Len(t) /\ t[i - 1] = s[i] /\ 1 < i
    BY <2>1
  <2> QED BY <2>1, <2>2
<1> HIDE DEF t, call
<1>2. \A name : Has(s, name) <=> Has(t, name) \/ call.name = name
  BY <1>1 DEF Has
<1>3. HasCut(s) <=> HasCut(t) \/ Cutting(call)
  BY <1>1 DEF HasCut
<1>4. OneCut(s) => OneCut(t) /\ (Cutting(call) => ~HasCut(t))
  BY <1>1 DEF OneCut, HasCut
<1>5. ASSUME ~Cutting(call)
      PROVE  /\ \A i \in DOMAIN t : EndsFirst(t, i) <=> EndsFirst(s, i + 1)
             /\ EndsFirst(s, 1) <=> call.name = "ended"
  <2>1. EndsFirst(s, 1) <=> call.name = "ended"
    BY <1>1 DEF EndsFirst
  <2>2. ASSUME NEW i \in DOMAIN t, EndsFirst(t, i) PROVE EndsFirst(s, i + 1)
    <3> SUFFICES ASSUME NEW j \in DOMAIN s, j < i + 1 PROVE ~Cutting(s[j])
      BY <1>1, <2>2 DEF EndsFirst
    <3>1. CASE j = 1
      BY <1>1, <1>5, <3>1
    <3>2. CASE j # 1
      <4>1. j - 1 \in DOMAIN t /\ t[j - 1] = s[j]
        BY <1>1, <3>2
      <4>2. i \in Nat /\ j \in Nat
        BY <1>1
      <4>3. j - 1 < i
        BY <4>2
      <4> QED BY <2>2, <4>1, <4>3 DEF EndsFirst
    <3> QED BY <3>1, <3>2
  <2>3. ASSUME NEW i \in DOMAIN t, EndsFirst(s, i + 1) PROVE EndsFirst(t, i)
    <3> SUFFICES ASSUME NEW j \in DOMAIN t, j < i PROVE ~Cutting(t[j])
      BY <1>1, <2>3 DEF EndsFirst
    <3>1. j + 1 \in DOMAIN s /\ t[j] = s[j + 1] /\ j + 1 < i + 1
      BY <1>1
    <3> QED BY <2>3, <3>1 DEF EndsFirst
  <2> QED BY <2>1, <2>2, <2>3
<1>6. ~Cutting(call) => (HasEnd(s) <=> HasEnd(t) \/ call.name = "ended")
  <2> SUFFICES ASSUME ~Cutting(call)
               PROVE  HasEnd(s) <=> HasEnd(t) \/ call.name = "ended"
    OBVIOUS
  <2>1. \A i \in DOMAIN s : i # 1 /\ EndsFirst(s, i) => EndsFirst(t, i - 1)
    BY <1>1, <1>5
  <2> QED BY <1>1, <1>5, <2>1 DEF HasEnd
<1>7. OneEnd(s) /\ ~Cutting(call) => OneEnd(t) /\ (call.name = "ended" => ~HasEnd(t))
  BY <1>1, <1>5 DEF OneEnd, HasEnd
<1>8. AgainLast(s) => AgainLast(t) /\ (call.name = "again" => ~Has(t, "ended"))
  BY <1>1 DEF AgainLast, Has
<1>9. HasEnd(t) => Has(t, "ended")
  BY DEF HasEnd, EndsFirst, Has
<1>10. \A last \in Nat : BeginsUpTo(s, last) =>
         BeginsUpTo(t, last) /\ (call.name = "begin" => call.of \in 1..last)
  BY <1>1 DEF BeginsUpTo
<1> QED BY <1>1, <1>2, <1>3, <1>4, <1>6, <1>7, <1>8, <1>9, <1>10 DEF t, call

-----------------------------------------------------------------------------
(***************************************************************************)
(* The conversation that is remembered                                     *)
(***************************************************************************)

\* Nothing but the next question comes after what is heard of an answer
InOrder(h) ==
  \A i \in 2..Len(h) : h[i].role # "user" =>
    h[i - 1].of = h[i].of /\ h[i - 1].role # "cut"

\* What is remembered last is the question q, or its whole answer
EndsWith(h, q) == h # <<>> => h[Len(h)].of = q /\ h[Len(h)].role # "cut"

\* _remember keeps the last messages, and their order if the new one goes there.
LEMMA RememberedKeeps ==
  ASSUME history \in Seq(Entries), Len(history) <= HistoryMessages,
         NEW e \in Entries
  PROVE  LET h == Remembered(e) IN
         /\ h \in Seq(Entries) /\ Len(h) <= HistoryMessages
         /\ e.role # "cut" => EndsWith(h, e.of)
         /\ InOrder(history) /\ (e.role = "user" \/ EndsWith(history, e.of)) => InOrder(h)
<1> DEFINE all == Append(history, e)
           n == Len(all)
           from == IF n > HistoryMessages THEN n - HistoryMessages + 1 ELSE 1
           h == SubSeq(all, from, n)
<1>1. /\ all \in Seq(Entries) /\ n = Len(history) + 1 /\ Len(history) \in Nat
      /\ n \in Nat \ {0} /\ all[n] = e
      /\ \A i \in 1..n : all[i] \in Entries /\ (i # n => all[i] = history[i])
  <2>1. all \in Seq(Entries) /\ n = Len(history) + 1 /\ Len(history) \in Nat /\ all[n] = e
    OBVIOUS
  <2>2. \A i \in 1..Len(history) : all[i] = history[i]
    OBVIOUS
  <2>3. \A i \in 1..n : all[i] \in Entries
    BY <2>1, ElementOfSeq
  <2>4. \A i \in 1..n : i # n => i \in 1..Len(history)
    BY <2>1
  <2> QED BY <2>1, <2>2, <2>3, <2>4
<1> HIDE DEF all, n
<1>2. HistoryMessages \in Nat
  BY LocalAssumption
<1>3. from \in 1..(n + 1) /\ (from <= n => n - from + 1 <= HistoryMessages)
  <2>1. CASE n > HistoryMessages
    BY <1>1, <1>2, <2>1
  <2>2. CASE ~(n > HistoryMessages)
    BY <1>1, <1>2, <2>2
  <2> QED BY <2>1, <2>2
<1> HIDE DEF from
<1>4. /\ h \in Seq(Entries)
      /\ Len(h) = IF from <= n THEN n - from + 1 ELSE 0
      /\ \A i \in 1..Len(h) : h[i] = all[from + i - 1]
  <2>1. \A i \in from..n : all[i] \in Entries
    BY <1>1, <1>3
  <2>2. from \in Int /\ n \in Int
    BY <1>1, <1>3
  <2>3. /\ h \in Seq(Entries)
        /\ Len(h) = IF from <= n THEN n - from + 1 ELSE 0
        /\ \A i \in 1..(n - from + 1) : h[i] = all[from + i - 1]
    BY <2>1, <2>2, SubSeqProperties
  <2>4. Len(h) \in Nat /\ (from <= n => Len(h) = n - from + 1)
    BY <1>1, <1>3, <2>3
  <2>5. \A i \in 1..Len(h) : i \in 1..(n - from + 1)
    BY <1>1, <1>3, <2>3
  <2> QED BY <2>3, <2>5
<1> HIDE DEF h
<1>5. Len(h) <= HistoryMessages
  BY <1>1, <1>2, <1>3, <1>4
<1>6. e.role # "cut" => EndsWith(h, e.of)
  <2> SUFFICES ASSUME e.role # "cut", h # <<>> PROVE h[Len(h)] = e
    BY DEF EndsWith
  <2>1. Len(h) \in Nat \ {0} /\ Len(h) \in 1..Len(h)
    BY <1>4
  <2>2. from <= n /\ from + Len(h) - 1 = n
    BY <1>1, <1>3, <1>4, <2>1
  <2> QED BY <1>1, <1>4, <2>1, <2>2
<1>7. ASSUME InOrder(history), e.role = "user" \/ EndsWith(history, e.of)
      PROVE  InOrder(h)
  <2> SUFFICES ASSUME NEW i \in 2..Len(h), h[i].role # "user"
               PROVE  h[i - 1].of = h[i].of /\ h[i - 1].role # "cut"
    BY DEF InOrder
  <2> DEFINE k == from + i - 1
  <2>1. /\ k \in 2..n /\ h[i] = all[k] /\ h[i - 1] = all[k - 1]
        /\ k - 1 \in 1..n /\ k - 1 # n
    <3>1. Len(h) \in Nat /\ i \in 1..Len(h) /\ i - 1 \in 1..Len(h)
      BY <1>4
    <3>2. h[i] = all[k] /\ h[i - 1] = all[from + (i - 1) - 1]
      BY <1>4, <3>1
    <3>3. from <= n /\ Len(h) = n - from + 1
      BY <1>1, <1>3, <1>4, <3>1
    <3>4. k \in 2..n /\ k - 1 = from + (i - 1) - 1 /\ k - 1 \in 1..n /\ k - 1 # n
      BY <1>1, <1>3, <3>1, <3>3
    <3> QED BY <3>2, <3>4
  <2> HIDE DEF k
  <2>2. all[k - 1] = history[k - 1]
    BY <1>1, <2>1
  <2>3. CASE k = n
    <3>1. history # <<>> /\ k - 1 = Len(history)
      BY <1>1, <2>1, <2>3
    <3>2. e.role # "user"
      BY <1>1, <2>1, <2>3
    <3> QED BY <1>1, <1>7, <2>1, <2>2, <2>3, <3>1, <3>2 DEF EndsWith
  <2>4. CASE k # n
    <3>1. k \in 2..Len(history) /\ all[k] = history[k]
      BY <1>1, <2>1, <2>4
    <3> QED BY <1>7, <2>1, <2>2, <3>1 DEF InOrder
  <2> QED BY <2>3, <2>4
<1>8. h = Remembered(e)
  BY DEF Remembered, h, all, n, from
<1> QED BY <1>4, <1>5, <1>6, <1>7, <1>8

\* What truncate keeps of an answer is an entry.
LEMMA KeptType ==
  ASSUME spoken \in Seq([of : Questions, samples : Nat]), turn.item \in Questions,
         NEW heard
  PROVE  Kept(heard) \in Entries /\ Kept(heard).role = "cut"
         /\ Kept(heard).of = turn.item
<1> DEFINE whole == {i \in DOMAIN spoken : Upto(i - 1) < heard /\ Upto(i) <= heard}
<1>1. IsFiniteSet(DOMAIN spoken)
  <2>1. Len(spoken) \in Nat /\ DOMAIN spoken = 1..Len(spoken)
    OBVIOUS
  <2> QED BY <2>1, FS_Interval
<1>2. Cardinality(whole) \in Nat
  BY <1>1, FS_Subset, FS_CardinalityType
<1> HIDE DEF whole
<1>3. Kept(heard) = [role |-> "cut", of |-> turn.item, sentences |-> Cardinality(whole),
                     part |-> \E i \in DOMAIN spoken :
                                Upto(i - 1) < heard /\ heard < Upto(i)]
  BY DEF Kept, whole
<1> QED BY <1>2, <1>3 DEF Entries

-----------------------------------------------------------------------------
(***************************************************************************)
(* The invariant, in its parts                                             *)
(***************************************************************************)

\* An answer that can still come
Pending(q) == tasks[q].stage \in {"created", "transcribing", "speaking"}

\* The calls on the loop for where the turn is: the machine has left a turn
\* that waits to be cut, once, and a turn that follows is one more
CallsFit ==
  /\ BeginsUpTo(loop, answer)
  /\ OneCut(loop) /\ AgainLast(loop)
  /\ HasCut(loop) => turn.phase \in {"cut", "none"}
  /\ turn.phase = "cut" => HasCut(loop)
  /\ Has(loop, "again") => turn.n < MaxTurns /\ ~turn.streaming

\* What the turn holds for where it is
TurnFits ==
  /\ turn.phase # "none" => life = "running"
  /\ turn.phase = "none" => ~turn.record
  /\ turn.streaming => turn.phase \in {"capturing", "cut"}
  /\ turn.phase = "speaking" => speaker.open
  /\ speaker.open =>
       /\ turn.phase \in {"speaking", "cut"}
       /\ turn.record /\ ~turn.streaming
       /\ turn.item \in 1..answer

\* A session that is trying again is not ready
SessionFits ==
  /\ retrying => ~Ready
  /\ life \in {"new", "starting"} => ~retrying

\* A question that takes no more audio has ended on a session that can answer it
QuestionFits ==
  turn.phase = "capturing" /\ closed => Ready /\ Has(loop, "ended")

\* Unless a question ended that no turn waited for, or was reopened while its end
\* was queued, one answer is on its way, of the question of this turn, and only
\* once its question has ended for good
AnswerFits ==
  /\ \A q \in Questions : Pending(q) =>
       q = answer /\ turn.record /\ turn.phase # "capturing" /\ asked[q] = turn.n
  /\ turn.record => OneEnd(loop)
  /\ turn.record /\ HasEnd(loop) => ~speaker.open /\ \A q \in Questions : ~Pending(q)
  /\ turn.phase = "capturing" /\ HasEnd(loop) => closed
  /\ speaker.open =>
       /\ asked[turn.item] = turn.n
       /\ \A q \in Questions : Pending(q) => q = turn.item /\ ~speaker.finished

\* ... and what was said last is the question that is being answered, or the
\* answer that sounds
HistoryFits ==
  /\ InOrder(history)
  /\ speaker.open => EndsWith(history, turn.item)
  /\ \A q \in Questions : tasks[q].stage = "speaking" => EndsWith(history, q)

RestInv ==
  /\ Accounted(speaker)
  /\ SessionFits /\ CallsFit /\ TurnFits /\ QuestionFits
  /\ ~crossed /\ ~reopened => AnswerFits /\ HistoryFits

AnswerInv == TypeOK /\ RestInv

-----------------------------------------------------------------------------
(***************************************************************************)
(* Types                                                                   *)
(***************************************************************************)

\* The tasks are tasks, of the answers begun.
TasksType(t, last) ==
  /\ t \in [Questions -> Tasks]
  /\ \A q \in Questions : t[q].stage # "none" <=> q <= last

\* The questions are the numbers from one on; zero is none of them.
LEMMA QuestionsAreNumbers ==
  /\ Questions \subseteq Nat /\ 0 \notin Questions
  /\ \A q \in Nat : q \in Questions <=> 1 <= q /\ q <= MaxQuestions
BY LocalAssumption DEF Questions

\* So is the last one that is answered, or it is zero.
LEMMA AnswerIsANumber == TypeOK => answer \in Nat
<1> SUFFICES ASSUME TypeOK PROVE answer \in Nat
  OBVIOUS
<1>1. answer \in Questions \cup {0}
  BY DEF TypeOK
<1>2. Questions \subseteq Nat
  BY QuestionsAreNumbers
<1> QED BY <1>1, <1>2

\* A task in a stage is a task.
LEMMA TaskType ==
  ASSUME NEW stage \in Stages
  PROVE  Task(stage) \in Tasks /\ Task(stage).stage = stage
BY LocalAssumption DEF Task, Tasks

\* The stage each task is left in by a cancellation, and by the end of its own.
LEMMA TasksAfterType ==
  ASSUME TypeOK, NEW over \in Questions \cup {0},
         over # 0 => tasks[over].stage # "none"
  PROVE  /\ TasksType(TasksAfter(over), answer)
         /\ \A q \in Questions : TasksAfter(over)[q].stage =
              IF q = over \/ (q = answer /\ tasks[q].stage = "created") THEN "over"
              ELSE IF q = answer /\ Live(q) THEN "unwinding" ELSE tasks[q].stage
<1> USE QuestionsAreNumbers
<1>0. tasks \in [Questions -> Tasks] /\ answer \in Questions \cup {0}
      /\ \A q \in Questions : tasks[q].stage # "none" <=> q <= answer
  BY DEF TypeOK
<1>1. ASSUME NEW q \in Questions
      PROVE  /\ TasksAfter(over)[q] \in Tasks
             /\ TasksAfter(over)[q].stage =
                  IF q = over \/ (q = answer /\ tasks[q].stage = "created") THEN "over"
                  ELSE IF q = answer /\ Live(q) THEN "unwinding" ELSE tasks[q].stage
  <2>1. Task("over") \in Tasks /\ Task("over").stage = "over"
        /\ Task("unwinding") \in Tasks /\ Task("unwinding").stage = "unwinding"
    BY TaskType DEF Stages
  <2>2. TasksAfter(over)[q] =
          IF q = over \/ (q = answer /\ tasks[q].stage = "created") THEN Task("over")
          ELSE IF q = answer /\ Live(q) THEN Task("unwinding") ELSE tasks[q]
    BY DEF TasksAfter
  <2> QED BY <1>0, <2>1, <2>2
<1>2. TasksAfter(over) \in [Questions -> Tasks]
  BY <1>1 DEF TasksAfter
<1>3. \A q \in Questions : TasksAfter(over)[q].stage # "none" <=> q <= answer
  <2> TAKE q \in Questions
  <2>1. CASE q = over
    BY <1>0, <1>1, <2>1
  <2>2. CASE q # over /\ q = answer
    BY <1>0, <1>1, <2>2 DEF Live
  <2>3. CASE q # over /\ q # answer
    BY <1>0, <1>1, <2>3
  <2> QED BY <2>1, <2>2, <2>3
<1> QED BY <1>1, <1>2, <1>3 DEF TasksType

\* A task that is put in another stage, as one begun stays begun.
LEMMA TaskMoved ==
  ASSUME TypeOK, NEW q \in Questions, NEW task \in Tasks,
         tasks[q].stage # "none", task.stage # "none"
  PROVE  LET t == [tasks EXCEPT ![q] = task] IN
         /\ TasksType(t, answer) /\ t[q] = task
         /\ \A r \in Questions : r # q => t[r] = tasks[r]
BY DEF TypeOK, TasksType

\* What a cancellation queues.
LEMMA LoopAfterFacts ==
  ASSUME TypeOK, NEW before \in Seq(Calls)
  PROVE  LET t == LoopAfter(before) IN
         /\ t \in Seq(Calls)
         /\ \A name : name # "cancelled" => (Has(t, name) <=> Has(before, name))
         /\ HasCut(t) <=> HasCut(before)
         /\ HasEnd(t) <=> HasEnd(before)
         /\ OneCut(before) => OneCut(t)
         /\ OneEnd(before) => OneEnd(t)
         /\ AgainLast(before) => AgainLast(t)
         /\ BeginsUpTo(before, answer) => BeginsUpTo(t, answer)
<1>1. CASE Live(answer) /\ responseId # 0
  <2> DEFINE call == Call("cancelled", responseId)
  <2>1. call \in Calls /\ call.name = "cancelled" /\ ~Cutting(call)
    BY DEF TypeOK, Call, Calls, Cutting
  <2>2. LoopAfter(before) = Append(before, call)
    BY <1>1 DEF LoopAfter
  <2>3. answer \in Nat
    BY AnswerIsANumber
  <2> HIDE DEF call
  <2> QED BY <2>1, <2>2, <2>3, CallQueued
<1>2. CASE ~(Live(answer) /\ responseId # 0)
  BY <1>2 DEF LoopAfter
<1> QED BY <1>1, <1>2

\* What _abort_turn does, whatever it is called for.
LEMMA AbortType ==
  ASSUME TypeOK, NEW before \in Seq(Calls), NEW over \in Questions \cup {0},
         over # 0 => tasks[over].stage # "none",
         AbortTurn(before, over)
  PROVE  /\ turn' \in Turns /\ cancelled' \subseteq Questions
         /\ speaker' = Silence /\ speaker' \in Speakers
         /\ TasksType(tasks', answer) /\ loop' \in Seq(Calls)
         /\ {heardSpeech', closed'} \subseteq BOOLEAN
         /\ frames' \in 0..MaxTurns
<1>1. turn' \in Turns
  BY DEF TypeOK, AbortTurn, LetGo, Released, Turns, Phases
<1>2. cancelled' \subseteq Questions
  BY DEF TypeOK, AbortTurn, LetGo, Turns
<1>3. speaker' = Silence /\ speaker' \in Speakers
  BY SilenceAccounted DEF AbortTurn, LetGo
<1>4. TasksType(tasks', answer)
  BY TasksAfterType DEF AbortTurn
<1>5. loop' \in Seq(Calls)
  BY LoopAfterFacts DEF AbortTurn
<1>6. {heardSpeech', closed'} \subseteq BOOLEAN
  BY DEF AbortTurn, EndTurn, ClosedAfter, TypeOK
<1>7. frames' \in 0..MaxTurns
  BY LocalAssumption DEF AbortTurn, EndTurn
<1> QED BY <1>1, <1>2, <1>3, <1>4, <1>5, <1>6, <1>7

\* The end of a task that disturbs nobody.
LEMMA TaskOverType ==
  ASSUME TypeOK, NEW q \in Questions, tasks[q].stage # "none", TaskOver(q)
  PROVE  /\ TasksType(tasks', answer) /\ tasks'[q].stage = "over"
         /\ \A r \in Questions : r # q => tasks'[r] = tasks[r]
         /\ closed' = FALSE /\ {crossed', reopened'} \subseteq BOOLEAN
         /\ UNCHANGED <<loop, frames, heardSpeech>>
<1>1. Task("over") \in Tasks /\ Task("over").stage = "over"
  BY TaskType DEF Stages
<1>2. crossed' \in BOOLEAN
  BY DEF TaskOver, TypeOK
<1>3. reopened' \in BOOLEAN
  <2>1. reopened' = (reopened \/ (closed /\ Queued("ended")))
    BY DEF TaskOver
  <2>2. CASE reopened \/ (closed /\ Queued("ended"))
    BY <2>1, <2>2
  <2>3. CASE ~(reopened \/ (closed /\ Queued("ended")))
    BY <2>1, <2>3
  <2> QED BY <2>2, <2>3
<1>4. /\ TasksType(tasks', answer) /\ tasks'[q].stage = "over"
      /\ \A r \in Questions : r # q => tasks'[r] = tasks[r]
      /\ closed' = FALSE /\ UNCHANGED <<loop, frames, heardSpeech>>
  BY <1>1, TaskMoved DEF TaskOver
<1> QED BY <1>2, <1>3, <1>4

\* What the pre-roll of a turn queues behind the calls `before`: the beginning
\* of a question, and its end if it holds the silence that ends it.
LEMMA BegunLoop ==
  ASSUME NEW before \in Seq(Calls), BeginTurn(before)
  PROVE  /\ loop' \in Seq(Calls)
         /\ \A last \in Nat : BeginsUpTo(before, last) => BeginsUpTo(loop', last)
         /\ ~HasCut(before) /\ ~Has(before, "ended") =>
              /\ ~HasCut(loop') /\ OneEnd(loop')
              /\ HasEnd(loop') => closed'
              /\ closed' => Has(loop', "ended")
<1> DEFINE begun == Append(before, Call("started", 0))
           both == Append(begun, Call("ended", 0))
<1>1. \/ closed' = FALSE /\ loop' \in {before, begun}
      \/ closed' = TRUE /\ loop' = both
  <2>1. before \o <<Call("started", 0), Call("ended", 0)>> = both
    BY DEF Call, Calls
  <2> QED BY <2>1 DEF BeginTurn
<1>2. /\ Call("started", 0) \in Calls /\ Call("started", 0).name = "started"
      /\ ~Cutting(Call("started", 0))
      /\ Call("ended", 0) \in Calls /\ Call("ended", 0).name = "ended"
      /\ ~Cutting(Call("ended", 0))
  BY DEF Call, Calls, Cutting
<1>3. /\ begun \in Seq(Calls)
      /\ \A last \in Nat : BeginsUpTo(before, last) => BeginsUpTo(begun, last)
      /\ HasCut(begun) <=> HasCut(before)
      /\ Has(begun, "ended") <=> Has(before, "ended")
  BY <1>2, CallQueued
<1> HIDE DEF begun
<1>4. /\ both \in Seq(Calls)
      /\ \A last \in Nat : BeginsUpTo(before, last) => BeginsUpTo(both, last)
      /\ HasCut(both) <=> HasCut(before)
      /\ Has(both, "ended")
      /\ OneEnd(begun) /\ ~HasEnd(begun) => OneEnd(both)
  BY <1>2, <1>3, CallQueued
<1> HIDE DEF both
<1>5. ASSUME ~HasCut(before), ~Has(before, "ended")
      PROVE  /\ ~HasCut(loop') /\ OneEnd(loop')
             /\ HasEnd(loop') => closed'
             /\ closed' => Has(loop', "ended")
  <2>1. /\ ~HasEnd(before) /\ OneEnd(before)
        /\ ~HasEnd(begun) /\ OneEnd(begun)
    BY <1>3, <1>5 DEF Has, HasEnd, OneEnd, EndsFirst
  <2> QED BY <1>1, <1>3, <1>4, <1>5, <2>1
<1> QED BY <1>1, <1>3, <1>4, <1>5

\* A turn that begins, behind the calls `before`.
LEMMA BeginType ==
  ASSUME TypeOK, NEW before \in Seq(Calls), turn.n < MaxTurns, BeginTurn(before)
  PROVE  /\ turn' \in Turns /\ {closed', heardSpeech'} \subseteq BOOLEAN
         /\ frames' \in 0..MaxTurns /\ loop' \in Seq(Calls)
<1>1. turn.n \in 0..MaxTurns /\ MaxTurns \in Nat
  BY LocalAssumption DEF TypeOK, Turns
<1>2. turn.n + 1 \in 0..MaxTurns
  BY <1>1
<1>3. turn' \in Turns
  BY <1>2 DEF BeginTurn, NextTurn, NoTurn, Turns, Phases
<1>4. /\ closed' \in BOOLEAN /\ heardSpeech' \in BOOLEAN
      /\ frames' \in {0, turn.n + 1}
  BY DEF BeginTurn
<1>5. frames' \in 0..MaxTurns
  BY <1>1, <1>2, <1>4
<1>6. loop' \in Seq(Calls)
  BY BegunLoop
<1> QED BY <1>3, <1>4, <1>5, <1>6

-----------------------------------------------------------------------------
(***************************************************************************)
(* The steps keep the types                                                *)
(***************************************************************************)

\* The steps of the session, ...
LEMMA SessionType ==
  ASSUME TypeOK, Start \/ Started \/ Retry \/ Stop \/ Stopped
  PROVE  TypeOK'
<1> USE DEF session, question, answers, turns, notes
<1>1. CASE Start
  BY <1>1 DEF Start, TypeOK, SpeakerType
<1>2. CASE Started
  <2>1. failures' \in 0..MaxFailures
    BY <1>2, LocalAssumption DEF Started, TypeOK
  <2>2. /\ state' \in {"ready", "reconnecting", "failed", "disconnected"}
        /\ retrying' \in BOOLEAN
    BY <1>2 DEF Started, TypeOK
  <2> QED BY <1>2, <2>1, <2>2 DEF Started, TypeOK, SpeakerType
<1>3. CASE Retry
  BY <1>3 DEF Retry, TypeOK, SpeakerType
<1>4. CASE Stop
  <2>1. AbortTurn(loop, 0) /\ loop \in Seq(Calls)
    BY <1>4 DEF Stop, TypeOK
  <2>2. /\ turn' \in Turns /\ cancelled' \subseteq Questions /\ speaker' \in Speakers
        /\ TasksType(tasks', answer) /\ loop' \in Seq(Calls)
        /\ {heardSpeech', closed'} \subseteq BOOLEAN /\ frames' \in 0..MaxTurns
    BY <2>1, AbortType
  <2> QED BY <1>4, <2>2 DEF Stop, TypeOK, SpeakerType, TasksType
<1>5. CASE Stopped
  BY <1>5 DEF Stopped, TypeOK, SpeakerType
<1> QED BY <1>1, <1>2, <1>3, <1>4, <1>5

\* ... the steps of the question, ...
LEMMA ListenType ==
  ASSUME TypeOK, Listen \/ Activated \/ NoQuestion \/ QuestionTooLong
                   \/ Leave("cut") \/ Leave("again")
  PROVE  TypeOK'
<1> USE DEF session, question, answers, turns, notes
<1>0. /\ turn \in Turns /\ turn.n \in 0..MaxTurns /\ MaxTurns \in Nat
      /\ loop \in Seq(Calls) /\ frames \in 0..MaxTurns
  BY LocalAssumption DEF TypeOK, Turns
<1>1. \A name \in {"started", "ended", "cut", "again"} : Call(name, 0) \in Calls
  BY DEF Call, Calls
<1>2. CASE Frame
  BY <1>0, <1>2 DEF Frame, TypeOK, SpeakerType
<1>3. CASE SpeechBegins
  <2>1. loop' \in Seq(Calls)
    BY <1>0, <1>1, <1>3, CallQueued DEF SpeechBegins
  <2> QED BY <1>0, <1>3, <2>1 DEF SpeechBegins, TypeOK, SpeakerType
<1>4. CASE SilenceEnds
  <2>1. loop' \in Seq(Calls)
    BY <1>0, <1>1, <1>4, CallQueued DEF SilenceEnds
  <2> QED BY <1>0, <1>4, <2>1 DEF SilenceEnds, TypeOK, SpeakerType
<1>5. CASE Activated
  <2>1. /\ turn' \in Turns /\ {closed', heardSpeech'} \subseteq BOOLEAN
        /\ frames' \in 0..MaxTurns /\ loop' \in Seq(Calls)
    BY <1>0, <1>5, BeginType DEF Activated
  <2> QED BY <1>5, <2>1 DEF Activated, TypeOK, SpeakerType
<1>6. CASE NoQuestion
  <2>1. turn' \in Turns
    BY <1>0, <1>6 DEF NoQuestion, Released, Turns, Phases
  <2>2. frames' \in 0..MaxTurns /\ heardSpeech' = FALSE /\ closed' = FALSE
    BY <1>0, <1>6 DEF NoQuestion, EndTurn
  <2> QED BY <1>6, <2>1, <2>2 DEF NoQuestion, TypeOK, SpeakerType
<1>7. CASE QuestionTooLong
  <2>1. turn' \in Turns
    BY <1>0, <1>7 DEF QuestionTooLong, Turns, Phases
  <2>2. loop' \in Seq(Calls)
    BY <1>0, <1>1, <1>7, CallQueued DEF QuestionTooLong
  <2> QED BY <1>7, <2>1, <2>2 DEF QuestionTooLong, TypeOK, SpeakerType
<1>8. ASSUME NEW name \in {"cut", "again"}, Leave(name) PROVE TypeOK'
  <2>1. turn' \in Turns
    BY <1>0, <1>8 DEF Leave, Turns, Phases
  <2>2. loop' \in Seq(Calls)
    BY <1>0, <1>1, <1>8, CallQueued DEF Leave
  <2> QED BY <1>8, <2>1, <2>2 DEF Leave, TypeOK, SpeakerType
<1> QED BY <1>2, <1>3, <1>4, <1>5, <1>6, <1>7, <1>8 DEF Listen

\* A callback that runs leaves the rest of the queue.
LEMMA RunsFacts ==
  ASSUME TypeOK, loop # <<>>
  PROVE  Head(loop) \in Calls /\ Tail(loop) \in Seq(Calls)
BY CallRun DEF TypeOK

\* ... what truncate leaves of the sentences and of the history, ...
LEMMA TruncateType ==
  ASSUME TypeOK, Truncate
  PROVE  /\ spoken' \in Seq([of : Questions, samples : Nat])
         /\ history' \in Seq(Entries) /\ Len(history') <= HistoryMessages
<1>0. /\ spoken \in Seq([of : Questions, samples : Nat])
      /\ history \in Seq(Entries) /\ Len(history) <= HistoryMessages
      /\ turn \in Turns
  BY DEF TypeOK
<1> DEFINE heard == IF speaker.consumed > Latency THEN speaker.consumed - Latency ELSE 0
<1>1. CASE UNCHANGED <<spoken, history>>
  BY <1>0, <1>1
<1>2. CASE /\ turn.item # 0 /\ spoken' = <<>>
           /\ history' = IF heard > 0 THEN Remembered(Kept(heard)) ELSE history
  <2>1. turn.item \in Questions
    BY <1>0, <1>2 DEF Turns
  <2>2. Kept(heard) \in Entries
    BY <1>0, <2>1, KeptType
  <2> HIDE DEF heard
  <2>3. /\ Remembered(Kept(heard)) \in Seq(Entries)
        /\ Len(Remembered(Kept(heard))) <= HistoryMessages
    BY <1>0, <2>2, RememberedKeeps
  <2> QED BY <1>0, <1>2, <2>3
<1> QED BY <1>1, <1>2 DEF Truncate

\* ... the callbacks of the loop, which find in it what was queued, ...
LEMMA RunLoopType ==
  ASSUME TypeOK, CallsFit, RunLoop
  PROVE  TypeOK'
<1> USE DEF session, question, answers, turns, notes
<1>0. /\ turn \in Turns /\ loop \in Seq(Calls) /\ turn.n \in 0..MaxTurns
      /\ tasks \in [Questions -> Tasks] /\ answer \in Nat
      /\ answer \in Questions \cup {0}
      /\ frames \in 0..MaxTurns /\ 0 \in 0..MaxTurns
  BY AnswerIsANumber, LocalAssumption DEF TypeOK, Turns
<1>a. loop # <<>> /\ Head(loop) \in Calls /\ Tail(loop) \in Seq(Calls)
  BY RunsFacts DEF RunLoop, RunStarted, RunEnded, RunBegin, RunCancelled, RunCut, Runs
<1>1. CASE RunStarted
  <2>1. turn' \in Turns
    BY <1>0, <1>1 DEF RunStarted, Turns
  <2> QED BY <1>1, <1>a, <2>1 DEF RunStarted, TypeOK, SpeakerType
<1>2. CASE RunEnded
  <2>1. CASE Ready
    <3> DEFINE q == answer + 1
    <3>1. q \in Questions
      <4>1. answer < MaxQuestions /\ MaxQuestions \in Nat
        BY <1>2, <2>1, LocalAssumption DEF RunEnded
      <4> QED BY <1>0, <4>1 DEF Questions
    <3>2. turn' \in Turns
      BY <1>0, <1>2, <2>1 DEF RunEnded, Turns, Phases
    <3>3. Call("begin", q) \in Calls
      BY <3>1 DEF Call, Calls
    <3>4. loop' \in Seq(Calls)
      BY <1>2, <1>a, <2>1, <3>3, CallQueued DEF RunEnded
    <3>5. Task("created") \in Tasks /\ Task("created").stage = "created"
      BY TaskType DEF Stages
    <3>6. /\ tasks' \in [Questions -> Tasks]
          /\ \A r \in Questions : tasks'[r].stage # "none" <=> r <= q
      <4>1. tasks' = [tasks EXCEPT ![q] = Task("created")]
        BY <1>2, <2>1 DEF RunEnded
      <4>2. \A r \in Questions : tasks[r].stage # "none" <=> r <= answer
        BY DEF TypeOK
      <4>3. \A r \in Questions : r \in Nat
        BY QuestionsAreNumbers
      <4>4. \A r \in Questions : r <= q <=> r <= answer \/ r = q
        BY <1>0, <4>3
      <4>5. ~(q <= answer)
        BY <1>0
      <4> QED BY <1>0, <3>1, <3>5, <4>1, <4>2, <4>4, <4>5
    <3>7. asked' \in [Questions -> 0..MaxTurns]
      BY <1>0, <1>2, <2>1 DEF RunEnded, TypeOK
    <3>8. /\ answer' = q /\ frames' = 0 /\ heardSpeech' = FALSE
          /\ {crossed', reopened'} \subseteq BOOLEAN
          /\ UNCHANGED <<session, closed, responseId, spoken, history, cancelled,
                         speaker, failures>>
      BY <1>2, <2>1 DEF RunEnded, TypeOK
    <3> HIDE DEF q
    <3> QED BY <1>0, <3>1, <3>2, <3>4, <3>6, <3>7, <3>8 DEF TypeOK, SpeakerType
  <2>2. CASE ~Ready
    BY <1>2, <1>a, <2>2 DEF RunEnded, TypeOK, SpeakerType
  <2> QED BY <2>1, <2>2
<1>3. CASE RunBegin
  <2>1. Head(loop).of \in 1..answer
    BY <1>0, <1>3, <1>a, CallRun DEF CallsFit, RunBegin, Runs
  <2>2. Head(loop).of \in Questions /\ 0 \in Questions \cup {0}
    BY <1>0, <2>1, QuestionsAreNumbers
  <2>3. CASE tasks[Head(loop).of].stage = "created"
    <3>1. Task("transcribing") \in Tasks /\ Task("transcribing").stage = "transcribing"
      BY TaskType DEF Stages
    <3>2. TasksType(tasks', answer) /\ responseId' = 0
      BY <1>3, <2>2, <2>3, <3>1, TaskMoved DEF RunBegin
    <3> QED BY <1>3, <1>a, <3>2 DEF RunBegin, TypeOK, SpeakerType, TasksType
  <2>4. CASE tasks[Head(loop).of].stage # "created"
    BY <1>3, <1>a, <2>4 DEF RunBegin, TypeOK, SpeakerType
  <2> QED BY <2>3, <2>4
<1>4. CASE RunCancelled
  <2>1. CASE AbortTurn(Tail(loop), 0)
    <3>1. /\ turn' \in Turns /\ cancelled' \subseteq Questions /\ speaker' \in Speakers
          /\ TasksType(tasks', answer) /\ loop' \in Seq(Calls)
          /\ {heardSpeech', closed'} \subseteq BOOLEAN /\ frames' \in 0..MaxTurns
      BY <1>a, <2>1, AbortType
    <3> QED BY <1>4, <3>1 DEF RunCancelled, TypeOK, SpeakerType, TasksType
  <2>2. CASE loop' = Tail(loop) /\ UNCHANGED <<turn, cancelled, speaker, tasks, question>>
    BY <1>4, <1>a, <2>2 DEF RunCancelled, TypeOK, SpeakerType
  <2> QED BY <1>4, <2>1, <2>2 DEF RunCancelled
<1>5. CASE RunCut
  <2> DEFINE held == turn.record \/ speaker.open \/ turn.streaming
             before == IF held THEN LoopAfter(Tail(loop)) ELSE Tail(loop)
  <2>1. before \in Seq(Calls)
    BY <1>a, LoopAfterFacts
  <2>2. /\ spoken' \in Seq([of : Questions, samples : Nat])
        /\ history' \in Seq(Entries) /\ Len(history') <= HistoryMessages
        /\ cancelled' \subseteq Questions /\ speaker' \in Speakers
        /\ TasksType(tasks', answer)
    <3>1. CASE held
      <4>1. Truncate /\ cancelled' = cancelled \cup ({turn.response} \ {0})
            /\ speaker' = Silence /\ tasks' = TasksAfter(0)
        BY <1>5, <3>1 DEF RunCut
      <4>2. cancelled' \subseteq Questions
        BY <4>1 DEF TypeOK, Turns
      <4> QED BY <4>1, <4>2, TruncateType, SilenceAccounted, TasksAfterType
    <3>2. CASE ~held
      BY <1>5, <3>2 DEF RunCut, TypeOK, SpeakerType, TasksType
    <3> QED BY <3>1, <3>2
  <2>3. /\ turn' \in Turns /\ loop' \in Seq(Calls) /\ frames' \in 0..MaxTurns
        /\ {heardSpeech', closed'} \subseteq BOOLEAN
    <3>1. CASE Runs("again") /\ BeginTurn(before)
      <4>1. turn.n < MaxTurns
        BY <1>0, <1>a, <3>1, CallRun DEF CallsFit, Runs
      <4> HIDE DEF before
      <4> QED BY <2>1, <3>1, <4>1, BeginType
    <3>2. CASE /\ turn' = Released /\ loop' = before
               /\ IF held
                  THEN /\ closed' = ClosedAfter(0) /\ heardSpeech' = FALSE
                       /\ frames' \in {0} \cup (IF Appends THEN {turn.n} ELSE {})
                  ELSE UNCHANGED question
      <4>1. turn' \in Turns
        BY <1>0, <3>2 DEF Released, Turns, Phases
      <4>2. loop' \in Seq(Calls)
        BY <2>1, <3>2
      <4>3. frames' \in 0..MaxTurns /\ {heardSpeech', closed'} \subseteq BOOLEAN
        BY <1>0, <3>2 DEF TypeOK, ClosedAfter
      <4> QED BY <4>1, <4>2, <4>3
    <3> QED BY <1>5, <3>1, <3>2 DEF RunCut
  <2> QED BY <1>5, <2>2, <2>3 DEF RunCut, TypeOK, SpeakerType, TasksType
<1> QED BY <1>1, <1>2, <1>3, <1>4, <1>5 DEF RunLoop

\* The steps of an answer's task keep the types.
LEMMA AnswerStepType ==
  ASSUME TypeOK, Accounted(speaker), NEW q \in Questions, Answer(q)
  PROVE  TypeOK'
<1> USE DEF session, question, answers, turns, notes
<1>0. /\ turn \in Turns /\ loop \in Seq(Calls)
      /\ tasks \in [Questions -> Tasks] /\ tasks[q] \in Tasks
      /\ spoken \in Seq([of : Questions, samples : Nat])
      /\ history \in Seq(Entries) /\ Len(history) <= HistoryMessages
      /\ MaxSentences \in Nat /\ MaxPiece \in Nat
      /\ speaker \in Speakers
  BY LocalAssumption, PlaybackAssumption DEF TypeOK, SpeakerType
<1>1. \A over \in Questions \cup {0} :
        (over # 0 => tasks[over].stage # "none") /\ AbortTurn(loop, over) =>
          /\ turn' \in Turns /\ cancelled' \subseteq Questions /\ speaker' \in Speakers
          /\ TasksType(tasks', answer) /\ loop' \in Seq(Calls)
          /\ {heardSpeech', closed'} \subseteq BOOLEAN /\ frames' \in 0..MaxTurns
  BY <1>0, AbortType
<1>2. Counted(q) \in Seq([of : Questions, samples : Nat])
  <2>1. Len(spoken) \in Nat /\ DOMAIN spoken = 1..Len(spoken)
        /\ \A i \in DOMAIN spoken : spoken[i] \in [of : Questions, samples : Nat]
    BY <1>0, LenProperties, ElementOfSeq
  <2>2. \A i \in DOMAIN spoken :
          Counted(q)[i] \in {spoken[i], [spoken[i] EXCEPT !.samples = @ + MaxPiece]}
    BY DEF Counted
  <2>3. \A i \in DOMAIN spoken :
          [spoken[i] EXCEPT !.samples = @ + MaxPiece] \in [of : Questions, samples : Nat]
    BY <1>0, <2>1
  <2>4. Counted(q) \in [1..Len(spoken) -> [of : Questions, samples : Nat]]
    BY <2>1, <2>2, <2>3 DEF Counted
  <2> QED BY <2>1, <2>4, SeqDef
<1>3. CASE Transcribed(q)
  <2> DEFINE entry == [role |-> "user", of |-> q, sentences |-> 0, part |-> FALSE]
  <2>1. entry \in Entries
    BY DEF Entries
  <2>2. history' = Remembered(entry) /\ spoken' = <<>> /\ responseId' = q
    BY <1>3 DEF Transcribed
  <2> HIDE DEF entry
  <2>3. history' \in Seq(Entries) /\ Len(history') <= HistoryMessages
    BY <1>0, <2>1, <2>2, RememberedKeeps
  <2>4. Task("speaking") \in Tasks /\ Task("speaking").stage = "speaking"
    BY TaskType DEF Stages
  <2>5. TasksType(tasks', answer)
    BY <1>3, <2>4, TaskMoved DEF Transcribed
  <2>6. turn' \in Turns
    BY <1>0, <1>3 DEF Transcribed, Turns
  <2> QED BY <1>3, <2>2, <2>3, <2>5, <2>6 DEF Transcribed, TypeOK, SpeakerType, TasksType
<1>4. CASE Sentence(q)
  <2> DEFINE task == [tasks[q] EXCEPT !.sentences = @ + 1]
  <2>1. task \in Tasks /\ task.stage = "speaking"
    <3>1. tasks[q].sentences + 1 \in 0..MaxSentences
      BY <1>0, <1>4 DEF Sentence, Tasks
    <3> QED BY <1>0, <1>4, <3>1 DEF Sentence, Tasks
  <2>2. tasks' = [tasks EXCEPT ![q] = task] /\ tasks[q].stage = "speaking"
    BY <1>4 DEF Sentence
  <2> HIDE DEF task
  <2>3. TasksType(tasks', answer)
    BY <2>1, <2>2, TaskMoved
  <2>4. spoken' \in Seq([of : Questions, samples : Nat])
    BY <1>0, <1>4 DEF Sentence
  <2> QED BY <1>4, <2>3, <2>4 DEF Sentence, TypeOK, SpeakerType, TasksType
<1>5. CASE Piece(q)
  <2> DEFINE task == [tasks[q] EXCEPT !.pieces = @ + 1]
  <2>1. task \in Tasks /\ task.stage = "speaking"
    <3>1. tasks[q].pieces + 1 \in 0..MaxSentences
      BY <1>0, <1>5 DEF Piece, Tasks
    <3> QED BY <1>0, <1>5, <3>1 DEF Piece, Tasks
  <2>2. tasks' = [tasks EXCEPT ![q] = task] /\ tasks[q].stage = "speaking"
    BY <1>5 DEF Piece
  <2> HIDE DEF task
  <2>3. TasksType(tasks', answer)
    BY <2>1, <2>2, TaskMoved
  <2>4. Heard \in Speakers
    BY <1>0, NewSpeakerAccounted, PushKeeps DEF Heard
  <2>5. turn' \in Turns /\ speaker' \in Speakers
    BY <1>0, <1>5, <2>4 DEF Piece, Turns, Phases
  <2> QED BY <1>2, <1>5, <2>3, <2>5 DEF Piece, TypeOK, SpeakerType, TasksType
<1>6. CASE NoSpeaker(q)
  <2>1. /\ turn' \in Turns /\ cancelled' \subseteq Questions /\ speaker' \in Speakers
        /\ TasksType(tasks', answer) /\ loop' \in Seq(Calls)
        /\ {heardSpeech', closed'} \subseteq BOOLEAN /\ frames' \in 0..MaxTurns
    BY <1>1, <1>6 DEF NoSpeaker
  <2>2. failures' \in 0..MaxFailures
    BY <1>6, LocalAssumption DEF NoSpeaker, TypeOK
  <2> QED BY <1>2, <1>6, <2>1, <2>2 DEF NoSpeaker, TypeOK, SpeakerType, TasksType
<1>7. CASE Completed(q)
  <2> DEFINE entry == [role |-> "assistant", of |-> q,
                       sentences |-> tasks[q].sentences, part |-> FALSE]
  <2>1. entry \in Entries
    BY <1>0 DEF Entries, Tasks
  <2>2. history' = Remembered(entry)
    BY <1>7 DEF Completed
  <2> HIDE DEF entry
  <2>3. history' \in Seq(Entries) /\ Len(history') <= HistoryMessages
    BY <1>0, <2>1, <2>2, RememberedKeeps
  <2>4. /\ TasksType(tasks', answer)
        /\ closed' = FALSE /\ {crossed', reopened'} \subseteq BOOLEAN
        /\ UNCHANGED <<loop, frames, heardSpeech>>
    BY <1>7, TaskOverType DEF Completed
  <2>5. turn' \in Turns /\ speaker' \in Speakers
    <3>1. Finished(speaker) \in Speakers
      BY <1>0 DEF Finished, Speakers
    <3> QED BY <1>0, <1>7, <3>1 DEF Completed, TurnFinishes, Turns, Phases
  <2> QED BY <1>7, <2>3, <2>4, <2>5 DEF Completed, TypeOK, SpeakerType, TasksType
<1>8. ASSUME tasks[q].stage # "none",
             \/ AbortTurn(loop, q) /\ UNCHANGED notes
             \/ TaskOver(q) /\ UNCHANGED <<turn, cancelled, speaker>>
      PROVE  /\ turn' \in Turns /\ cancelled' \subseteq Questions /\ speaker' \in Speakers
             /\ TasksType(tasks', answer) /\ loop' \in Seq(Calls)
             /\ {heardSpeech', closed', crossed', reopened'} \subseteq BOOLEAN
             /\ frames' \in 0..MaxTurns
  <2>1. CASE AbortTurn(loop, q) /\ UNCHANGED notes
    <3>1. {crossed', reopened'} \subseteq BOOLEAN
      BY <2>1 DEF TypeOK
    <3> QED BY <1>1, <1>8, <2>1, <3>1
  <2>2. CASE TaskOver(q) /\ UNCHANGED <<turn, cancelled, speaker>>
    <3>1. /\ TasksType(tasks', answer)
          /\ closed' = FALSE /\ {crossed', reopened'} \subseteq BOOLEAN
          /\ UNCHANGED <<loop, frames, heardSpeech>>
      BY <1>8, <2>2, TaskOverType
    <3> QED BY <2>2, <3>1 DEF TypeOK, SpeakerType
  <2> QED BY <1>8, <2>1, <2>2
<1>9. CASE Unreachable(q)
  <2>1. /\ turn' \in Turns /\ cancelled' \subseteq Questions /\ speaker' \in Speakers
        /\ TasksType(tasks', answer) /\ loop' \in Seq(Calls)
        /\ {heardSpeech', closed', crossed', reopened'} \subseteq BOOLEAN
        /\ frames' \in 0..MaxTurns
    BY <1>8, <1>9 DEF Unreachable
  <2>2. failures' \in 0..MaxFailures
    BY <1>9, LocalAssumption DEF Unreachable, TypeOK
  <2>3. /\ state' \in {"reconnecting", state} /\ retrying' \in {TRUE, retrying}
    BY <1>9 DEF Unreachable
  <2> QED BY <1>9, <2>1, <2>2, <2>3 DEF Unreachable, TypeOK, SpeakerType, TasksType
<1>10. CASE Fails(q)
  <2>1. /\ turn' \in Turns /\ cancelled' \subseteq Questions /\ speaker' \in Speakers
        /\ TasksType(tasks', answer) /\ loop' \in Seq(Calls)
        /\ {heardSpeech', closed', crossed', reopened'} \subseteq BOOLEAN
        /\ frames' \in 0..MaxTurns
    BY <1>8, <1>10 DEF Fails
  <2>2. failures' \in 0..MaxFailures
    BY <1>10, LocalAssumption DEF Fails, TypeOK
  <2> QED BY <1>10, <2>1, <2>2 DEF Fails, TypeOK, SpeakerType, TasksType
<1>11. CASE Unwinds(q)
  <2>1. /\ TasksType(tasks', answer)
        /\ closed' = FALSE /\ {crossed', reopened'} \subseteq BOOLEAN
        /\ UNCHANGED <<loop, frames, heardSpeech>>
    BY <1>11, TaskOverType DEF Unwinds
  <2> QED BY <1>11, <2>1 DEF Unwinds, TypeOK, SpeakerType, TasksType
<1> QED BY <1>3, <1>4, <1>5, <1>6, <1>7, <1>9, <1>10, <1>11 DEF Answer

\* ... and the device, whose blocks never take more than is queued.
LEMMA SpeakerStepType ==
  ASSUME TypeOK, Accounted(speaker), Device \/ Played
  PROVE  TypeOK'
<1> USE DEF session, question, answers, turns, notes
<1>1. CASE Device
  <2>1. speaker \in Speakers /\ Block \in Nat
    BY PlaybackAssumption DEF TypeOK, SpeakerType
  <2>2. CASE Plays
    <3>1. speaker' = Read(speaker) /\ speaker' \in Speakers
      BY <2>1, <2>2, ReadKeeps DEF Plays
    <3>2. speaker'.failed = speaker.failed
      BY <2>1, <3>1 DEF Read, Speakers
    <3> QED BY <1>1, <3>1, <3>2 DEF Device, TypeOK, SpeakerType
  <2>3. CASE failures < MaxFailures /\ DeviceEnds
    <3>1. speaker' \in Speakers
      BY <2>1, <2>3 DEF DeviceEnds, Speakers
    <3>2. failures' \in 0..MaxFailures
      BY <1>1, <2>3, LocalAssumption DEF Device, TypeOK
    <3> QED BY <1>1, <3>1, <3>2 DEF Device, TypeOK, SpeakerType
  <2> QED BY <1>1, <2>2, <2>3 DEF Device
<1>2. CASE Played
  <2>1. turn' \in Turns
    BY <1>2 DEF Played, TypeOK, Turns, Phases
  <2>2. speaker' \in Speakers
    BY <1>2, SilenceAccounted DEF Played
  <2> QED BY <1>2, <2>1, <2>2 DEF Played, TypeOK, SpeakerType
<1> QED BY <1>1, <1>2

-----------------------------------------------------------------------------
(***************************************************************************)
(* The steps keep the rest: what the steps share                           *)
(***************************************************************************)

\* A step that touches none of what the rest is about.
LEMMA NothingChanges ==
  ASSUME RestInv,
         UNCHANGED <<state, life, retrying, closed, loop, tasks, answer, asked,
                     history, turn, speaker, crossed, reopened>>
  PROVE  RestInv'
BY DEF RestInv, Accounted, SessionFits, CallsFit, TurnFits, QuestionFits, AnswerFits,
       HistoryFits, BeginsUpTo, OneCut, AgainLast, HasCut, Has, HasEnd, OneEnd,
       EndsFirst, Pending, Ready, EndsWith, InOrder

\* A turn that is aborted leaves nothing behind that could disturb the next.
LEMMA AbortKeeps ==
  ASSUME AnswerInv, NEW before \in Seq(Calls), NEW over \in Questions \cup {0},
         over # 0 => tasks[over].stage # "none",
         BeginsUpTo(before, answer), OneCut(before), AgainLast(before),
         Has(before, "again") => Has(loop, "again"),
         AbortTurn(before, over), UNCHANGED <<answer, history, crossed, reopened>>
  PROVE  /\ Accounted(speaker)' /\ CallsFit' /\ TurnFits' /\ QuestionFits'
         /\ ~crossed' /\ ~reopened' => AnswerFits' /\ HistoryFits'
<1>0. turn \in Turns /\ answer \in Nat
  BY AnswerIsANumber DEF AnswerInv, TypeOK
<1>1. /\ turn'.phase = "none" /\ turn'.record = FALSE /\ turn'.streaming = FALSE
      /\ turn'.n = turn.n
      /\ speaker' = Silence /\ speaker'.open = FALSE
      /\ loop' = LoopAfter(before)
  BY <1>0 DEF AbortTurn, LetGo, Released, Turns, Silence, NewSpeaker
<1>2. Accounted(speaker)'
  <2>1. Accounted(speaker')
    BY <1>1, SilenceAccounted
  <2> QED BY <2>1 DEF Accounted
<1>3. CallsFit'
  <2>1. /\ BeginsUpTo(loop', answer) /\ OneCut(loop') /\ AgainLast(loop')
        /\ Has(loop', "again") => Has(before, "again")
    BY <1>1, LoopAfterFacts DEF AnswerInv
  <2>2. Has(loop', "again") => turn'.n < MaxTurns
    BY <1>1, <2>1 DEF AnswerInv, RestInv, CallsFit
  <2> QED BY <1>1, <2>1, <2>2
          DEF CallsFit, BeginsUpTo, OneCut, AgainLast, HasCut, Has
<1>4. TurnFits' /\ QuestionFits'
  BY <1>1 DEF TurnFits, QuestionFits
<1>5. ASSUME ~crossed', ~reopened' PROVE AnswerFits' /\ HistoryFits'
  <2>1. \A q \in Questions : ~Pending(q)'
    <3> TAKE q \in Questions
    <3>1. tasks'[q].stage =
            IF q = over \/ (q = answer /\ tasks[q].stage = "created") THEN "over"
            ELSE IF q = answer /\ Live(q) THEN "unwinding" ELSE tasks[q].stage
      BY TasksAfterType DEF AnswerInv, AbortTurn
    <3>2. Pending(q) => q = answer
      BY <1>5 DEF AnswerInv, RestInv, AnswerFits
    <3>3. CASE Pending(q)
      BY <3>1, <3>2, <3>3, QuestionsAreNumbers DEF Pending, Live
    <3>4. CASE ~Pending(q)
      BY <3>1, <3>4 DEF Pending
    <3> QED BY <3>3, <3>4
  <2>2. AnswerFits'
    BY <1>1, <2>1 DEF AnswerFits
  <2>3. InOrder(history)'
    BY <1>5 DEF AnswerInv, RestInv, HistoryFits, InOrder
  <2> QED BY <1>1, <2>1, <2>2, <2>3 DEF HistoryFits, Pending
<1> QED BY <1>2, <1>3, <1>4, <1>5

\* Nor does the end of a task that disturbs nobody, unless the question it opens
\* again has ended.
LEMMA OverKeeps ==
  ASSUME AnswerInv, NEW q \in Questions,
         tasks[q].stage \in {"created", "transcribing", "speaking", "unwinding"},
         TaskOver(q), UNCHANGED <<turn, speaker, answer, asked, history, life>>
  PROVE  /\ Accounted(speaker)' /\ CallsFit' /\ TurnFits' /\ QuestionFits'
         /\ ~crossed' /\ ~reopened' => AnswerFits' /\ HistoryFits'
<1>1. /\ tasks'[q].stage = "over" /\ closed' = FALSE /\ loop' = loop
      /\ \A r \in Questions : r # q => tasks'[r] = tasks[r]
  BY TaskOverType DEF AnswerInv
<1>2. Accounted(speaker)' /\ CallsFit' /\ TurnFits' /\ QuestionFits'
  BY <1>1 DEF AnswerInv, RestInv, Accounted, CallsFit, TurnFits, QuestionFits,
              BeginsUpTo, OneCut, AgainLast, HasCut, Has
<1>3. ASSUME ~crossed', ~reopened' PROVE AnswerFits' /\ HistoryFits'
  <2>0. AnswerFits /\ HistoryFits
    BY <1>3 DEF AnswerInv, RestInv, TaskOver
  <2>1. \A r \in Questions :
          /\ Pending(r)' => Pending(r)
          /\ tasks'[r].stage = "speaking" => tasks[r].stage = "speaking"
    BY <1>1 DEF Pending
  <2>2. ~(turn.phase = "capturing" /\ HasEnd(loop))
    <3>1. HasEnd(loop) => Queued("ended")
      BY DEF HasEnd, EndsFirst, Queued
    <3>2. ~(closed /\ Queued("ended"))
      BY <1>3 DEF TaskOver
    <3> QED BY <2>0, <3>1, <3>2 DEF AnswerFits
  <2>3. (HasEnd(loop)' <=> HasEnd(loop)) /\ (OneEnd(loop)' <=> OneEnd(loop))
    BY <1>1 DEF HasEnd, OneEnd, EndsFirst
  <2>4. AnswerFits'
    BY <1>1, <2>0, <2>1, <2>2, <2>3 DEF AnswerFits, Pending
  <2>5. HistoryFits'
    <3>1. InOrder(history)' /\ (speaker.open => EndsWith(history, turn.item))'
      BY <2>0 DEF HistoryFits, InOrder, EndsWith
    <3>2. ASSUME NEW r \in Questions, tasks'[r].stage = "speaking"
          PROVE  EndsWith(history', r)
      <4>1. EndsWith(history, r)
        BY <2>0, <2>1, <3>2 DEF HistoryFits
      <4> QED BY <4>1
    <3> QED BY <3>1, <3>2 DEF HistoryFits
  <2> QED BY <2>4, <2>5
<1> QED BY <1>2, <1>3

-----------------------------------------------------------------------------
(***************************************************************************)
(* The steps of the session                                                *)
(***************************************************************************)
LEMMA SessionKeeps ==
  ASSUME AnswerInv, Start \/ Started \/ Retry \/ Stop \/ Stopped
  PROVE  RestInv'
<1> USE DEF question, answers, turns, notes
<1>0. /\ Accounted(speaker) /\ SessionFits /\ CallsFit /\ TurnFits /\ QuestionFits
      /\ ~crossed /\ ~reopened => AnswerFits /\ HistoryFits
  BY DEF AnswerInv, RestInv
<1>1. ASSUME UNCHANGED <<question, loop, answers, turns, crossed, reopened>>, TurnFits',
             SessionFits', QuestionFits'
      PROVE  RestInv'
  <2>1. Accounted(speaker)' /\ CallsFit'
    BY <1>0, <1>1 DEF Accounted, CallsFit, BeginsUpTo, OneCut, AgainLast, HasCut, Has
  <2>2. ~crossed' /\ ~reopened' => AnswerFits' /\ HistoryFits'
    BY <1>0, <1>1 DEF AnswerFits, HistoryFits, HasEnd, OneEnd, EndsFirst, Pending,
                      EndsWith, InOrder
  <2> QED BY <1>1, <2>1, <2>2 DEF RestInv
<1>2. CASE Start \/ Started \/ Stopped
  <2>1. UNCHANGED <<question, loop, answers, turns, crossed, reopened>>
    BY <1>2 DEF Start, Started, Stopped
  <2>2. life # "running"
    BY <1>2 DEF Start, Started, Stopped
  <2>3. TurnFits' /\ QuestionFits'
    BY <1>0, <2>1, <2>2 DEF TurnFits, QuestionFits
  <2>4. SessionFits'
    BY <1>0, <1>2 DEF Start, Started, Stopped, SessionFits, Ready
  <2> QED BY <1>1, <2>1, <2>3, <2>4
<1>3. CASE Retry
  <2>1. UNCHANGED <<question, loop, answers, turns, crossed, reopened, life>>
    BY <1>3 DEF Retry
  <2>2. TurnFits'
    BY <1>0, <2>1 DEF TurnFits
  <2>3. SessionFits' /\ QuestionFits'
    BY <1>0, <1>3, <2>1 DEF Retry, SessionFits, QuestionFits, Ready
  <2> QED BY <1>1, <2>1, <2>2, <2>3
<1>4. CASE Stop
  <2>1. /\ AbortTurn(loop, 0) /\ UNCHANGED <<answer, history, crossed, reopened>>
        /\ loop \in Seq(Calls)
    BY <1>4 DEF Stop, AnswerInv, TypeOK
  <2>2. /\ Accounted(speaker)' /\ CallsFit' /\ TurnFits' /\ QuestionFits'
        /\ ~crossed' /\ ~reopened' => AnswerFits' /\ HistoryFits'
    BY <1>0, <2>1, AbortKeeps DEF CallsFit
  <2>3. SessionFits'
    BY <1>4 DEF Stop, SessionFits
  <2> QED BY <2>2, <2>3 DEF RestInv
<1> QED BY <1>2, <1>3, <1>4

-----------------------------------------------------------------------------
(***************************************************************************)
(* The steps of the question                                               *)
(***************************************************************************)

\* What a queue without a name has none of.
LEMMA NoneQueued ==
  ASSUME NEW s \in Seq(Calls)
  PROVE  /\ ~Has(s, "ended") => ~HasEnd(s) /\ OneEnd(s)
         /\ ~HasCut(s) => OneCut(s) /\ ~Has(s, "again")
         /\ ~Has(s, "again") => AgainLast(s)
BY DEF Has, HasEnd, OneEnd, EndsFirst, HasCut, OneCut, Cutting, AgainLast

\* A turn that begins where no answer can come and no end of a question is queued.
LEMMA BeginKeeps ==
  ASSUME AnswerInv, NEW before \in Seq(Calls),
         BeginsUpTo(before, answer), ~HasCut(before), ~Has(before, "ended"),
         turn.n < MaxTurns, life = "running", Ready, BeginTurn(before),
         ~speaker'.open, UNCHANGED <<state, life, answer>>,
         ~crossed' /\ ~reopened' =>
           InOrder(history') /\ \A q \in Questions : ~Pending(q)'
  PROVE  /\ CallsFit' /\ TurnFits' /\ QuestionFits'
         /\ ~crossed' /\ ~reopened' => AnswerFits' /\ HistoryFits'
<1>1. turn'.phase = "capturing" /\ turn'.record = TRUE /\ turn'.streaming = TRUE
  BY DEF BeginTurn, NextTurn, NoTurn
<1>2. /\ loop' \in Seq(Calls) /\ BeginsUpTo(loop', answer)
      /\ ~HasCut(loop') /\ OneEnd(loop')
      /\ HasEnd(loop') => closed'
      /\ closed' => Has(loop', "ended")
  BY BegunLoop, AnswerIsANumber DEF AnswerInv
<1>3. OneCut(loop') /\ AgainLast(loop') /\ ~Has(loop', "again")
  BY <1>2, NoneQueued
<1>4. CallsFit'
  BY <1>1, <1>2, <1>3 DEF CallsFit, BeginsUpTo, OneCut, AgainLast, HasCut, Has
<1>5. TurnFits'
  BY <1>1 DEF TurnFits
<1>6. QuestionFits'
  BY <1>2 DEF QuestionFits, Ready, Has
<1>7. ASSUME ~crossed', ~reopened' PROVE AnswerFits' /\ HistoryFits'
  <2>1. OneEnd(loop)' /\ (HasEnd(loop)' => closed')
    BY <1>2 DEF OneEnd, HasEnd, EndsFirst
  <2>2. AnswerFits'
    BY <1>7, <2>1 DEF AnswerFits
  <2>3. HistoryFits'
    BY <1>7 DEF HistoryFits, InOrder, Pending
  <2> QED BY <2>2, <2>3
<1> QED BY <1>4, <1>5, <1>6, <1>7

\* A frame, the end of a question, a timer and whoever leaves the turn.
LEMMA ListenKeeps ==
  ASSUME AnswerInv, Listen \/ Activated \/ NoQuestion \/ QuestionTooLong
                      \/ Leave("cut") \/ Leave("again")
  PROVE  RestInv'
<1> USE DEF session, question, answers, turns, notes
<1>0. /\ Accounted(speaker) /\ SessionFits /\ CallsFit /\ TurnFits /\ QuestionFits
      /\ ~crossed /\ ~reopened => AnswerFits /\ HistoryFits
      /\ loop \in Seq(Calls) /\ answer \in Nat
      /\ turn \in Turns /\ turn.n \in Nat
  <2>1. turn \in Turns /\ loop \in Seq(Calls)
    BY DEF AnswerInv, TypeOK
  <2> QED BY <2>1, AnswerIsANumber DEF AnswerInv, RestInv, Turns
<1>a. HasCut(loop) => ~turn.streaming \/ turn.phase = "cut"
  BY <1>0 DEF CallsFit, TurnFits
<1>1. CASE Frame
  BY <1>1, NothingChanges DEF Frame, AnswerInv
<1>2. CASE SpeechBegins
  <2> DEFINE call == Call("started", 0)
  <2>1. call \in Calls /\ call.name = "started" /\ ~Cutting(call)
    BY DEF Call, Calls, Cutting
  <2>2. /\ loop' = Append(loop, call)
        /\ UNCHANGED <<session, closed, answers, turns, crossed, reopened>>
    BY <1>2 DEF SpeechBegins
  <2> HIDE DEF call
  <2>3. /\ BeginsUpTo(loop', answer) /\ OneCut(loop') /\ AgainLast(loop')
        /\ HasCut(loop') <=> HasCut(loop)
        /\ Has(loop', "again") <=> Has(loop, "again")
        /\ Has(loop', "ended") <=> Has(loop, "ended")
        /\ HasEnd(loop') <=> HasEnd(loop)
        /\ OneEnd(loop) => OneEnd(loop')
    BY <1>0, <2>1, <2>2, CallQueued DEF CallsFit
  <2>4. CallsFit'
    BY <1>0, <2>2, <2>3 DEF CallsFit, BeginsUpTo, OneCut, AgainLast, HasCut, Has
  <2>5. QuestionFits'
    BY <1>0, <2>2, <2>3 DEF QuestionFits, Ready, Has
  <2>6. Accounted(speaker)' /\ SessionFits' /\ TurnFits'
    BY <1>0, <2>2 DEF Accounted, SessionFits, TurnFits, Ready
  <2>7. ~crossed' /\ ~reopened' => AnswerFits'
    BY <1>0, <2>2, <2>3 DEF AnswerFits, HasEnd, OneEnd, EndsFirst, Pending
  <2>8. ~crossed' /\ ~reopened' => HistoryFits'
    BY <1>0, <2>2 DEF HistoryFits, EndsWith, InOrder
  <2> QED BY <2>4, <2>5, <2>6, <2>7, <2>8 DEF RestInv
<1>3. CASE SilenceEnds
  <2> DEFINE call == Call("ended", 0)
  <2>1. call \in Calls /\ call.name = "ended" /\ ~Cutting(call)
    BY DEF Call, Calls, Cutting
  <2>2. /\ loop' = Append(loop, call) /\ closed' = TRUE
        /\ turn.streaming /\ Ready /\ ~closed
        /\ UNCHANGED <<session, answers, turns, crossed, reopened>>
    BY <1>3 DEF SilenceEnds, Appends
  <2> HIDE DEF call
  <2>3. turn.phase \in {"capturing", "cut"} /\ ~speaker.open /\ ~Has(loop, "again")
    BY <1>0, <2>2 DEF TurnFits, CallsFit
  <2>4. /\ BeginsUpTo(loop', answer) /\ OneCut(loop') /\ AgainLast(loop')
        /\ HasCut(loop') <=> HasCut(loop)
        /\ Has(loop', "again") <=> Has(loop, "again")
        /\ Has(loop', "ended")
        /\ HasEnd(loop') <=> HasEnd(loop) \/ ~HasCut(loop)
        /\ OneEnd(loop) /\ ~(~HasCut(loop) /\ HasEnd(loop)) => OneEnd(loop')
    BY <1>0, <2>1, <2>2, <2>3, CallQueued DEF CallsFit
  <2>5. CallsFit'
    BY <1>0, <2>2, <2>3, <2>4 DEF CallsFit, BeginsUpTo, OneCut, AgainLast, HasCut, Has
  <2>6. QuestionFits'
    BY <2>2, <2>4 DEF QuestionFits, Ready, Has
  <2>7. Accounted(speaker)' /\ SessionFits' /\ TurnFits'
    BY <1>0, <2>2 DEF Accounted, SessionFits, TurnFits, Ready
  <2>8. ASSUME ~crossed', ~reopened' PROVE AnswerFits'
    <3>0. AnswerFits
      BY <1>0, <2>2, <2>8
    <3>1. CASE turn.phase = "capturing"
      <4>1. ~HasEnd(loop) /\ \A q \in Questions : ~Pending(q)
        BY <2>2, <3>0, <3>1 DEF AnswerFits
      <4>2. turn.record => OneEnd(loop')
        BY <2>4, <3>0, <4>1 DEF AnswerFits
      <4> QED BY <2>2, <2>3, <4>1, <4>2 DEF AnswerFits, OneEnd, EndsFirst, Pending
    <3>2. CASE turn.phase = "cut"
      <4>1. HasCut(loop)
        BY <1>0, <3>2 DEF CallsFit
      <4>2. (HasEnd(loop') <=> HasEnd(loop)) /\ (OneEnd(loop) => OneEnd(loop'))
        BY <2>4, <4>1
      <4> QED BY <2>2, <2>3, <3>0, <3>2, <4>2
              DEF AnswerFits, HasEnd, OneEnd, EndsFirst, Pending
    <3> QED BY <2>3, <3>1, <3>2
  <2>9. ~crossed' /\ ~reopened' => HistoryFits'
    BY <1>0, <2>2 DEF HistoryFits, EndsWith, InOrder
  <2> QED BY <2>5, <2>6, <2>7, <2>8, <2>9 DEF RestInv
<1>4. CASE Activated
  <2>1. /\ BeginTurn(<<>>) /\ life = "running" /\ Ready /\ turn.phase = "none"
        /\ turn.n < MaxTurns
        /\ UNCHANGED <<session, answers, speaker, crossed, reopened>>
    BY <1>4 DEF Activated
  <2>2. ~speaker.open /\ ~turn.record
    BY <1>0, <2>1 DEF TurnFits
  <2>3. <<>> \in Seq(Calls) /\ BeginsUpTo(<<>>, answer) /\ ~HasCut(<<>>)
        /\ ~Has(<<>>, "ended")
    BY DEF BeginsUpTo, HasCut, Has
  <2>4. ~crossed' /\ ~reopened' =>
          InOrder(history') /\ \A q \in Questions : ~Pending(q)'
    BY <1>0, <2>1, <2>2 DEF AnswerFits, HistoryFits, Pending, InOrder
  <2>5. /\ CallsFit' /\ TurnFits' /\ QuestionFits'
        /\ ~crossed' /\ ~reopened' => AnswerFits' /\ HistoryFits'
    BY <2>1, <2>2, <2>3, <2>4, BeginKeeps
  <2>6. Accounted(speaker)' /\ SessionFits'
    BY <1>0, <2>1 DEF Accounted, SessionFits, Ready
  <2> QED BY <2>5, <2>6 DEF RestInv
<1>5. CASE NoQuestion
  <2>1. /\ turn.phase = "capturing"
        /\ turn'.phase = "none" /\ turn'.record = FALSE /\ turn'.streaming = FALSE
        /\ turn'.n = turn.n
        /\ UNCHANGED <<session, loop, answers, speaker, crossed, reopened>>
    BY <1>0, <1>5 DEF NoQuestion, Released, Turns
  <2>2. ~speaker.open
    BY <1>0, <2>1 DEF TurnFits
  <2>3. CallsFit'
    BY <1>0, <2>1 DEF CallsFit, BeginsUpTo, OneCut, AgainLast, HasCut, Has
  <2>4. Accounted(speaker)' /\ SessionFits' /\ TurnFits' /\ QuestionFits'
    BY <1>0, <2>1, <2>2 DEF Accounted, SessionFits, Ready, TurnFits, QuestionFits
  <2>5. ~crossed' /\ ~reopened' => AnswerFits'
    BY <1>0, <2>1, <2>2 DEF AnswerFits, Pending
  <2>6. ~crossed' /\ ~reopened' => HistoryFits'
    BY <1>0, <2>1, <2>2 DEF HistoryFits, EndsWith, InOrder
  <2> QED BY <2>3, <2>4, <2>5, <2>6 DEF RestInv
<1>6. CASE QuestionTooLong
  <2> DEFINE call == Call("ended", 0)
  <2>1. call \in Calls /\ call.name = "ended" /\ ~Cutting(call)
    BY DEF Call, Calls, Cutting
  <2>2. /\ turn.phase = "capturing"
        /\ turn'.phase = "thinking" /\ turn'.streaming = FALSE
        /\ turn'.n = turn.n /\ turn'.record = turn.record
        /\ loop' = IF closed THEN loop ELSE Append(loop, call)
        /\ UNCHANGED <<session, answers, speaker, crossed, reopened>>
    BY <1>0, <1>6 DEF QuestionTooLong, Turns
  <2> HIDE DEF call
  <2>3. ~HasCut(loop) /\ ~Has(loop, "again") /\ ~speaker.open /\ life = "running"
    <3>1. ~HasCut(loop) /\ ~speaker.open /\ life = "running"
      BY <1>0, <2>2 DEF CallsFit, TurnFits
    <3> QED BY <1>0, <3>1, NoneQueued
  <2>4. /\ BeginsUpTo(loop', answer) /\ OneCut(loop') /\ AgainLast(loop')
        /\ ~HasCut(loop') /\ ~Has(loop', "again")
        /\ OneEnd(loop) /\ (closed \/ ~HasEnd(loop)) => OneEnd(loop')
    <3>1. CASE closed
      BY <1>0, <2>2, <2>3, <3>1 DEF CallsFit
    <3>2. CASE ~closed
      BY <1>0, <2>1, <2>2, <2>3, <3>2, CallQueued DEF CallsFit
    <3> QED BY <3>1, <3>2
  <2>5. CallsFit'
    BY <1>0, <2>2, <2>4 DEF CallsFit, BeginsUpTo, OneCut, AgainLast, HasCut, Has
  <2>6. Accounted(speaker)' /\ SessionFits' /\ TurnFits' /\ QuestionFits'
    BY <1>0, <2>2, <2>3 DEF Accounted, SessionFits, Ready, TurnFits, QuestionFits
  <2>7. ASSUME ~crossed', ~reopened' PROVE AnswerFits'
    <3>0. AnswerFits
      BY <1>0, <2>2, <2>7
    <3>1. \A q \in Questions : ~Pending(q)
      BY <2>2, <3>0 DEF AnswerFits
    <3>2. closed \/ ~HasEnd(loop)
      BY <2>2, <3>0 DEF AnswerFits
    <3>3. turn.record => OneEnd(loop')
      BY <2>4, <3>0, <3>2 DEF AnswerFits
    <3> QED BY <2>2, <2>3, <3>1, <3>3 DEF AnswerFits, OneEnd, EndsFirst, Pending
  <2>8. ~crossed' /\ ~reopened' => HistoryFits'
    BY <1>0, <2>2, <2>3 DEF HistoryFits, EndsWith, InOrder
  <2> QED BY <2>5, <2>6, <2>7, <2>8 DEF RestInv
<1>7. ASSUME NEW name \in {"cut", "again"}, Leave(name) PROVE RestInv'
  <2> DEFINE call == Call(name, 0)
  <2>1. call \in Calls /\ call.name = name /\ Cutting(call)
    BY DEF Call, Calls, Cutting
  <2>2. /\ life = "running" /\ turn.phase \in {"capturing", "thinking", "speaking"}
        /\ name = "again" => turn.phase # "capturing" /\ turn.n < MaxTurns
        /\ turn' = [turn EXCEPT !.phase = "cut"]
        /\ loop' = Append(loop, call)
        /\ UNCHANGED <<session, question, answers, speaker, crossed, reopened>>
    BY <1>7 DEF Leave, InTurn
  <2>3. turn'.phase = "cut" /\ turn'.n = turn.n /\ turn'.record = turn.record
        /\ turn'.streaming = turn.streaming /\ turn'.item = turn.item
    BY <1>0, <2>2 DEF Turns
  <2> HIDE DEF call
  <2>4. ~HasCut(loop) /\ ~Has(loop, "again")
    <3>1. ~HasCut(loop)
      BY <1>0, <2>2 DEF CallsFit
    <3> QED BY <1>0, <3>1, NoneQueued
  <2>5. /\ BeginsUpTo(loop', answer) /\ OneCut(loop') /\ AgainLast(loop')
        /\ HasCut(loop')
        /\ Has(loop', "again") => name = "again"
        /\ HasEnd(loop') <=> HasEnd(loop)
        /\ OneEnd(loop) => OneEnd(loop')
    BY <1>0, <2>1, <2>2, <2>4, CallQueued DEF CallsFit
  <2>6. name = "again" => ~turn.streaming
    BY <1>0, <2>2 DEF TurnFits
  <2>7. CallsFit'
    BY <1>0, <2>2, <2>3, <2>5, <2>6
       DEF CallsFit, BeginsUpTo, OneCut, AgainLast, HasCut, Has
  <2>8. Accounted(speaker)' /\ SessionFits' /\ TurnFits' /\ QuestionFits'
    BY <1>0, <2>2, <2>3 DEF Accounted, SessionFits, Ready, TurnFits, QuestionFits
  <2>9. ~crossed' /\ ~reopened' => AnswerFits'
    BY <1>0, <2>2, <2>3, <2>5 DEF AnswerFits, HasEnd, OneEnd, EndsFirst, Pending
  <2>10. ~crossed' /\ ~reopened' => HistoryFits'
    BY <1>0, <2>2, <2>3 DEF HistoryFits, EndsWith, InOrder
  <2> QED BY <2>7, <2>8, <2>9, <2>10 DEF RestInv
<1> QED BY <1>1, <1>2, <1>3, <1>4, <1>5, <1>6, <1>7 DEF Listen

-----------------------------------------------------------------------------
(***************************************************************************)
(* The callbacks of the loop                                               *)
(***************************************************************************)
LEMMA RunLoopKeeps ==
  ASSUME AnswerInv, RunLoop
  PROVE  RestInv'
<1> USE DEF session, question, answers, turns, notes
<1>0. /\ Accounted(speaker) /\ SessionFits /\ CallsFit /\ TurnFits /\ QuestionFits
      /\ ~crossed /\ ~reopened => AnswerFits /\ HistoryFits
      /\ loop \in Seq(Calls) /\ answer \in Nat
      /\ turn \in Turns /\ turn.n \in Nat
  <2>1. turn \in Turns /\ loop \in Seq(Calls)
    BY DEF AnswerInv, TypeOK
  <2> QED BY <2>1, AnswerIsANumber DEF AnswerInv, RestInv, Turns
<1>a. loop # <<>>
  BY DEF RunLoop, RunStarted, RunEnded, RunBegin, RunCancelled, RunCut, Runs
<1> DEFINE call == Head(loop)
           rest == Tail(loop)
<1>b. /\ rest \in Seq(Calls) /\ call \in Calls
      /\ Has(rest, "again") => Has(loop, "again")
      /\ Has(loop, "ended") => Has(rest, "ended") \/ call.name = "ended"
      /\ HasCut(loop) <=> HasCut(rest) \/ Cutting(call)
      /\ OneCut(rest) /\ (Cutting(call) => ~HasCut(rest))
      /\ AgainLast(rest) /\ (call.name = "again" => ~Has(rest, "ended"))
      /\ BeginsUpTo(rest, answer) /\ (call.name = "begin" => call.of \in 1..answer)
  BY <1>0, <1>a, CallRun DEF CallsFit
<1>c. ~Cutting(call) =>
        /\ HasEnd(loop) <=> HasEnd(rest) \/ call.name = "ended"
        /\ OneEnd(loop) => OneEnd(rest) /\ (call.name = "ended" => ~HasEnd(rest))
  BY <1>0, <1>a, CallRun
<1>d. RunStarted \/ RunEnded \/ RunBegin \/ RunCancelled =>
        ~Cutting(call) /\ (call.name = "ended" <=> RunEnded)
  BY DEF RunStarted, RunEnded, RunBegin, RunCancelled, Runs, Cutting
<1> HIDE DEF call, rest
<1>1. CASE RunStarted
  <2>1. /\ loop' = rest /\ turn'.phase = turn.phase /\ turn'.n = turn.n
        /\ turn'.record = turn.record /\ turn'.streaming = turn.streaming
        /\ turn'.item = turn.item /\ turn'.phase = turn.phase
        /\ UNCHANGED <<session, question, answers, speaker, crossed, reopened>>
    BY <1>0, <1>1 DEF RunStarted, Turns, rest
  <2>2. call.name = "started" /\ ~Cutting(call)
    BY <1>1 DEF RunStarted, Runs, Cutting, call
  <2>3. CallsFit'
    BY <1>0, <1>b, <2>1, <2>2 DEF CallsFit, BeginsUpTo, OneCut, AgainLast, HasCut, Has
  <2>4. QuestionFits'
    BY <1>0, <1>b, <2>1, <2>2 DEF QuestionFits, Ready, Has
  <2>5. Accounted(speaker)' /\ SessionFits' /\ TurnFits'
    BY <1>0, <2>1 DEF Accounted, SessionFits, Ready, TurnFits
  <2>6. ~crossed' /\ ~reopened' => AnswerFits'
    BY <1>0, <1>c, <2>1, <2>2 DEF AnswerFits, HasEnd, OneEnd, EndsFirst, Pending
  <2>7. ~crossed' /\ ~reopened' => HistoryFits'
    BY <1>0, <2>1 DEF HistoryFits, EndsWith, InOrder
  <2> QED BY <2>3, <2>4, <2>5, <2>6, <2>7 DEF RestInv
<1>2. CASE RunEnded
  <2>0. call.name = "ended" /\ ~Cutting(call)
    BY <1>2 DEF RunEnded, Runs, Cutting, call
  <2>1. CASE ~Ready
    <3>1. /\ loop' = rest /\ turn' = turn /\ answer' = answer
          /\ UNCHANGED <<session, closed, answers, turns, crossed, reopened>>
      BY <1>2, <2>1 DEF RunEnded, rest
    <3>2. CallsFit'
      <4>1. /\ BeginsUpTo(rest, answer) /\ OneCut(rest) /\ AgainLast(rest)
            /\ HasCut(rest) => turn.phase \in {"cut", "none"}
            /\ turn.phase = "cut" => HasCut(rest)
            /\ Has(rest, "again") => turn.n < MaxTurns /\ ~turn.streaming
        BY <1>0, <1>b, <2>0 DEF CallsFit
      <4>2. loop' = rest /\ turn' = turn /\ answer' = answer
        BY <3>1
      <4> QED BY <4>1, <4>2 DEF CallsFit, BeginsUpTo, OneCut, AgainLast, HasCut, Has
    <3>3. Accounted(speaker)' /\ SessionFits' /\ TurnFits' /\ QuestionFits'
      BY <1>0, <2>1, <3>1 DEF Accounted, SessionFits, Ready, TurnFits, QuestionFits
    <3>4. ~crossed' /\ ~reopened' => AnswerFits'
      BY <1>0, <1>c, <2>0, <3>1 DEF AnswerFits, HasEnd, OneEnd, EndsFirst, Pending
    <3>5. ~crossed' /\ ~reopened' => HistoryFits'
      BY <1>0, <3>1 DEF HistoryFits, EndsWith, InOrder
    <3> QED BY <3>2, <3>3, <3>4, <3>5 DEF RestInv
  <2>2. CASE Ready
    <3> DEFINE q == answer + 1
               begin == Call("begin", q)
    <3>1. /\ q \in Questions /\ q \in Nat
          /\ begin \in Calls /\ begin.name = "begin" /\ begin.of = q /\ ~Cutting(begin)
      <4>1. answer < MaxQuestions /\ MaxQuestions \in Nat
        BY <1>2, <2>2, LocalAssumption DEF RunEnded
      <4>2. q \in Questions /\ q \in Nat
        BY <1>0, <4>1 DEF Questions
      <4> QED BY <4>2 DEF Call, Calls, Cutting
    <3>2. /\ turn' = IF turn.phase = "capturing"
                     THEN [turn EXCEPT !.phase = "thinking", !.timer = "none",
                                       !.streaming = FALSE]
                     ELSE turn
          /\ answer' = q /\ loop' = Append(rest, begin)
          /\ tasks' = [tasks EXCEPT ![q] = Task("created")]
          /\ asked' = [asked EXCEPT ![q] = IF turn.record THEN turn.n ELSE 0]
          /\ crossed' = (crossed \/ ~turn.record)
          /\ UNCHANGED <<session, closed, history, speaker, reopened>>
      BY <1>2, <2>2 DEF RunEnded, rest
    <3>3. /\ turn'.n = turn.n /\ turn'.record = turn.record /\ turn'.item = turn.item
          /\ turn'.phase = IF turn.phase = "capturing" THEN "thinking" ELSE turn.phase
          /\ turn'.streaming = (turn.streaming /\ turn.phase # "capturing")
      BY <1>0, <3>2 DEF Turns
    <3>4. /\ tasks'[q].stage = "created"
          /\ \A r \in Questions : r # q => tasks'[r] = tasks[r]
          /\ asked'[q] = IF turn.record THEN turn.n ELSE 0
      BY <3>1, <3>2, TaskType DEF AnswerInv, TypeOK, Stages
    <3> HIDE DEF q, begin
    <3>5. /\ BeginsUpTo(loop', q) /\ OneCut(loop') /\ AgainLast(loop')
          /\ HasCut(loop') <=> HasCut(loop)
          /\ Has(loop', "again") => Has(loop, "again")
          /\ HasEnd(loop') <=> HasEnd(rest)
          /\ OneEnd(rest) => OneEnd(loop')
      <4>1. BeginsUpTo(rest, q)
        BY <1>0, <1>b, <3>1 DEF BeginsUpTo, q
      <4>2. q \in 1..q
        BY <3>1, QuestionsAreNumbers
      <4> QED BY <1>b, <2>0, <3>1, <3>2, <4>1, <4>2, CallQueued
    <3>6. CallsFit'
      <4>1. HasCut(loop) => turn.phase \in {"cut", "none"}
        BY <1>0 DEF CallsFit
      <4>2. turn.phase = "cut" => HasCut(loop)
        BY <1>0 DEF CallsFit
      <4>3. Has(loop, "again") => turn.n < MaxTurns /\ ~turn.streaming
        BY <1>0 DEF CallsFit
      <4>4. /\ HasCut(loop') => turn'.phase \in {"cut", "none"}
            /\ turn'.phase = "cut" => HasCut(loop')
            /\ Has(loop', "again") => turn'.n < MaxTurns /\ ~turn'.streaming
        BY <3>3, <3>5, <4>1, <4>2, <4>3
      <4>5. answer' = q /\ BeginsUpTo(loop', q) /\ OneCut(loop') /\ AgainLast(loop')
        BY <3>2, <3>5
      <4> QED BY <4>4, <4>5 DEF CallsFit, BeginsUpTo, OneCut, AgainLast, HasCut, Has
    <3>7. TurnFits'
      <4>1. turn.item \in 1..answer => turn.item \in 1..q
        BY <1>0 DEF q
      <4> QED BY <1>0, <3>2, <3>3, <4>1 DEF TurnFits
    <3>8. Accounted(speaker)' /\ SessionFits' /\ QuestionFits'
      BY <1>0, <3>2, <3>3 DEF Accounted, SessionFits, Ready, QuestionFits
    <3>9. ASSUME ~crossed', ~reopened' PROVE AnswerFits' /\ HistoryFits'
      <4>0. AnswerFits /\ HistoryFits /\ turn.record
        BY <1>0, <3>2, <3>9
      <4>1. OneEnd(rest) /\ ~HasEnd(rest) /\ HasEnd(loop)
        BY <1>c, <2>0, <4>0 DEF AnswerFits
      <4>2. ~speaker.open /\ \A r \in Questions : ~Pending(r)
        BY <4>0, <4>1 DEF AnswerFits
      <4>3. \A r \in Questions : Pending(r)' => r = q
        BY <3>4, <4>2 DEF Pending
      <4>4. OneEnd(loop') /\ ~HasEnd(loop')
        BY <3>5, <4>1
      <4>5. AnswerFits'
        BY <3>2, <3>3, <3>4, <4>0, <4>2, <4>3, <4>4
           DEF AnswerFits, HasEnd, OneEnd, EndsFirst
      <4>6. \A r \in Questions : tasks'[r].stage # "speaking"
        BY <3>4, <4>2 DEF Pending
      <4>7. HistoryFits'
        BY <3>2, <4>0, <4>2, <4>6 DEF HistoryFits, InOrder
      <4> QED BY <4>5, <4>7
    <3> QED BY <3>6, <3>7, <3>8, <3>9 DEF RestInv
  <2> QED BY <2>1, <2>2
<1>3. ASSUME ~Cutting(call), call.name # "ended", loop' = rest,
             UNCHANGED <<state, life, retrying, closed, answer, asked, history, turn,
                         speaker, crossed, reopened>>,
             \A r \in Questions : Pending(r)' => Pending(r),
             \A r \in Questions : tasks'[r].stage = "speaking" =>
               tasks[r].stage = "speaking"
      PROVE  RestInv'
  <2>1. CallsFit'
    BY <1>0, <1>b, <1>3 DEF CallsFit, BeginsUpTo, OneCut, AgainLast, HasCut, Has
  <2>2. QuestionFits'
    BY <1>0, <1>b, <1>3 DEF QuestionFits, Ready, Has
  <2>3. Accounted(speaker)' /\ SessionFits' /\ TurnFits'
    BY <1>0, <1>3 DEF Accounted, SessionFits, Ready, TurnFits
  <2>4. ~crossed' /\ ~reopened' => AnswerFits'
    BY <1>0, <1>c, <1>3 DEF AnswerFits, HasEnd, OneEnd, EndsFirst
  <2>5. ASSUME ~crossed', ~reopened' PROVE HistoryFits'
    <3>0. HistoryFits
      BY <1>0, <1>3, <2>5
    <3>1. (speaker.open => EndsWith(history, turn.item))' /\ InOrder(history)'
      BY <1>3, <3>0 DEF HistoryFits, EndsWith, InOrder
    <3>2. ASSUME NEW r \in Questions, tasks'[r].stage = "speaking"
          PROVE  EndsWith(history', r)
      <4>1. EndsWith(history, r)
        BY <1>3, <3>0, <3>2 DEF HistoryFits
      <4> QED BY <1>3, <4>1
    <3> QED BY <3>1, <3>2 DEF HistoryFits
  <2> QED BY <2>1, <2>2, <2>3, <2>4, <2>5 DEF RestInv
<1>4. CASE RunBegin
  <2>0. call.name = "begin" /\ ~Cutting(call)
    BY <1>4 DEF RunBegin, Runs, Cutting, call
  <2>1. /\ loop' = rest
        /\ UNCHANGED <<session, question, answer, history, asked, turns, notes>>
    BY <1>4 DEF RunBegin, rest
  <2>2. call.of \in Questions
    <3>1. call.of \in 1..answer
      BY <1>b, <2>0
    <3>2. answer \in Questions \cup {0}
      BY DEF AnswerInv, TypeOK
    <3>3. answer = 0 \/ answer <= MaxQuestions
      BY <3>2, QuestionsAreNumbers, <1>0
    <3>4. call.of \in Nat /\ 1 <= call.of /\ call.of <= answer
      BY <1>0, <3>1
    <3>5. call.of <= MaxQuestions
      BY <1>0, <3>3, <3>4, LocalAssumption
    <3> QED BY <3>4, <3>5, QuestionsAreNumbers
  <2>3. \/ UNCHANGED tasks
        \/ /\ tasks[call.of].stage = "created"
           /\ tasks'[call.of].stage = "transcribing"
           /\ \A r \in Questions : r # call.of => tasks'[r] = tasks[r]
    <3>1. CASE tasks[call.of].stage = "created"
      <4>1. tasks' = [tasks EXCEPT ![call.of] = Task("transcribing")]
        BY <1>4, <3>1 DEF RunBegin, call
      <4>2. tasks \in [Questions -> Tasks] /\ Task("transcribing").stage = "transcribing"
        BY TaskType DEF AnswerInv, TypeOK, Stages
      <4> QED BY <2>2, <3>1, <4>1, <4>2
    <3>2. CASE tasks[call.of].stage # "created"
      BY <1>4, <3>2 DEF RunBegin, call
    <3> QED BY <3>1, <3>2
  <2>4. \A r \in Questions : Pending(r)' => Pending(r)
    BY <2>3 DEF Pending
  <2>5. \A r \in Questions : tasks'[r].stage = "speaking" => tasks[r].stage = "speaking"
    BY <2>3
  <2> QED BY <1>3, <2>0, <2>1, <2>4, <2>5
<1>5. CASE RunCancelled
  <2>0. call.name = "cancelled" /\ ~Cutting(call)
    BY <1>5 DEF RunCancelled, Runs, Cutting, call
  <2>1. UNCHANGED <<session, answer, history, asked, crossed, reopened>>
    BY <1>5 DEF RunCancelled
  <2>2. CASE AbortTurn(rest, 0)
    <3>1. /\ Accounted(speaker)' /\ CallsFit' /\ TurnFits' /\ QuestionFits'
          /\ ~crossed' /\ ~reopened' => AnswerFits' /\ HistoryFits'
      BY <1>b, <2>1, <2>2, AbortKeeps
    <3>2. SessionFits'
      BY <1>0, <2>1 DEF SessionFits, Ready
    <3> QED BY <3>1, <3>2 DEF RestInv
  <2>3. CASE loop' = rest /\ UNCHANGED <<turn, cancelled, speaker, tasks, question>>
    <3>1. \A r \in Questions : Pending(r)' => Pending(r)
      BY <2>3 DEF Pending
    <3> QED BY <1>3, <2>0, <2>1, <2>3, <3>1
  <2> QED BY <1>5, <2>2, <2>3 DEF RunCancelled, rest
<1>6. CASE RunCut
  <2> DEFINE held == turn.record \/ speaker.open \/ turn.streaming
             before == IF held THEN LoopAfter(rest) ELSE rest
  <2>0. Cutting(call) /\ ~HasCut(rest)
    BY <1>6, <1>b DEF RunCut, Runs, Cutting, call
  <2>1. /\ before \in Seq(Calls) /\ BeginsUpTo(before, answer) /\ ~HasCut(before)
        /\ Has(before, "ended") <=> Has(rest, "ended")
    BY <1>b, <2>0, LoopAfterFacts DEF AnswerInv
  <2>2. ~speaker'.open
    <3>1. Silence.open = FALSE
      BY DEF Silence, NewSpeaker
    <3> QED BY <1>6, <3>1 DEF RunCut
  <2>3. UNCHANGED <<session, answer, asked, crossed, reopened>>
    BY <1>6 DEF RunCut
  <2>4. Accounted(speaker)'
    <3>1. speaker' \in {Silence, speaker}
      BY <1>6 DEF RunCut
    <3>2. Accounted(speaker')
      BY <1>0, <3>1, SilenceAccounted
    <3> QED BY <3>2 DEF Accounted
  <2>5. ASSUME ~crossed', ~reopened'
        PROVE  InOrder(history') /\ \A q \in Questions : ~Pending(q)'
    <3>0. AnswerFits /\ HistoryFits
      BY <1>0, <2>3, <2>5
    <3>1. CASE held
      <4>1. Truncate /\ tasks' = TasksAfter(0)
        BY <1>6, <3>1 DEF RunCut
      <4>2. \A q \in Questions : ~Pending(q)'
        <5> TAKE q \in Questions
        <5>1. tasks'[q].stage =
                IF q = 0 \/ (q = answer /\ tasks[q].stage = "created") THEN "over"
                ELSE IF q = answer /\ Live(q) THEN "unwinding" ELSE tasks[q].stage
          BY <4>1, TasksAfterType DEF AnswerInv
        <5>2. Pending(q) => q = answer
          BY <3>0 DEF AnswerFits
        <5> QED BY <5>1, <5>2, QuestionsAreNumbers DEF Pending, Live
      <4>3. InOrder(history')
        <5> DEFINE heard == IF speaker.consumed > Latency
                            THEN speaker.consumed - Latency ELSE 0
        <5>1. CASE UNCHANGED <<spoken, history>>
          BY <3>0, <5>1 DEF HistoryFits
        <5>2. CASE /\ speaker.open /\ turn.item # 0
                   /\ history' = IF heard > 0 THEN Remembered(Kept(heard)) ELSE history
          <6>1. /\ history \in Seq(Entries) /\ Len(history) <= HistoryMessages
                /\ spoken \in Seq([of : Questions, samples : Nat])
                /\ turn.item \in Questions
            BY <1>0, <5>2 DEF AnswerInv, TypeOK, Turns
          <6>2. Kept(heard) \in Entries /\ Kept(heard).of = turn.item
            BY <6>1, KeptType
          <6>3. InOrder(history) /\ EndsWith(history, turn.item)
            BY <3>0, <5>2 DEF HistoryFits
          <6> HIDE DEF heard
          <6>4. InOrder(Remembered(Kept(heard)))
            BY <6>1, <6>2, <6>3, RememberedKeeps
          <6> QED BY <5>2, <6>3, <6>4
        <5> QED BY <4>1, <5>1, <5>2 DEF Truncate
      <4> QED BY <4>2, <4>3
    <3>2. CASE ~held
      <4>1. UNCHANGED <<history, tasks>>
        BY <1>6, <3>2 DEF RunCut
      <4> QED BY <3>0, <3>2, <4>1 DEF AnswerFits, HistoryFits, Pending
    <3> QED BY <3>1, <3>2
  <2> HIDE DEF before
  <2>6. CASE call.name = "again" /\ life = "running" /\ Ready /\ BeginTurn(before)
    <3>1. turn.n < MaxTurns
      <4>1. Has(loop, "again")
        BY <1>0, <1>a, <2>6, CallRun DEF call
      <4> QED BY <1>0, <4>1 DEF CallsFit
    <3>2. ~Has(before, "ended")
      BY <1>b, <2>1, <2>6
    <3>3. /\ CallsFit' /\ TurnFits' /\ QuestionFits'
          /\ ~crossed' /\ ~reopened' => AnswerFits' /\ HistoryFits'
      BY <2>1, <2>2, <2>3, <2>5, <2>6, <3>1, <3>2, BeginKeeps
    <3>4. SessionFits'
      BY <1>0, <2>3 DEF SessionFits, Ready
    <3> QED BY <2>4, <3>3, <3>4 DEF RestInv
  <2>7. CASE turn' = Released /\ loop' = before
    <3>1. turn'.phase = "none" /\ turn'.record = FALSE /\ turn'.streaming = FALSE
      BY <1>0, <2>7 DEF Released, Turns
    <3>2. OneCut(before) /\ ~Has(before, "again") /\ AgainLast(before)
      BY <2>1, NoneQueued
    <3>3. CallsFit'
      BY <2>1, <2>3, <2>7, <3>1, <3>2
         DEF CallsFit, BeginsUpTo, OneCut, AgainLast, HasCut, Has
    <3>4. TurnFits' /\ QuestionFits' /\ SessionFits'
      BY <1>0, <2>2, <2>3, <3>1 DEF TurnFits, QuestionFits, SessionFits, Ready
    <3>5. ~crossed' /\ ~reopened' => AnswerFits'
      BY <2>2, <2>5, <3>1 DEF AnswerFits
    <3>6. ~crossed' /\ ~reopened' => HistoryFits'
      BY <2>2, <2>5 DEF HistoryFits, InOrder, Pending
    <3> QED BY <2>4, <3>3, <3>4, <3>5, <3>6 DEF RestInv
  <2> QED BY <1>6, <2>6, <2>7 DEF RunCut, Runs, before, rest, call
<1> QED BY <1>1, <1>2, <1>4, <1>5, <1>6 DEF RunLoop

-----------------------------------------------------------------------------
(***************************************************************************)
(* The task of an answer                                                   *)
(***************************************************************************)

\* What the invariant gives for an answer that is still on its way, whose turn
\* nobody has left: it is the only one, its turn waits for it, and no end of a
\* question is queued.
LEMMA PendingFacts ==
  ASSUME AnswerInv, ~crossed, ~reopened, NEW q \in Questions, Pending(q)
  PROVE  /\ q = answer /\ turn.record /\ turn.phase # "capturing"
         /\ asked[q] = turn.n /\ ~HasEnd(loop) /\ OneEnd(loop)
         /\ \A r \in Questions : Pending(r) => r = q
         /\ speaker.open => q = turn.item /\ ~speaker.finished
         /\ InOrder(history)
         /\ tasks[q].stage = "speaking" => EndsWith(history, q)
<1>1. AnswerFits /\ HistoryFits
  BY DEF AnswerInv, RestInv
<1>2. q = answer /\ turn.record /\ turn.phase # "capturing" /\ asked[q] = turn.n
  BY <1>1 DEF AnswerFits
<1>3. ~HasEnd(loop) /\ OneEnd(loop)
  BY <1>1, <1>2 DEF AnswerFits
<1>4. \A r \in Questions : Pending(r) => r = q
  BY <1>1, <1>2 DEF AnswerFits
<1>5. speaker.open => q = turn.item /\ ~speaker.finished
  BY <1>1 DEF AnswerFits
<1>6. InOrder(history) /\ (tasks[q].stage = "speaking" => EndsWith(history, q))
  BY <1>1 DEF HistoryFits
<1> QED BY <1>2, <1>3, <1>4, <1>5, <1>6

\* A task that goes on, as far as the turn does not hear of it.
LEMMA GoesOnKeeps ==
  ASSUME AnswerInv,
         UNCHANGED <<session, closed, loop, answer, asked, speaker, notes>>,
         UNCHANGED <<turn.n, turn.phase, turn.record, turn.streaming, turn.item>>,
         \A r \in Questions : Pending(r)' => Pending(r),
         ~crossed' /\ ~reopened' => HistoryFits'
  PROVE  RestInv'
<1> USE DEF session, notes
<1>0. /\ Accounted(speaker) /\ SessionFits /\ CallsFit /\ TurnFits /\ QuestionFits
      /\ ~crossed /\ ~reopened => AnswerFits
  BY DEF AnswerInv, RestInv
<1>1. CallsFit'
  BY <1>0 DEF CallsFit, BeginsUpTo, OneCut, AgainLast, HasCut, Has
<1>2. Accounted(speaker)' /\ SessionFits' /\ TurnFits' /\ QuestionFits'
  BY <1>0 DEF Accounted, SessionFits, Ready, TurnFits, QuestionFits, Has
<1>3. ~crossed' /\ ~reopened' => AnswerFits'
  BY <1>0 DEF AnswerFits, HasEnd, OneEnd, EndsFirst
<1> QED BY <1>1, <1>2, <1>3 DEF RestInv

\* A question that has been transcribed is remembered, and the turn waits for
\* its answer.
LEMMA TranscribedKeeps ==
  ASSUME AnswerInv, NEW q \in Questions, Transcribed(q)
  PROVE  RestInv'
<1> USE DEF session, question, notes
<1> DEFINE entry == [role |-> "user", of |-> q, sentences |-> 0, part |-> FALSE]
<1>1. /\ tasks[q].stage = "transcribing" /\ tasks'[q].stage = "speaking"
      /\ \A r \in Questions : r # q => tasks'[r] = tasks[r]
  <2>1. Task("speaking").stage = "speaking"
    BY TaskType DEF Stages
  <2> QED BY <2>1 DEF Transcribed, AnswerInv, TypeOK
<1>2. /\ UNCHANGED <<session, closed, loop, answer, asked, speaker, notes>>
      /\ history' = Remembered(entry)
  BY DEF Transcribed
<1>3. UNCHANGED <<turn.n, turn.phase, turn.record, turn.streaming, turn.item>>
  BY DEF Transcribed, AnswerInv, TypeOK, Turns
<1>4. \A r \in Questions : Pending(r)' => Pending(r)
  BY <1>1 DEF Pending
<1>5. ASSUME ~crossed', ~reopened' PROVE HistoryFits'
  <2>1. /\ \A r \in Questions : Pending(r) => r = q
        /\ speaker.open => q = turn.item
        /\ InOrder(history)
    BY <1>1, <1>2, <1>5, PendingFacts DEF Pending
  <2>2. /\ history \in Seq(Entries) /\ Len(history) <= HistoryMessages
        /\ entry \in Entries /\ entry.role = "user" /\ entry.of = q
    BY DEF AnswerInv, TypeOK, Entries
  <2> HIDE DEF entry
  <2>3. InOrder(history') /\ EndsWith(history', q)
    BY <1>2, <2>1, <2>2, RememberedKeeps
  <2>4. (speaker.open => EndsWith(history, turn.item))'
    BY <1>2, <1>3, <2>1, <2>3 DEF EndsWith
  <2>5. ASSUME NEW r \in Questions, tasks'[r].stage = "speaking"
        PROVE  EndsWith(history', r)
    <3>1. Pending(r)
      BY <1>4, <2>5 DEF Pending
    <3> QED BY <2>1, <2>3, <3>1
  <2> QED BY <2>3, <2>4, <2>5 DEF HistoryFits, InOrder, EndsWith
<1> QED BY <1>2, <1>3, <1>4, <1>5, GoesOnKeeps

\* A sentence, or a piece of one nobody hears.
LEMMA UnheardKeeps ==
  ASSUME AnswerInv, NEW q \in Questions, Sentence(q) \/ Piece(q),
         UNCHANGED <<turn, speaker>>
  PROVE  RestInv'
<1> USE DEF session, question, answers, turns, notes
<1>1. \A r \in Questions : tasks'[r].stage = tasks[r].stage
  BY DEF Sentence, Piece, AnswerInv, TypeOK, Tasks
<1>2. UNCHANGED <<session, closed, loop, answer, asked, speaker, history, turn, notes>>
  BY DEF Sentence, Piece
<1>3. \A r \in Questions : Pending(r)' => Pending(r)
  BY <1>1 DEF Pending
<1>4. ASSUME ~crossed', ~reopened' PROVE HistoryFits'
  <2>1. HistoryFits
    BY <1>2, <1>4 DEF AnswerInv, RestInv
  <2> QED BY <1>1, <1>2, <2>1 DEF HistoryFits, InOrder, EndsWith
<1> QED BY <1>1, <1>2, <1>3, <1>4, GoesOnKeeps

\* A piece that is heard: it is of the answer to the question of this turn.
LEMMA HeardKeeps ==
  ASSUME AnswerInv, NEW q \in Questions, Piece(q),
         turn.record, turn.phase \in {"thinking", "speaking"},
         turn' = [turn EXCEPT !.phase = "speaking", !.item = q],
         speaker' = Heard
  PROVE  RestInv'
<1> USE DEF session, question, notes
<1>0. /\ Accounted(speaker) /\ SessionFits /\ CallsFit /\ TurnFits
      /\ ~crossed /\ ~reopened => HistoryFits
      /\ turn \in Turns /\ speaker \in Speakers
  BY DEF AnswerInv, RestInv, TypeOK, SpeakerType
<1>1. /\ tasks[q].stage = "speaking"
      /\ \A r \in Questions : tasks'[r].stage = tasks[r].stage
      /\ UNCHANGED <<session, closed, loop, answer, asked, history, notes>>
  BY DEF Piece, AnswerInv, TypeOK, Tasks
<1>2. /\ turn'.phase = "speaking" /\ turn'.item = q
      /\ UNCHANGED <<turn.n, turn.record, turn.streaming>>
  BY <1>0 DEF Turns
<1>3. /\ Accounted(speaker') /\ speaker'.open
      /\ speaker'.finished => speaker.open /\ speaker.finished
  <2> DEFINE s == IF speaker.open THEN speaker ELSE NewSpeaker
  <2>1. s \in Speakers /\ Accounted(s) /\ s.open
        /\ (s.finished => speaker.open /\ speaker.finished)
    BY <1>0, NewSpeakerAccounted DEF NewSpeaker
  <2> HIDE DEF s
  <2>2. MaxPiece \in Nat
    BY PlaybackAssumption
  <2>3. Accounted(Pushed(s, MaxPiece))
    BY <2>1, <2>2, PushKeeps
  <2>4. Pushed(s, MaxPiece).open /\ Pushed(s, MaxPiece).finished = s.finished
    BY <2>1 DEF Pushed, Speakers
  <2> QED BY <2>1, <2>3, <2>4 DEF Heard, s
<1>4. CallsFit'
  <2>1. ~HasCut(loop)
    BY <1>0 DEF CallsFit
  <2> QED BY <1>0, <1>1, <1>2, <2>1
          DEF CallsFit, BeginsUpTo, OneCut, AgainLast, HasCut, Has
<1>5. TurnFits'
  <2>1. q \in 1..answer
    <3>1. q <= answer
      BY <1>1 DEF AnswerInv, TypeOK
    <3> QED BY <3>1, QuestionsAreNumbers, AnswerIsANumber DEF AnswerInv
  <2> QED BY <1>0, <1>1, <1>2, <1>3, <2>1 DEF TurnFits
<1>6. Accounted(speaker)' /\ SessionFits' /\ QuestionFits'
  BY <1>0, <1>1, <1>2, <1>3 DEF Accounted, SessionFits, Ready, QuestionFits
<1>7. ASSUME ~crossed', ~reopened' PROVE AnswerFits' /\ HistoryFits'
  <2>1. /\ q = answer /\ asked[q] = turn.n /\ ~HasEnd(loop) /\ OneEnd(loop)
        /\ \A r \in Questions : Pending(r) => r = q
        /\ speaker.open => ~speaker.finished
        /\ EndsWith(history, q)
    BY <1>1, <1>7, PendingFacts DEF Pending
  <2>2. \A r \in Questions : Pending(r)' <=> Pending(r)
    BY <1>1 DEF Pending
  <2>3. ~HasEnd(loop)' /\ OneEnd(loop)'
    BY <1>1, <2>1 DEF HasEnd, OneEnd, EndsFirst
  <2>4. AnswerFits'
    BY <1>1, <1>2, <1>3, <2>1, <2>2, <2>3 DEF AnswerFits
  <2>5. HistoryFits'
    BY <1>0, <1>1, <1>2, <1>7, <2>1 DEF HistoryFits, InOrder, EndsWith
  <2> QED BY <2>4, <2>5
<1> QED BY <1>4, <1>5, <1>6, <1>7 DEF RestInv

\* An answer that is finished: the speaker plays the rest of it, or the turn is
\* over.
LEMMA CompletedKeeps ==
  ASSUME AnswerInv, NEW q \in Questions, Completed(q)
  PROVE  RestInv'
<1> USE DEF session, question, notes
<1> DEFINE entry == [role |-> "assistant", of |-> q,
                     sentences |-> tasks[q].sentences, part |-> FALSE]
<1>0. /\ Accounted(speaker) /\ SessionFits /\ CallsFit /\ TurnFits /\ QuestionFits
      /\ turn \in Turns /\ speaker \in Speakers
  BY DEF AnswerInv, RestInv, TypeOK, SpeakerType
<1>1. /\ tasks[q].stage = "speaking" /\ tasks'[q].stage = "over"
      /\ \A r \in Questions : r # q => tasks'[r] = tasks[r]
      /\ closed' = FALSE /\ history' = Remembered(entry)
      /\ crossed' = crossed /\ (reopened => reopened')
      /\ UNCHANGED <<session, loop, answer, asked>>
  BY TaskOverType DEF Completed, TaskOver, AnswerInv
<1>2. \/ UNCHANGED <<turn, speaker>>
      \/ speaker.open /\ speaker' = Finished(speaker) /\ UNCHANGED turn
      \/ /\ ~speaker.open /\ UNCHANGED speaker
         /\ turn' = [turn EXCEPT !.record = FALSE, !.question = FALSE,
                       !.phase = IF @ = "thinking" THEN "none" ELSE @]
  BY DEF Completed, TurnFinishes
<1>3. /\ turn'.record => turn.record
      /\ turn'.phase = turn.phase \/ (turn.phase = "thinking" /\ turn'.phase = "none")
      /\ turn'.phase = "none" => turn.phase = "none" \/ ~turn'.record
      /\ UNCHANGED <<turn.n, turn.streaming, turn.item>>
      /\ speaker'.open = speaker.open
      /\ speaker.open => turn' = turn
  BY <1>0, <1>2 DEF Turns, Finished, Speakers
<1>4. Accounted(speaker)'
  <2>1. Accounted(speaker')
    BY <1>0, <1>2, FinishKeeps
  <2> QED BY <2>1 DEF Accounted
<1>5. CallsFit'
  <2>1. /\ HasCut(loop) => turn'.phase \in {"cut", "none"}
        /\ turn'.phase = "cut" => HasCut(loop)
        /\ Has(loop, "again") => turn'.n < MaxTurns /\ ~turn'.streaming
    BY <1>0, <1>3 DEF CallsFit
  <2>2. BeginsUpTo(loop, answer) /\ OneCut(loop) /\ AgainLast(loop)
    BY <1>0 DEF CallsFit
  <2> QED BY <1>1, <2>1, <2>2 DEF CallsFit, BeginsUpTo, OneCut, AgainLast, HasCut, Has
<1>6. TurnFits'
  BY <1>0, <1>1, <1>3 DEF TurnFits
<1>7. SessionFits' /\ QuestionFits'
  BY <1>0, <1>1 DEF SessionFits, Ready, QuestionFits
<1>8. ASSUME ~crossed', ~reopened' PROVE AnswerFits' /\ HistoryFits'
  <2>1. /\ ~HasEnd(loop) /\ OneEnd(loop) /\ asked[q] = turn.n
        /\ \A r \in Questions : Pending(r) => r = q
        /\ speaker.open => q = turn.item
        /\ InOrder(history) /\ EndsWith(history, q)
    BY <1>1, <1>8, PendingFacts DEF Pending
  <2>2. \A r \in Questions : ~Pending(r)' /\ tasks'[r].stage # "speaking"
    BY <1>1, <2>1 DEF Pending
  <2>3. ~HasEnd(loop)' /\ OneEnd(loop)'
    BY <1>1, <2>1 DEF HasEnd, OneEnd, EndsFirst
  <2>4. AnswerFits'
    BY <1>1, <1>3, <2>1, <2>2, <2>3 DEF AnswerFits
  <2>5. /\ history \in Seq(Entries) /\ Len(history) <= HistoryMessages
        /\ entry \in Entries /\ entry.role = "assistant" /\ entry.of = q
    BY LocalAssumption DEF AnswerInv, TypeOK, Entries, Tasks
  <2> HIDE DEF entry
  <2>6. InOrder(history') /\ EndsWith(history', q)
    BY <1>1, <2>1, <2>5, RememberedKeeps
  <2>7. HistoryFits'
    BY <1>3, <2>1, <2>2, <2>6 DEF HistoryFits, InOrder, EndsWith
  <2> QED BY <2>4, <2>7
<1> QED BY <1>4, <1>5, <1>6, <1>7, <1>8 DEF RestInv

\* The steps of an answer's task.
LEMMA AnswerStepKeeps ==
  ASSUME AnswerInv, NEW q \in Questions, Answer(q)
  PROVE  RestInv'
<1> USE DEF session, question, answers, turns, notes
<1>0. /\ SessionFits /\ BeginsUpTo(loop, answer) /\ OneCut(loop) /\ AgainLast(loop)
      /\ loop \in Seq(Calls) /\ 0 \notin Questions
  BY QuestionsAreNumbers DEF AnswerInv, RestInv, CallsFit, TypeOK
<1>1. CASE Transcribed(q)
  BY <1>1, TranscribedKeeps
<1>2. CASE Sentence(q)
  <2>1. UNCHANGED <<turn, speaker>>
    BY <1>2 DEF Sentence
  <2> QED BY <1>2, <2>1, UnheardKeeps
<1>3. CASE Piece(q)
  <2>1. CASE ~Stale(q) /\ turn.record /\ turn.phase \in {"thinking", "speaking"}
    <3>1. turn' = [turn EXCEPT !.phase = "speaking", !.item = q] /\ speaker' = Heard
      BY <1>3, <2>1 DEF Piece
    <3> QED BY <1>3, <2>1, <3>1, HeardKeeps
  <2>2. CASE ~(~Stale(q) /\ turn.record /\ turn.phase \in {"thinking", "speaking"})
    <3>1. UNCHANGED <<turn, speaker>>
      BY <1>3, <2>2 DEF Piece
    <3> QED BY <1>3, <3>1, UnheardKeeps
  <2> QED BY <2>1, <2>2
<1>4. ASSUME NEW over \in Questions \cup {0}, over # 0 => tasks[over].stage # "none",
             AbortTurn(loop, over), UNCHANGED <<answer, history, notes>>, SessionFits'
      PROVE  RestInv'
  BY <1>0, <1>4, AbortKeeps DEF RestInv
<1>5. ASSUME tasks[q].stage \in {"transcribing", "speaking", "unwinding"}, TaskOver(q),
             UNCHANGED <<turn, speaker, answer, asked, history, life>>,
             SessionFits'
      PROVE  RestInv'
  BY <1>5, OverKeeps DEF RestInv
<1>6. CASE NoSpeaker(q)
  <2>1. AbortTurn(loop, 0) /\ UNCHANGED <<session, answer, history, crossed, reopened>>
    BY <1>6 DEF NoSpeaker
  <2> QED BY <1>0, <1>4, <2>1 DEF SessionFits, Ready
<1>7. CASE Completed(q)
  BY <1>7, CompletedKeeps
<1>8. CASE Unreachable(q)
  <2>1. /\ tasks[q].stage \in {"transcribing", "speaking"}
        /\ UNCHANGED <<life, answer, asked, history>>
    BY <1>8 DEF Unreachable
  <2>2. SessionFits'
    BY <1>0, <1>8 DEF Unreachable, SessionFits, Ready
  <2>3. CASE AbortTurn(loop, q) /\ UNCHANGED notes
    BY <1>4, <2>1, <2>2, <2>3
  <2>4. CASE TaskOver(q) /\ UNCHANGED <<turn, speaker>>
    BY <1>5, <2>1, <2>2, <2>4
  <2> QED BY <1>8, <2>3, <2>4 DEF Unreachable
<1>9. CASE Fails(q)
  <2>1. /\ tasks[q].stage \in {"transcribing", "speaking"}
        /\ UNCHANGED <<session, answer, asked, history>>
    BY <1>9 DEF Fails
  <2>2. SessionFits'
    BY <1>0, <2>1 DEF SessionFits, Ready
  <2>3. CASE AbortTurn(loop, q) /\ UNCHANGED notes
    BY <1>4, <2>1, <2>2, <2>3
  <2>4. CASE TaskOver(q) /\ UNCHANGED <<turn, speaker>>
    BY <1>5, <2>1, <2>2, <2>4
  <2> QED BY <1>9, <2>3, <2>4 DEF Fails
<1>10. CASE Unwinds(q)
  <2>1. /\ tasks[q].stage = "unwinding" /\ TaskOver(q)
        /\ UNCHANGED <<session, answer, asked, history, turn, speaker>>
    BY <1>10 DEF Unwinds
  <2> QED BY <1>0, <1>5, <2>1 DEF SessionFits, Ready
<1> QED BY <1>1, <1>2, <1>3, <1>6, <1>7, <1>8, <1>9, <1>10 DEF Answer

-----------------------------------------------------------------------------
(***************************************************************************)
(* The speaker, and the whole                                              *)
(***************************************************************************)

\* What the device does, and the end of an answer that has been played.
LEMMA SpeakerStepKeeps ==
  ASSUME AnswerInv, Device \/ Played
  PROVE  RestInv'
<1> USE DEF session, question, answers, turns, notes
<1>0. /\ Accounted(speaker) /\ SessionFits /\ CallsFit /\ TurnFits /\ QuestionFits
      /\ ~crossed /\ ~reopened => AnswerFits /\ HistoryFits
      /\ turn \in Turns /\ speaker \in Speakers
  BY DEF AnswerInv, RestInv, TypeOK, SpeakerType
<1>1. CASE Device
  <2>1. UNCHANGED <<session, closed, loop, tasks, answer, asked, history, turn, notes>>
    BY <1>1 DEF Device
  <2>2. /\ Accounted(speaker')
        /\ speaker'.open = speaker.open /\ speaker'.finished = speaker.finished
    <3>1. CASE Plays
      BY <1>0, <3>1, ReadKeeps DEF Plays, Read, Speakers
    <3>2. CASE DeviceEnds
      BY <1>0, <3>2 DEF DeviceEnds, Accounted, Speakers
    <3> QED BY <1>1, <3>1, <3>2 DEF Device
  <2>3. Accounted(speaker)' /\ CallsFit' /\ SessionFits' /\ TurnFits' /\ QuestionFits'
    BY <1>0, <2>1, <2>2 DEF Accounted, SessionFits, Ready, TurnFits, QuestionFits,
                            CallsFit, BeginsUpTo, OneCut, AgainLast, HasCut, Has
  <2>4. ~crossed' /\ ~reopened' => AnswerFits' /\ HistoryFits'
    BY <1>0, <2>1, <2>2 DEF AnswerFits, HistoryFits, HasEnd, OneEnd, EndsFirst, Pending,
                            EndsWith, InOrder
  <2> QED BY <2>3, <2>4 DEF RestInv
<1>2. CASE Played
  <2>1. /\ turn.phase = "speaking" /\ speaker.open /\ speaker.finished
        /\ turn'.phase = "none" /\ turn'.record = FALSE
        /\ UNCHANGED <<turn.n, turn.streaming>>
        /\ speaker' = Silence /\ speaker'.open = FALSE
        /\ UNCHANGED <<session, closed, loop, tasks, answer, asked, history, notes>>
    BY <1>0, <1>2 DEF Played, Turns, Silence, NewSpeaker
  <2>2. Accounted(speaker)'
    <3>1. Accounted(speaker')
      BY <2>1, SilenceAccounted
    <3> QED BY <3>1 DEF Accounted
  <2>3. CallsFit' /\ SessionFits' /\ TurnFits' /\ QuestionFits'
    BY <1>0, <2>1 DEF SessionFits, Ready, TurnFits, QuestionFits,
                      CallsFit, BeginsUpTo, OneCut, AgainLast, HasCut, Has
  <2>4. ASSUME ~crossed', ~reopened' PROVE AnswerFits' /\ HistoryFits'
    <3>1. AnswerFits /\ HistoryFits
      BY <1>0, <2>1, <2>4
    <3>2. \A q \in Questions : ~Pending(q)
      BY <2>1, <3>1 DEF AnswerFits
    <3>3. AnswerFits'
      BY <2>1, <3>2 DEF AnswerFits, Pending
    <3>4. HistoryFits'
      BY <2>1, <3>1 DEF HistoryFits, InOrder, EndsWith
    <3> QED BY <3>3, <3>4
  <2> QED BY <2>2, <2>3, <2>4 DEF RestInv
<1> QED BY <1>1, <1>2

\* The invariant holds at first.
LEMMA InitKeeps == Init => AnswerInv
<1> SUFFICES ASSUME Init PROVE AnswerInv
  OBVIOUS
<1>1. TypeOK
  <2>1. SpeakerType /\ turn \in Turns
    BY SilenceAccounted, LocalAssumption DEF Init, SpeakerType, NoTurn, Turns, Phases
  <2>2. Task("none") \in Tasks /\ Task("none").stage = "none"
    BY TaskType DEF Stages
  <2>3. /\ tasks \in [Questions -> Tasks]
        /\ \A q \in Questions : tasks[q].stage # "none" <=> q <= answer
    BY <2>2, QuestionsAreNumbers DEF Init
  <2>4. /\ asked \in [Questions -> 0..MaxTurns] /\ frames \in 0..MaxTurns
        /\ failures \in 0..MaxFailures /\ history \in Seq(Entries)
        /\ Len(history) <= HistoryMessages
    BY LocalAssumption DEF Init
  <2>5. /\ loop \in Seq(Calls) /\ spoken \in Seq([of : Questions, samples : Nat])
        /\ {answer, responseId} \subseteq Questions \cup {0} /\ cancelled \subseteq Questions
        /\ {retrying, heardSpeech, closed, crossed, reopened} \subseteq BOOLEAN
    <3>1. loop = <<>> /\ spoken = <<>> /\ answer = 0 /\ responseId = 0 /\ cancelled = {}
      BY DEF Init
    <3>2. /\ retrying = FALSE /\ heardSpeech = FALSE /\ closed = FALSE
          /\ crossed = FALSE /\ reopened = FALSE
      BY DEF Init
    <3>3. loop \in Seq(Calls) /\ spoken \in Seq([of : Questions, samples : Nat])
      BY <3>1
    <3>4. {answer, responseId} \subseteq Questions \cup {0} /\ cancelled \subseteq Questions
      BY <3>1
    <3>5. {retrying, heardSpeech, closed, crossed, reopened} \subseteq BOOLEAN
      BY <3>2
    <3> QED BY <3>3, <3>4, <3>5
  <2>6. /\ state \in {"disconnected", "connecting", "ready", "reconnecting", "failed"}
        /\ life \in {"new", "starting", "running", "stopping", "stopped"}
        /\ by \in {"class", "probe"}
    BY DEF Init
  <2> QED BY <2>1, <2>3, <2>4, <2>5, <2>6 DEF TypeOK
<1>2. loop = <<>> /\ turn.phase = "none" /\ turn.record = FALSE
      /\ turn.streaming = FALSE /\ speaker = Silence /\ speaker.open = FALSE
      /\ history = <<>>
  BY DEF Init, NoTurn, Silence, NewSpeaker
<1>3. CallsFit
  BY <1>2 DEF CallsFit, BeginsUpTo, OneCut, AgainLast, HasCut, Has
<1>4. Accounted(speaker) /\ SessionFits /\ TurnFits /\ QuestionFits
  BY <1>2, SilenceAccounted DEF Init, SessionFits, Ready, TurnFits, QuestionFits
<1>5. AnswerFits /\ HistoryFits
  <2>1. \A q \in Questions : tasks[q].stage = "none"
    BY TaskType DEF Init, Stages
  <2> QED BY <1>2, <2>1 DEF AnswerFits, HistoryFits, Pending, InOrder
<1> QED BY <1>1, <1>3, <1>4, <1>5 DEF AnswerInv, RestInv

\* Every step keeps the invariant.
LEMMA StepKeeps == AnswerInv /\ [Next]_vars => AnswerInv'
<1> SUFFICES ASSUME AnswerInv, [Next]_vars PROVE AnswerInv'
  OBVIOUS
<1>0. TypeOK /\ Accounted(speaker) /\ CallsFit
  BY DEF AnswerInv, RestInv
<1>1. CASE Start \/ Started \/ Retry \/ Stop \/ Stopped
  <2>1. TypeOK'
    BY <1>0, <1>1, SessionType
  <2>2. RestInv'
    BY <1>1, SessionKeeps
  <2> QED BY <2>1, <2>2 DEF AnswerInv
<1>2. CASE Listen \/ Activated \/ NoQuestion \/ QuestionTooLong
             \/ Leave("cut") \/ Leave("again")
  BY <1>0, <1>2, ListenType, ListenKeeps DEF AnswerInv
<1>3. CASE RunLoop
  BY <1>0, <1>3, RunLoopType, RunLoopKeeps DEF AnswerInv
<1>4. CASE Device \/ Played
  BY <1>0, <1>4, SpeakerStepType, SpeakerStepKeeps DEF AnswerInv
<1>5. ASSUME NEW q \in Questions, Answer(q) PROVE AnswerInv'
  BY <1>0, <1>5, AnswerStepType, AnswerStepKeeps DEF AnswerInv
<1>6. CASE UNCHANGED vars
  <2>1. TypeOK'
    BY <1>0, <1>6 DEF TypeOK, SpeakerType, vars, session, question, answers, turns,
                        notes
  <2>2. RestInv'
    BY <1>6, NothingChanges DEF AnswerInv, vars, session, question, answers, turns, notes
  <2> QED BY <2>1, <2>2 DEF AnswerInv
<1> QED BY <1>1, <1>2, <1>3, <1>4, <1>5, <1>6 DEF Next

\* The invariant, of every behaviour.
LEMMA AnswerInvariant == Spec => []AnswerInv
<1> QED BY InitKeeps, StepKeeps, PTL DEF Spec

\* Whatever is asked, cut, lost or cancelled, the session and the turn keep
\* their types and the answers begun are the first ones.
THEOREM AnswerTypeCorrect == Spec => []TypeOK
<1>1. AnswerInv => TypeOK
  BY DEF AnswerInv
<1> QED BY <1>1, AnswerInvariant, PTL

\* An answer of the teacher's own server that ended by itself was heard whole,
\* however its pieces came and whatever was cut before.
THEOREM LocalAnswerHeardWhole == Spec => []HeardWhole
<1>1. AnswerInv => HeardWhole
  BY DEF AnswerInv, RestInv, TypeOK, SpeakerType, Speakers, Accounted, HeardWhole
<1> QED BY <1>1, AnswerInvariant, PTL

\* A question that takes no more audio while the turn listens has its end on
\* the loop: the turn never listens to nothing for good.
THEOREM QuestionAlwaysHeard == Spec => []QuestionIsHeard
<1>1. AnswerInv => QuestionIsHeard
  BY DEF AnswerInv, RestInv, QuestionFits, QuestionIsHeard, Has, Queued
<1> QED BY <1>1, AnswerInvariant, PTL

\* The answer that sounds is the answer to the question of its turn, with any
\* number of turns, failures and answers that are cut, as long as no question
\* ends that no turn waits for and none ends twice.
THEOREM AnswerOfItsTurn == Spec => []AnswerIsToItsTurn
<1>1. AnswerInv => AnswerIsToItsTurn
  BY DEF AnswerInv, RestInv, TurnFits, AnswerFits, AnswerIsToItsTurn
<1> QED BY <1>1, AnswerInvariant, PTL

\* What the model is sent is in the order it was said, for any length of the
\* history and any latency of the device, on the same terms.
THEOREM HistoryAlwaysInOrder == Spec => []HistoryInOrder
<1>1. AnswerInv => HistoryInOrder
  BY DEF AnswerInv, RestInv, HistoryFits, InOrder, HistoryInOrder
<1> QED BY <1>1, AnswerInvariant, PTL
==============================================================================

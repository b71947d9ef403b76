------------------------- MODULE MusicPlayer_proofs -------------------------
(***************************************************************************)
(* Proofs about MusicPlayer, for every set of tracks and lists, every      *)
(* bound and either value of MayStop.                                      *)
(***************************************************************************)
EXTENDS MusicPlayer, SequenceTheorems, TLAPS

\* The queue is empty when both of its parts are.
LEMMA QueueEmpty ==
  ASSUME head \in Seq(Tracks), pending \in Seq(Tracks)
  PROVE  Queue = <<>> <=> head = <<>> /\ pending = <<>>
BY ConcatEqualIffEmpty DEF Queue

-----------------------------------------------------------------------------
\* Type correctness.
LEMMA TypeInit == Init => TypeOK
<1>1. <<>> \in Seq(Tracks)
  BY EmptySeq
<1>2. 0 \in 0..MaxToken /\ 0 \in 0..OpenTries /\ 0 \in Nat
  BY TracksAssumption
<1>3. QED
  BY <1>1, <1>2 DEF Init, TypeOK, Holding, PlayPcs

LEMMA TypeStep == TypeOK /\ [Next]_vars => TypeOK'
<1> SUFFICES ASSUME TypeOK, [Next]_vars PROVE TypeOK'
  OBVIOUS
<1> USE DEF TypeOK, Holding, PlayPcs
<1>e. /\ <<>> \in Seq(Tracks)
      /\ head # <<>> => Head(head) \in Tracks /\ Tail(head) \in Seq(Tracks)
      /\ pending # <<>> => Head(pending) \in Tracks /\ Tail(pending) \in Seq(Tracks)
      /\ \A t \in Tracks : <<t>> \in Seq(Tracks)
  BY EmptySeq, HeadTailProperties
<1>n. /\ token < MaxToken => token + 1 \in 0..MaxToken
      /\ tries # 0 => tries - 1 \in 0..OpenTries
      /\ OpenTries \in 0..OpenTries
  BY TracksAssumption
<1>b. \A b \in Batches : /\ b.first = Blank \/ b.first \in Tracks
                         /\ b.rest \in Seq(Tracks)
  BY TracksAssumption
<1>1. CASE Start BY <1>1 DEF Start, history
<1>2. CASE Interrupt BY <1>2, <1>e, <1>n DEF Interrupt, Broadcast, history
<1>3. CASE Stop BY <1>3, <1>e DEF Stop, Broadcast, history
<1>4. ASSUME NEW batch \in Batches, PlayUrls(batch) PROVE TypeOK'
  BY <1>4, <1>e, <1>n, <1>b DEF PlayUrls, Broadcast, history
<1>5. CASE CreateThread BY <1>5 DEF CreateThread, history, queueVars
<1>6. CASE CreateFails BY <1>6 DEF CreateFails, history
<1>7. CASE Exit BY <1>7 DEF Exit, history, queueVars
<1>8. CASE Wait BY <1>8 DEF Wait, history, queueVars
<1>9. CASE SpuriousWakeup BY <1>9 DEF SpuriousWakeup, history, queueVars
<1>10. CASE Take
  <2>1. item' \in Tracks /\ item' # NoTrack
    BY <1>10, <1>e, QueueEmpty, TracksAssumption DEF Take
  <2>2. head' \in Seq(Tracks) /\ pending' \in Seq(Tracks)
    BY <1>10, <1>e, QueueEmpty DEF Take
  <2>3. streamRunning' \in BOOLEAN
    BY <1>10 DEF Take
  <2>4. QED
    BY <1>10, <2>1, <2>2, <2>3 DEF Take
<1>11. CASE Release BY <1>11, <1>e DEF Release, history
<1>12. CASE Begin BY <1>12 DEF Begin, SeeAbort, Aborted, queueVars
<1>13. CASE ReadFile BY <1>13 DEF ReadFile, SeeAbort, Aborted, queueVars
<1>14. CASE ReadStream BY <1>14 DEF ReadStream, history, queueVars
<1>15. CASE EndOfData BY <1>15 DEF EndOfData, AfterFeed, history, queueVars
<1>16. CASE Frame BY <1>16, <1>n DEF Frame, SeeAbort, Aborted, AfterFeed, queueVars
<1>17. CASE Open BY <1>17, <1>n DEF Open, SeeAbort, Aborted, AfterFeed, queueVars
<1>18. CASE CheckAbort BY <1>18 DEF CheckAbort, SeeAbort, Aborted, AfterFeed, queueVars
<1>19. CASE Write BY <1>19 DEF Write, AfterFeed, queueVars
<1>20. CASE StreamReturned BY <1>20 DEF StreamReturned, SeeAbort, Aborted, queueVars
<1>21. CASE Finish BY <1>21 DEF Finish, queueVars
<1>22. CASE UNCHANGED vars BY <1>22 DEF vars, queueVars, workerVars, history
<1>23. QED
  BY <1>1, <1>2, <1>3, <1>4, <1>5, <1>6, <1>7, <1>8, <1>9, <1>10, <1>11, <1>12,
     <1>13, <1>14, <1>15, <1>16, <1>17, <1>18, <1>19, <1>20, <1>21, <1>22
  DEF Next, Caller, Worker, Play

\* The state always has the shape the declarations promise.
THEOREM TypeCorrect == Spec => []TypeOK
BY TypeInit, TypeStep, PTL DEF Spec

-----------------------------------------------------------------------------
(* The inductive invariant behind the safety properties: what the worker   *)
(* relies on at each program point when the other threads' calls may come  *)
(* between any two of its steps.                                           *)

\* The output is open only from the first decoded frame on.
OutputOpen == output # "closed" =>
  pc \in {"read", "frame", "check", "write", "returned", "finish"}

\* A token that changed never changes back, and a written stale chunk means
\* that every later test answers "abort".
StaleAccount ==
  /\ itemToken <= token
  /\ staleWrites \in {0, 1}
  /\ pc = "write" => staleWrites = 0
  /\ Holding /\ staleWrites = 1 => Aborted

\* Before the worker runs nothing is marked as playing.
UnmarkedAtFirst == pc \in {"none", "creating"} => ~playing

IInv == /\ TypeOK
        /\ NoLostWakeup
        /\ CurrentTrackIsActive
        /\ OutputOpen
        /\ StaleAccount
        /\ UnmarkedAtFirst


LEMMA IInvInit == Init => IInv
<1>1. Init => TypeOK
  BY TypeInit
<1>2. Init => NoLostWakeup /\ CurrentTrackIsActive /\ OutputOpen
  BY DEF Init, NoLostWakeup, CurrentTrackIsActive, OutputOpen, Holding
<1>3. Init => StaleAccount /\ UnmarkedAtFirst
  BY DEF Init, StaleAccount, UnmarkedAtFirst, Holding
<1>4. QED
  BY <1>1, <1>2, <1>3 DEF IInv

LEMMA IInvStep == IInv /\ [Next]_vars => IInv'
<1> SUFFICES ASSUME IInv, [Next]_vars PROVE IInv'
  OBVIOUS
<1>t. TypeOK /\ TypeOK'
  BY TypeStep DEF IInv
<1>q. /\ Queue = <<>> <=> head = <<>> /\ pending = <<>>
      /\ Queue' = <<>> <=> head' = <<>> /\ pending' = <<>>
  <2>1. head \in Seq(Tracks) /\ pending \in Seq(Tracks)
    BY <1>t DEF TypeOK
  <2>2. head' \in Seq(Tracks) /\ pending' \in Seq(Tracks)
    BY <1>t DEF TypeOK
  <2>3. QED
    BY <2>1, <2>2, ConcatEqualIffEmpty DEF Queue
<1>n. /\ token \in Nat /\ itemToken \in Nat
      /\ stop \in BOOLEAN /\ playing \in BOOLEAN
  BY <1>t, TracksAssumption DEF TypeOK
<1>h. /\ Holding <=> pc \in PlayPcs
      /\ Holding' <=> pc' \in PlayPcs
      /\ running <=> pc # "none"
  BY <1>t DEF TypeOK
<1> DEFINE Rest == /\ NoLostWakeup
                   /\ CurrentTrackIsActive
                   /\ OutputOpen
                   /\ StaleAccount
                   /\ UnmarkedAtFirst
<1>i. Rest
  BY DEF IInv
<1>s. SUFFICES Rest'
  BY <1>t DEF IInv
<1> USE <1>q, <1>n, <1>h, <1>i
    DEF NoLostWakeup, CurrentTrackIsActive, OutputOpen, StaleAccount,
        UnmarkedAtFirst, Aborted, PlayPcs
<1>1. CASE Start BY <1>1 DEF Start, history
<1>2. CASE Interrupt BY <1>2 DEF Interrupt, Broadcast, history
<1>3. CASE Stop BY <1>3 DEF Stop, Broadcast, history
<1>4. ASSUME NEW batch \in Batches, PlayUrls(batch) PROVE Rest'
  BY <1>4 DEF PlayUrls, Broadcast, history
<1>5. CASE CreateThread BY <1>5 DEF CreateThread, history, queueVars
<1>6. CASE CreateFails BY <1>6 DEF CreateFails, history
<1>7. CASE Exit BY <1>7 DEF Exit, history, queueVars
<1>8. CASE Wait BY <1>8 DEF Wait, history, queueVars
<1>9. CASE SpuriousWakeup BY <1>9 DEF SpuriousWakeup, history, queueVars
<1>10. CASE Take BY <1>10 DEF Take
<1>11. CASE Release BY <1>11 DEF Release, history
<1>12. CASE Begin BY <1>12 DEF Begin, queueVars
<1>13. CASE ReadFile BY <1>13 DEF ReadFile, queueVars
<1>14. CASE ReadStream BY <1>14 DEF ReadStream, history, queueVars
<1>15. CASE EndOfData BY <1>15 DEF EndOfData, AfterFeed, history, queueVars
<1>16. CASE Frame BY <1>16 DEF Frame, AfterFeed, queueVars
<1>17. CASE Open BY <1>17 DEF Open, AfterFeed, queueVars
<1>18. CASE CheckAbort BY <1>18 DEF CheckAbort, AfterFeed, queueVars
<1>19. CASE Write BY <1>19 DEF Write, AfterFeed, queueVars
<1>20. CASE StreamReturned BY <1>20 DEF StreamReturned, queueVars
<1>21. CASE Finish BY <1>21 DEF Finish, queueVars
<1>22. CASE UNCHANGED vars BY <1>22 DEF vars, queueVars, workerVars, history
<1>23. QED
  BY <1>1, <1>2, <1>3, <1>4, <1>5, <1>6, <1>7, <1>8, <1>9, <1>10, <1>11, <1>12,
     <1>13, <1>14, <1>15, <1>16, <1>17, <1>18, <1>19, <1>20, <1>21, <1>22
  DEF Next, Caller, Worker, Play

\* The inductive invariant holds in every reachable state.
THEOREM Invariant == Spec => []IInv
BY IInvInit, IInvStep, PTL DEF Spec

\* No track or stop is ever left to a worker that sleeps.
THEOREM NeverMissesAWakeup == Spec => []NoLostWakeup
<1>1. IInv => NoLostWakeup
  BY DEF IInv
<1>2. QED
  BY Invariant, <1>1, PTL

\* A track that is playing and not aborted keeps the player active.
THEOREM ActiveWhilePlaying == Spec => []CurrentTrackIsActive
<1>1. IInv => CurrentTrackIsActive
  BY DEF IInv
<1>2. QED
  BY Invariant, <1>1, PTL

\* At most one chunk is written after a call aborted the track.
THEOREM AtMostOneStaleChunk == Spec => []OneStaleChunk
<1>1. IInv => OneStaleChunk
  BY DEF IInv, StaleAccount, OneStaleChunk
<1>2. QED
  BY Invariant, <1>1, PTL

\* Two tracks never share the output handle.
THEOREM OutputIsPerTrack == Spec => []OutputClosedBetweenTracks
<1>1. IInv => OutputClosedBetweenTracks
  BY DEF IInv, TypeOK, OutputOpen, OutputClosedBetweenTracks, PlayPcs
<1>2. QED
  BY Invariant, <1>1, PTL

\* An idle player is left marked active by an empty list accepted between the
\* end of a track and the worker's next look at the queue, and by nothing else.
THEOREM IdleMarking == Spec => OnlyEmptyListMarksIdle
<1> DEFINE OnlyEmpty ==
      ~IdleButMarked /\ IdleButMarked' =>
        pc = "lock" /\ \E batch \in Batches : BringsNothing(batch) /\ PlayUrls(batch)
<1>1. IInv /\ IInv' /\ [Next]_vars => [OnlyEmpty]_vars
  <2> SUFFICES ASSUME IInv, IInv', Next, ~IdleButMarked, IdleButMarked'
               PROVE  pc = "lock" /\ \E batch \in Batches :
                                       BringsNothing(batch) /\ PlayUrls(batch)
    OBVIOUS
  <2>1. /\ pc' \in {"lock", "wait"} /\ Queue' = <<>> /\ playing' /\ ~stop'
        /\ ~(pc \in {"lock", "wait"} /\ Queue = <<>> /\ playing /\ ~stop)
    BY DEF IdleButMarked
  <2>2. /\ head' = <<>> /\ pending' = <<>>
        /\ Queue = <<>> <=> head = <<>> /\ pending = <<>>
    BY <2>1, ConcatEqualIffEmpty DEF IInv, TypeOK, Queue
  <2>3. /\ pc = "wait" => Queue = <<>> /\ ~stop
        /\ pc \in {"none", "creating"} => ~playing
        /\ Holding <=> pc \in PlayPcs
        /\ running <=> pc # "none"
    BY DEF IInv, NoLostWakeup, UnmarkedAtFirst, TypeOK
  <2>4. CASE Start \/ Interrupt \/ Stop
    BY <2>1, <2>4 DEF Start, Interrupt, Stop
  <2>5. ASSUME NEW batch \in Batches, PlayUrls(batch)
        PROVE  pc = "lock" /\ BringsNothing(batch)
    <3>1. pc = "lock"
      BY <2>1, <2>2, <2>3, <2>5 DEF PlayUrls, Broadcast
    <3>2. BringsNothing(batch)
      BY <2>2, <2>5 DEF PlayUrls, BringsNothing
    <3> QED
      BY <3>1, <3>2
  <2>6. CASE CreateThread \/ CreateFails \/ Exit \/ Wait \/ SpuriousWakeup
    BY <2>1, <2>2, <2>3, <2>6
    DEF CreateThread, CreateFails, Exit, Wait, SpuriousWakeup, queueVars, Queue
  <2>7. CASE Take \/ Play
    BY <2>1, <2>7
    DEF Take, Play, Begin, ReadFile, ReadStream, EndOfData, AfterFeed, Frame, Open,
        CheckAbort, Write, StreamReturned, Finish
  <2>8. CASE Release
    BY <2>1, <2>2, <2>8 DEF Release
  <2> QED
    BY <2>4, <2>5, <2>6, <2>7, <2>8 DEF Next, Caller, Worker
<1> QED
  BY Invariant, <1>1, PTL DEF Spec, OnlyEmptyListMarksIdle

-----------------------------------------------------------------------------
(* What is played out of a track that was cut off.                         *)

\* An abort the worker has seen lasts as long as it holds the track, and a
\* stream reaches its end with what the last test said of it.
CutInv ==
  /\ CutStreamIsDropped
  /\ Holding /\ sawAbort => Aborted
  /\ pc = "finish" /\ item \in UrlTracks /\ sawAbort => interrupted

LEMMA CutInit == Init => CutInv
BY DEF Init, CutInv, CutStreamIsDropped, Holding

LEMMA CutStep == ASSUME IInv, CutInv, [Next]_vars PROVE CutInv'
<1>t. /\ token \in Nat /\ itemToken \in Nat /\ itemToken <= token
      /\ sawAbort \in BOOLEAN /\ interrupted \in BOOLEAN /\ stop \in BOOLEAN
      /\ Holding <=> pc \in PlayPcs
      /\ running <=> pc # "none"
  BY TracksAssumption DEF IInv, TypeOK, StaleAccount
<1>c. /\ Holding /\ sawAbort => Aborted
      /\ pc = "finish" /\ item \in UrlTracks /\ sawAbort => interrupted
      /\ heardStale \cap UrlTracks = {}
  BY DEF CutInv, CutStreamIsDropped
<1>1. CASE Start \/ Take \/ Release \/ CreateThread \/ CreateFails \/ Exit \/ Wait
           \/ SpuriousWakeup
  <2>1. heardStale' = heardStale /\ pc' # "finish"
    BY <1>1 DEF Start, Take, Release, CreateThread, CreateFails, Exit, Wait, SpuriousWakeup,
       history
  <2>2. sawAbort' = FALSE \/ item' = NoTrack
    <3>1. CASE Take
      BY <3>1 DEF Take
    <3>2. CASE Release
      BY <3>2 DEF Release
    <3>3. CASE Start \/ CreateThread \/ CreateFails \/ Exit \/ Wait \/ SpuriousWakeup
      <4>1. pc \in {"none", "creating", "lock", "wait"}
        BY <1>t, <3>3 DEF Start, CreateThread, CreateFails, Exit, Wait, SpuriousWakeup
      <4>2. item' = item
        BY <3>3 DEF Start, CreateThread, CreateFails, Exit, Wait, SpuriousWakeup
      <4> QED
        BY <1>t, <4>1, <4>2 DEF Holding, PlayPcs
    <3> QED
      BY <1>1, <3>1, <3>2, <3>3
  <2> QED
    BY <1>c, <2>1, <2>2 DEF CutInv, CutStreamIsDropped, Holding
<1>2. ASSUME Interrupt \/ Stop \/ \E batch \in Batches : PlayUrls(batch) PROVE CutInv'
  <2>1. /\ UNCHANGED <<heardStale, sawAbort, item, itemToken, interrupted>>
        /\ pc' = "finish" => pc = "finish"
        /\ stop' = TRUE \/ (stop' = stop /\ token' = token + 1)
    BY <1>2 DEF Interrupt, Stop, PlayUrls, Broadcast, history
  <2>2. Aborted' \/ ~Aborted
    BY <1>t, <2>1 DEF Aborted
  <2> QED
    BY <1>c, <2>1, <2>2 DEF CutInv, CutStreamIsDropped, Holding
<1>3. CASE Begin \/ ReadFile \/ ReadStream \/ EndOfData \/ Frame \/ Open \/ CheckAbort \/ Write
  <2>1. /\ UNCHANGED <<heardStale, item, itemToken, stop, token>>
        /\ sawAbort' => sawAbort \/ Aborted
        /\ pc' = "finish" => item \notin UrlTracks
    <3>1. UNCHANGED <<heardStale, item, itemToken, stop, token>>
      BY <1>3 DEF Begin, ReadFile, ReadStream, EndOfData, Frame, Open, CheckAbort, Write,
         history, queueVars
    <3>2. sawAbort' => sawAbort \/ Aborted
      BY <1>3 DEF Begin, ReadFile, ReadStream, EndOfData, Frame, Open, CheckAbort, Write,
         SeeAbort, history
    <3>3. pc' = "finish" => item \notin UrlTracks
      <4>1. AfterFeed = "finish" => item \notin UrlTracks
        BY DEF AfterFeed
      <4>2. CASE Begin \/ ReadFile \/ ReadStream \/ EndOfData
        BY <4>1, <4>2 DEF Begin, ReadFile, ReadStream, EndOfData
      <4>3. CASE Frame
        BY <4>1, <4>3 DEF Frame
      <4>4. CASE Open \/ CheckAbort \/ Write
        BY <4>1, <4>4 DEF Open, CheckAbort, Write
      <4> QED
        BY <1>3, <4>2, <4>3, <4>4
    <3> QED
      BY <3>1, <3>2, <3>3
  <2> QED
    BY <1>c, <2>1 DEF CutInv, CutStreamIsDropped, Holding, Aborted
<1>4. CASE StreamReturned
  <2>1. /\ UNCHANGED <<heardStale, item, itemToken, stop, token>>
        /\ sawAbort' => sawAbort \/ Aborted
        /\ Aborted => interrupted'
        /\ Holding
    BY <1>4, <1>t DEF StreamReturned, SeeAbort, queueVars, PlayPcs
  <2> QED
    BY <1>c, <2>1 DEF CutInv, CutStreamIsDropped, Holding, Aborted
<1>5. CASE Finish
  <2>1. /\ UNCHANGED <<item, itemToken, stop, token, sawAbort>> /\ pc' = "release"
        /\ pc = "finish"
        /\ heardStale' = heardStale \cup
                           {t \in {item} : output = "queued" /\ ~interrupted /\ sawAbort}
    BY <1>5 DEF Finish, queueVars
  <2>2. heardStale' \cap UrlTracks = {}
    BY <1>c, <2>1
  <2> QED
    BY <1>c, <2>1, <2>2 DEF CutInv, CutStreamIsDropped, Holding, Aborted
<1>6. CASE UNCHANGED vars
  BY <1>c, <1>6 DEF CutInv, CutStreamIsDropped, Holding, Aborted, vars, queueVars, workerVars,
     history
<1> QED
  BY <1>1, <1>2, <1>3, <1>4, <1>5, <1>6 DEF Next, Caller, Worker, Play

\* A stream the worker knows to be aborted is never played out
\* (music_player.h:12, music_player.c:322).
THEOREM CutStreams == Spec => []CutStreamIsDropped
<1>1. IInv /\ CutInv /\ [Next]_vars => CutInv'
  BY CutStep
<1>2. CutInv => CutStreamIsDropped
  BY DEF CutInv
<1> QED
  BY Invariant, CutInit, <1>1, <1>2, PTL DEF Spec

-----------------------------------------------------------------------------
(* The player implements Playlist.  A call is one abstract step; of the    *)
(* worker's steps only Take and Release show, as StartNext and EndTrack.   *)

\* Head and Tail of a queue whose first part is not empty.
LEMMA HeadTailConcat ==
  ASSUME NEW S, NEW s \in Seq(S), NEW t \in Seq(S), s # <<>>
  PROVE  /\ s \o t # <<>>
         /\ Head(s \o t) = Head(s)
         /\ Tail(s \o t) = Tail(s) \o t
<1>1. s \o t \in Seq(S) /\ s \o t # <<>>
  BY ConcatProperties, ConcatEqualIffEmpty
<1>2. Head(s \o t) = Head(s)
  BY <1>1, ConcatProperties, EmptySeq
<1>3. /\ Tail(s) \in Seq(S) /\ Len(Tail(s)) = Len(s) - 1
      /\ \A i \in 1..Len(Tail(s)) : Tail(s)[i] = s[i+1]
  BY HeadTailProperties
<1>4. /\ Tail(s \o t) \in Seq(S) /\ Len(Tail(s \o t)) = Len(s) + Len(t) - 1
      /\ \A i \in 1..Len(Tail(s \o t)) : Tail(s \o t)[i] = (s \o t)[i+1]
  BY <1>1, HeadTailProperties, ConcatProperties
<1>5. /\ Tail(s) \o t \in Seq(S) /\ Len(Tail(s) \o t) = Len(s) - 1 + Len(t)
      /\ \A i \in 1..(Len(s) - 1 + Len(t)) : (Tail(s) \o t)[i] =
            IF i <= Len(s) - 1 THEN Tail(s)[i] ELSE t[i - (Len(s) - 1)]
  BY <1>3, ConcatProperties
<1>6. \A i \in 1..Len(Tail(s \o t)) : Tail(s \o t)[i] = (Tail(s) \o t)[i]
  <2> SUFFICES ASSUME NEW i \in 1..Len(Tail(s \o t))
               PROVE  Tail(s \o t)[i] = (Tail(s) \o t)[i]
    OBVIOUS
  <2>1. Len(s) \in Nat /\ Len(t) \in Nat /\ Len(s) # 0 /\ i \in Nat
    BY LenProperties, EmptySeq
  <2>2. (s \o t)[i+1] = IF i+1 <= Len(s) THEN s[i+1] ELSE t[i + 1 - Len(s)]
    BY <1>4, <2>1, ConcatProperties
  <2>3. i - (Len(s) - 1) = i + 1 - Len(s)
    BY <2>1
  <2>4. QED
    BY <1>3, <1>4, <1>5, <2>1, <2>2, <2>3
<1>7. QED
  BY <1>1, <1>2, <1>4, <1>5, <1>6, SeqEqual, LenProperties

\* Moving the first track of `pending` to an empty `head` leaves the queue as
\* it is.
LEMMA MoveUp ==
  ASSUME NEW S, NEW t \in Seq(S), t # <<>>
  PROVE  <<Head(t)>> \o Tail(t) = t
<1>1. Len(t) \in Nat \ {0}
  BY EmptySeq
<1>2. SubSeq(t, 1, Len(t)) = <<t[1]>> \o SubSeq(t, 2, Len(t))
  BY <1>1, SubSeqRecursiveFirst
<1>3. Tail(t) = SubSeq(t, 2, Len(t)) /\ SubSeq(t, 1, Len(t)) = t
  BY TailIsSubSeq, SubSeqFull
<1>4. Head(t) = t[1]
  OBVIOUS
<1>5. QED
  BY <1>2, <1>3, <1>4

AbsCurrent == IF Holding /\ ~Aborted THEN item ELSE NoTrack

LEMMA RefinementInit == Init => AbstractPlaylist!PInit
BY DEF Init, AbstractPlaylist!PInit, Queue, Holding

LEMMA RefinementStep ==
  IInv /\ IInv' /\ [Next]_vars => [AbstractPlaylist!PNext]_<<Queue, AbsCurrent, stop, token>>
<1> SUFFICES ASSUME IInv, IInv', [Next]_vars
             PROVE  \/ AbstractPlaylist!PNext
                    \/ UNCHANGED <<Queue, AbsCurrent, stop, token>>
  OBVIOUS
<1>t. /\ head \in Seq(Tracks) /\ pending \in Seq(Tracks)
      /\ head' \in Seq(Tracks) /\ pending' \in Seq(Tracks)
      /\ token \in Nat /\ itemToken \in Nat /\ itemToken <= token
      /\ stop \in BOOLEAN
  BY TracksAssumption DEF IInv, TypeOK, StaleAccount
<1>h. /\ Holding <=> pc \in PlayPcs
      /\ Holding' <=> pc' \in PlayPcs
      /\ running <=> pc # "none"
  BY DEF IInv, TypeOK
<1>q. Queue' \in Seq(Tracks)
  BY <1>t, ConcatProperties DEF Queue
<1>same. ASSUME UNCHANGED <<head, pending, item, itemToken, stop, token>>
         PROVE  UNCHANGED <<Queue, AbsCurrent, stop, token>>
  BY <1>same DEF Queue, AbsCurrent, Holding, Aborted
<1>1. CASE Start
  <2>1. UNCHANGED <<Queue, token>> /\ stop' = FALSE
    BY <1>1 DEF Start, Queue
  <2>2. AbsCurrent = NoTrack /\ AbsCurrent' = NoTrack
    BY <1>1, <1>h DEF Start, AbsCurrent, PlayPcs
  <2>3. AbstractPlaylist!Launch
    BY <2>1, <2>2 DEF AbstractPlaylist!Launch, AbsCurrent
  <2>4. QED
    BY <2>3 DEF AbstractPlaylist!PNext
<1>2. ASSUME Interrupt \/ \E batch \in Batches : PlayUrls(batch)
      PROVE  AbstractPlaylist!PNext
  <2>1. token' = token + 1 /\ UNCHANGED <<stop, item, itemToken>>
    BY <1>2 DEF Interrupt, PlayUrls
  <2>2. AbsCurrent' = NoTrack
    BY <2>1, <1>t DEF AbsCurrent, Aborted
  <2>3. AbstractPlaylist!Replace
    BY <2>1, <2>2, <1>q DEF AbstractPlaylist!Replace, AbsCurrent
  <2>4. QED
    BY <2>3 DEF AbstractPlaylist!PNext
<1>3. CASE Stop
  <2>1. stop' = TRUE /\ head' = <<>> /\ pending' = <<>> /\ token' = token
    BY <1>3 DEF Stop
  <2>2. Queue' = <<>> /\ AbsCurrent' = NoTrack
    BY <2>1, <1>t, ConcatEqualIffEmpty DEF Queue, AbsCurrent, Aborted
  <2>3. AbstractPlaylist!Shutdown
    BY <2>1, <2>2 DEF AbstractPlaylist!Shutdown, AbsCurrent
  <2>4. QED
    BY <2>3 DEF AbstractPlaylist!PNext
<1>4. CASE Take
  <2>1. /\ Queue # <<>> /\ item' = Head(Queue) /\ Queue' = Tail(Queue)
        /\ Head(Queue) \in Tracks
    <3>1. Queue \in Seq(Tracks) /\ Queue # <<>>
      BY <1>4, <1>t, ConcatProperties DEF Take, Queue
    <3>2. Head(Queue) \in Tracks
      BY <3>1, HeadTailProperties
    <3>3. CASE head # <<>>
      <4>1. item' = Head(head) /\ head' = Tail(head) /\ pending' = pending
        BY <1>4, <3>3 DEF Take
      <4>2. Head(Queue) = Head(head) /\ Tail(Queue) = Tail(head) \o pending
        BY <1>t, <3>3, HeadTailConcat DEF Queue
      <4>3. QED
        BY <3>1, <3>2, <4>1, <4>2 DEF Queue
    <3>4. CASE head = <<>>
      <4>1. item' = Head(pending) /\ head' = <<>> /\ pending' = Tail(pending)
        BY <1>4, <3>4 DEF Take
      <4>2. Queue = pending /\ Queue' = pending'
        BY <1>t, <3>4, <4>1, ConcatEmptySeq DEF Queue
      <4>3. QED
        BY <3>1, <3>2, <4>1, <4>2
    <3>5. QED
      BY <3>3, <3>4
  <2>2. AbsCurrent = NoTrack
    BY <1>4, <1>h DEF Take, AbsCurrent, PlayPcs
  <2>3. AbsCurrent' = item'
    BY <1>4, <1>h DEF Take, AbsCurrent, Aborted, PlayPcs
  <2>4. AbstractPlaylist!StartNext
    BY <1>4, <2>1, <2>2, <2>3 DEF Take, AbstractPlaylist!StartNext, AbsCurrent
  <2>5. QED
    BY <2>4 DEF AbstractPlaylist!PNext
<1>5. CASE Release
  <2>1. Queue' = Queue
    <3>1. CASE head = <<>> /\ pending # <<>>
      <4>1. head' = <<Head(pending)>> /\ pending' = Tail(pending)
        BY <1>5, <3>1 DEF Release
      <4>2. Queue = pending
        BY <1>t, <3>1, ConcatEmptySeq DEF Queue
      <4>3. Queue' = pending
        BY <1>t, <3>1, <4>1, MoveUp DEF Queue
      <4>4. QED
        BY <4>2, <4>3
    <3>2. CASE head # <<>> \/ pending = <<>>
      BY <1>5, <3>2 DEF Release, Queue
    <3>3. QED
      BY <3>1, <3>2
  <2>2. AbsCurrent' = NoTrack /\ UNCHANGED <<stop, token>>
    BY <1>5 DEF Release, AbsCurrent
  <2>3. CASE AbsCurrent = NoTrack
    BY <2>1, <2>2, <2>3
  <2>4. CASE AbsCurrent # NoTrack
    <3>1. AbstractPlaylist!EndTrack
      BY <2>1, <2>2, <2>4 DEF AbstractPlaylist!EndTrack, AbsCurrent
    <3>2. QED
      BY <3>1 DEF AbstractPlaylist!PNext
  <2>5. QED
    BY <2>3, <2>4
<1>6. CASE CreateThread \/ CreateFails \/ Exit \/ Wait \/ SpuriousWakeup
  BY <1>6, <1>same
  DEF CreateThread, CreateFails, Exit, Wait, SpuriousWakeup, queueVars
<1>7. CASE Play
  BY <1>7, <1>same
  DEF Play, Begin, ReadFile, ReadStream, EndOfData, Frame, Open, CheckAbort,
      Write, StreamReturned, Finish, queueVars
<1>8. CASE UNCHANGED vars
  BY <1>8, <1>same DEF vars, queueVars, workerVars
<1>9. QED
  BY <1>1, <1>2, <1>3, <1>4, <1>5, <1>6, <1>7, <1>8 DEF Next, Caller, Worker

\* The player is an implementation of Playlist: lists are played in order,
\* one track at a time, and only a call drops or replaces a track.
THEOREM Refinement == Spec => ImplementsPlaylist
<1>1. IInv /\ IInv' /\ [Next]_vars => [AbstractPlaylist!PNext]_(AbstractPlaylist!pvars)
  BY RefinementStep DEF AbstractPlaylist!pvars, AbsCurrent
<1>2. QED
  BY RefinementInit, Invariant, <1>1, PTL
  DEF Spec, ImplementsPlaylist, AbstractPlaylist!PSpec
=============================================================================

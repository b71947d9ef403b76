------------------------- MODULE AudioUplink_proofs -------------------------
(***************************************************************************)
(* Theorems about AudioUplink, for every size of the preroll ring and of   *)
(* the gate, every sequence of captured frames and every number of rounds: *)
(* what the ring holds, what the server receives of a segment, and when    *)
(* the gate is open.                                                       *)
(***************************************************************************)
EXTENDS AudioUplink, SequenceTheorems, WellFoundedInduction, TLAPS

Types ==
  /\ frame \in Nat /\ round \in Nat
  /\ ring \in [Slots -> Nat] /\ prerollPos \in Slots /\ prerollFull \in BOOLEAN
  /\ quiet \in Seq(Nat) /\ segment \in Seq(Nat)

\* Slot by slot: what was written since the ring last wrapped, and before.
RingInv ==
  /\ \A j \in Slots : j < prerollPos => ring[j] = quiet[Len(quiet) - prerollPos + j + 1]
  /\ ~prerollFull => Len(quiet) = prerollPos
  /\ prerollFull => /\ Len(quiet) >= PrerollFrames
                    /\ \A j \in Slots : j >= prerollPos =>
                         ring[j] = quiet[Len(quiet) - prerollPos - PrerollFrames + j + 1]

-----------------------------------------------------------------------------
(* The ring.                                                               *)

\* A position that has been advanced at most once around the ring.
LEMMA Wraps ==
  ASSUME NEW n \in Nat \ {0}, NEW a \in 0 .. n + n - 1
  PROVE  a % n = IF a < n THEN a ELSE a - n
<1>1. CASE a < n
  BY <1>1, SMT
<1>2. CASE a >= n
  BY <1>2, SMT
<1> QED
  BY <1>1, <1>2

LEMMA OneOn ==
  ASSUME NEW p \in Slots
  PROVE  (p + 1) % PrerollFrames = IF p + 1 = PrerollFrames THEN 0 ELSE p + 1
<1> DEFINE a == p + 1
           n == PrerollFrames
<1>1. n \in Nat \ {0} /\ a \in 1 .. n
  BY UplinkAssumption DEF Slots
<1>2. a % n = IF a = n THEN 0 ELSE a
  <2> HIDE DEF a, n
  <2>1. a \in 0 .. n + n - 1
    BY <1>1
  <2>2. a % n = IF a < n THEN a ELSE a - n
    BY <1>1, <2>1, Wraps
  <2> QED
    BY <1>1, <2>2
<1> QED
  BY <1>2

\* A sequence given by its elements.
LEMMA Listed ==
  ASSUME NEW s \in Seq(Nat), NEW n \in Nat, NEW t \in [1 .. n -> Nat], Len(s) = n,
         \A i \in 1 .. n : s[i] = t[i]
  PROVE  t = s
<1>1. t \in Seq(Nat)
  BY SeqDef
<1>2. Len(t) = n
  BY <1>1, LenProperties, SMT
<1> QED
  BY <1>1, <1>2, SeqEqual

\* Read from its position on, the ring is the end of quiet.
LEMMA KeptIsRecent == ASSUME Types, RingInv PROVE PrerollIsRecent
<1> DEFINE N == Len(quiet)
           P == PrerollFrames
           n == IF N < P THEN N ELSE P
           recent == SubSeq(quiet, N - n + 1, N)
           kept == Preroll(ring, prerollPos, prerollFull)
<1>1. N \in Nat /\ P \in Nat \ {0} /\ n \in 0 .. N
  BY UplinkAssumption, LenProperties DEF Types
<1>2. prerollPos \in 0 .. P - 1
  BY DEF Types, Slots
<1>3. /\ recent \in Seq(Nat) /\ Len(recent) = n
      /\ \A i \in 1 .. n : recent[i] = quiet[N - n + i]
  <2>1. \A i \in N - n + 1 .. N : quiet[i] \in Nat
    BY <1>1, ElementOfSeq DEF Types
  <2> HIDE DEF n, N
  <2> QED
    BY <1>1, <2>1, SubSeqProperties
<1>4. /\ kept = [i \in 1 .. n |-> kept[i]]
      /\ \A i \in 1 .. n : kept[i] = quiet[N - n + i]
  <2>1. CASE prerollFull
    <3>1. n = P /\ kept = [i \in 1 .. P |-> ring[(prerollPos + i - 1) % P]]
      BY <1>1, <2>1 DEF RingInv, Preroll
    <3>2. ASSUME NEW i \in 1 .. P PROVE ring[(prerollPos + i - 1) % P] = quiet[N - P + i]
      <4> DEFINE a == prerollPos + i - 1
      <4>1. a \in 0 .. P + P - 1
        BY <1>1, <1>2
      <4>2. a % P = IF a < P THEN a ELSE a - P
        <5> HIDE DEF a, P
        <5> QED
          BY <1>1, <4>1, Wraps
      <4>3. CASE a < P
        <5>1. a \in Slots /\ a >= prerollPos
          BY <1>1, <1>2, <4>3 DEF Slots
        <5>2. ring[a] = quiet[N - prerollPos - P + a + 1]
          BY <2>1, <5>1 DEF RingInv
        <5>3. N - prerollPos - P + a + 1 = N - P + i
          BY <1>1, <1>2
        <5> QED
          BY <4>2, <4>3, <5>2, <5>3
      <4>4. CASE a >= P
        <5>1. a - P \in Slots /\ a - P < prerollPos
          BY <1>1, <1>2, <4>4 DEF Slots
        <5>2. ring[a - P] = quiet[N - prerollPos + (a - P) + 1]
          BY <5>1 DEF RingInv
        <5>3. N - prerollPos + (a - P) + 1 = N - P + i
          BY <1>1, <1>2
        <5>4. ~(a < P)
          BY <1>1, <4>1, <4>4
        <5> QED
          BY <4>2, <5>2, <5>3, <5>4
      <4> QED
        BY <1>1, <4>1, <4>3, <4>4
    <3> QED
      BY <3>1, <3>2
  <2>2. CASE ~prerollFull
    <3>1. n = prerollPos /\ N = prerollPos /\ kept = [i \in 1 .. prerollPos |-> ring[i - 1]]
      BY <1>1, <1>2, <2>2 DEF RingInv, Preroll
    <3>2. ASSUME NEW i \in 1 .. prerollPos PROVE ring[i - 1] = quiet[i]
      <4>1. i - 1 \in Slots /\ i - 1 < prerollPos
        BY <1>1, <1>2 DEF Slots
      <4>2. N - prerollPos + (i - 1) + 1 = i
        BY <1>1, <1>2, <3>1
      <4> QED
        BY <4>1, <4>2 DEF RingInv
    <3>3. N - n = 0
      BY <1>1, <3>1
    <3> HIDE DEF n, N, kept
    <3> QED
      BY <1>1, <1>2, <3>1, <3>2, <3>3
  <2> QED
    BY <2>1, <2>2 DEF Types
<1> HIDE DEF n, N, kept, recent
<1>5. \A i \in 1 .. n : recent[i] = kept[i] /\ kept[i] \in Nat
  BY <1>3, <1>4, ElementOfSeq
<1>6. kept = recent
  BY <1>1, <1>3, <1>4, <1>5, Listed
<1> QED
  BY <1>6 DEF PrerollIsRecent, kept, recent, n, N

\* The beginning of a sequence.
LEMMA Prefix ==
  ASSUME NEW s \in Seq(Nat), NEW n \in 0 .. Len(s)
  PROVE  /\ SubSeq(s, 1, n) \in Seq(Nat) /\ Len(SubSeq(s, 1, n)) = n
         /\ \A i \in 1 .. n : SubSeq(s, 1, n)[i] = s[i]
<1>1. Len(s) \in Nat /\ 1 \in 1 .. Len(s) + 1
  BY LenProperties
<1>2. \A i \in 1 .. n : s[i] \in Nat
  BY <1>1, ElementOfSeq
<1> DEFINE N == n
<1>3. /\ SubSeq(s, 1, N) \in Seq(Nat)
      /\ Len(SubSeq(s, 1, N)) = IF 1 <= N THEN N - 1 + 1 ELSE 0
      /\ \A i \in 1 .. N - 1 + 1 : SubSeq(s, 1, N)[i] = s[1 + i - 1]
  <2>1. \A i \in 1 .. N : s[i] \in Nat
    BY <1>2
  <2>2. 1 \in Int /\ N \in Int
    BY <1>1
  <2> HIDE DEF N
  <2> QED
    BY <2>1, <2>2, SubSeqProperties
<1> QED
  BY <1>1, <1>3

\* The ring as a sequence: quiet without its first k frames, and not empty
\* unless quiet is.
LEMMA KeptSequence ==
  ASSUME Types, RingInv
  PROVE  LET kept == Preroll(ring, prerollPos, prerollFull) IN
           /\ kept \in Seq(Nat)
           /\ \E k \in 0 .. Len(quiet) :
                /\ Len(kept) = Len(quiet) - k
                /\ \A i \in 1 .. Len(kept) : kept[i] = quiet[k + i]
           /\ quiet # <<>> => Len(kept) > 0
<1> DEFINE N == Len(quiet)
           P == PrerollFrames
           n == IF N < P THEN N ELSE P
           kept == Preroll(ring, prerollPos, prerollFull)
<1>1. N \in Nat /\ P \in Nat \ {0} /\ n \in 0 .. N
  BY UplinkAssumption, LenProperties DEF Types
<1>2. kept = SubSeq(quiet, N - n + 1, N)
  BY KeptIsRecent DEF PrerollIsRecent
<1>3. /\ kept \in Seq(Nat) /\ Len(kept) = n
      /\ \A i \in 1 .. n : kept[i] = quiet[N - n + i]
  <2>1. \A i \in N - n + 1 .. N : quiet[i] \in Nat
    BY <1>1, ElementOfSeq DEF Types
  <2> HIDE DEF n, N, kept
  <2> QED
    BY <1>1, <1>2, <2>1, SubSeqProperties
<1>4. N - n \in 0 .. N /\ n = N - (N - n)
  BY <1>1
<1>5. quiet # <<>> => n > 0
  BY <1>1, EmptySeq DEF Types
<1> HIDE DEF n, N
<1> QED
  BY <1>3, <1>4, <1>5 DEF N

\* Storing a frame moves the end of quiet and the position on together.
LEMMA StoreKeeps ==
  ASSUME Types, RingInv, StorePreroll
  PROVE  /\ ring' \in [Slots -> Nat] /\ prerollPos' \in Slots /\ prerollFull' \in BOOLEAN
         /\ quiet' \in Seq(Nat)
         /\ RingInv'
<1> DEFINE P == PrerollFrames
           N == Len(quiet)
<1>1. CASE speechActive
  BY <1>1 DEF StorePreroll, Types, RingInv
<1>2. CASE ~speechActive
  <2>1. /\ ring' = [ring EXCEPT ![prerollPos] = frame]
        /\ prerollPos' = (prerollPos + 1) % P
        /\ prerollFull' = (prerollFull \/ (prerollPos + 1) % P = 0)
        /\ quiet' = Append(quiet, frame)
    BY <1>2 DEF StorePreroll
  <2>2. /\ quiet' \in Seq(Nat) /\ Len(quiet') = N + 1 /\ N \in Nat
        /\ \A i \in 1 .. N : quiet'[i] = quiet[i]
        /\ quiet'[N + 1] = frame
    BY <2>1, AppendProperties, LenProperties DEF Types
  <2>3. P \in Nat \ {0} /\ prerollPos \in 0 .. P - 1
    BY UplinkAssumption DEF Types, Slots
  <2>4. prerollPos' = IF prerollPos + 1 = P THEN 0 ELSE prerollPos + 1
    BY <2>1, OneOn DEF Types
  <2>5. prerollFull' = (prerollFull \/ prerollPos + 1 = P)
    BY <2>1, <2>3, <2>4
  <2>6. \A j \in Slots : ring'[j] = IF j = prerollPos THEN frame ELSE ring[j]
    BY <2>1 DEF Types
  <2>7. ring' \in [Slots -> Nat] /\ prerollPos' \in Slots /\ prerollFull' \in BOOLEAN
    BY <2>1, <2>3, <2>4, <2>5 DEF Types, Slots
  <2>8. N >= prerollPos
    BY <2>2, <2>3 DEF RingInv
  <2>9. ASSUME NEW j \in Slots, j < prerollPos'
        PROVE  ring'[j] = quiet'[Len(quiet') - prerollPos' + j + 1]
    <3>1. prerollPos' = prerollPos + 1
      BY <2>3, <2>4, <2>9 DEF Slots
    <3>2. CASE j = prerollPos
      BY <2>2, <2>3, <2>6, <3>1, <3>2
    <3>3. CASE j < prerollPos
      <4>1. ring'[j] = quiet[N - prerollPos + j + 1]
        BY <2>3, <2>6, <3>3 DEF RingInv, Slots
      <4>2. N - prerollPos + j + 1 \in 1 .. N
        BY <2>2, <2>3, <2>8, <3>3 DEF Slots
      <4>3. Len(quiet') - prerollPos' + j + 1 = N - prerollPos + j + 1
        BY <2>2, <2>3, <3>1 DEF Slots
      <4> QED
        BY <2>2, <4>1, <4>2, <4>3
    <3> QED
      BY <2>3, <2>9, <3>1, <3>2, <3>3 DEF Slots
  <2>10. ~prerollFull' => Len(quiet') = prerollPos'
    BY <2>2, <2>3, <2>4, <2>5 DEF RingInv
  <2>11. prerollFull' => Len(quiet') >= P
    BY <2>2, <2>3, <2>5 DEF RingInv, Types
  <2>12. ASSUME prerollFull', NEW j \in Slots, j >= prerollPos'
         PROVE  ring'[j] = quiet'[Len(quiet') - prerollPos' - P + j + 1]
    <3>1. CASE prerollPos + 1 = P
      <4>1. prerollPos' = 0
        BY <2>4, <3>1
      <4>2. CASE j = prerollPos
        <5>1. Len(quiet') - prerollPos' - P + j + 1 = N + 1
          BY <2>2, <2>3, <3>1, <4>1, <4>2
        <5> QED
          BY <2>2, <2>6, <4>2, <5>1
      <4>3. CASE j < prerollPos
        <5>1. ring'[j] = quiet[N - prerollPos + j + 1]
          BY <2>3, <2>6, <4>3 DEF RingInv, Slots
        <5>2. N - prerollPos + j + 1 \in 1 .. N
          BY <2>2, <2>3, <2>8, <4>3 DEF Slots
        <5>3. Len(quiet') - prerollPos' - P + j + 1 = N - prerollPos + j + 1
          BY <2>2, <2>3, <3>1, <4>1 DEF Slots
        <5> QED
          BY <2>2, <5>1, <5>2, <5>3
      <4> QED
        BY <2>3, <3>1, <4>2, <4>3 DEF Slots
    <3>2. CASE prerollPos + 1 # P
      <4>1. prerollPos' = prerollPos + 1 /\ prerollFull
        BY <2>4, <2>5, <2>12, <3>2
      <4>2. j # prerollPos /\ j >= prerollPos
        BY <2>3, <2>12, <4>1 DEF Slots
      <4>3. ring'[j] = quiet[N - prerollPos - P + j + 1] /\ N >= P
        BY <2>3, <2>6, <4>1, <4>2 DEF RingInv
      <4>4. N - prerollPos - P + j + 1 \in 1 .. N
        BY <2>2, <2>3, <4>2, <4>3 DEF Slots
      <4>5. Len(quiet') - prerollPos' - P + j + 1 = N - prerollPos - P + j + 1
        BY <2>2, <2>3, <4>1 DEF Slots
      <4> QED
        BY <2>2, <4>3, <4>4, <4>5
    <3> QED
      BY <3>1, <3>2
  <2> QED
    BY <2>2, <2>7, <2>9, <2>10, <2>11, <2>12 DEF RingInv, Slots
<1> QED
  BY <1>1, <1>2

LEMMA RingInit == Init => Types /\ RingInv
<1>1. Init => Types
  BY UplinkAssumption, EmptySeq DEF Init, Types, Slots
<1>2. Init => RingInv
  BY UplinkAssumption, EmptySeq DEF Init, RingInv, Slots
<1> QED
  BY <1>1, <1>2

\* What a step does to the ring and to quiet, if it does not store a frame: it
\* leaves them alone or starts them over.
RingStays == UNCHANGED <<ring, prerollPos, prerollFull, quiet>>
RingRestarts == ring' = ring /\ prerollPos' = 0 /\ prerollFull' = FALSE /\ quiet' = <<>>

LEMMA RingSteps ==
  ASSUME [Next]_vars
  PROVE  RingStays \/ RingRestarts \/ StorePreroll
<1>1. CASE UplinkThread
  <2>1. CASE ProcessVad
    BY <2>1 DEF ProcessVad
  <2>2. CASE CheckStt
    BY <2>2 DEF CheckStt, RingStays, RingRestarts
  <2>3. CASE Capture \/ TakeSession \/ VadFails
    BY <2>3 DEF Capture, TakeSession, VadFails, RingStays, history
  <2>4. CASE CaptureFails \/ BeginSegment \/ ResetRound \/ FlushPreroll \/ SubmitFrame \/ EndSegment
    BY <2>4 DEF CaptureFails, BeginSegment, ResetRound, FlushPreroll, SubmitFrame, EndSegment,
       RingStays, vars, own, history
  <2> QED
    BY <1>1, <2>1, <2>2, <2>3, <2>4 DEF UplinkThread
<1>2. CASE Session
  BY <1>2 DEF Session, Connect, GiveSession, Disconnect, TakeSessionBack, ServerCompletes,
     SttCompletedArrives, VadStartArrives, MusicStart, MusicResetsRound, RingStays, own, history
<1>3. CASE UNCHANGED vars
  BY <1>3 DEF RingStays, vars, own, history
<1> QED
  BY <1>1, <1>2, <1>3 DEF Next

LEMMA RingStep == Types /\ RingInv /\ [Next]_vars => Types' /\ RingInv'
<1> SUFFICES ASSUME Types, RingInv, [Next]_vars PROVE Types' /\ RingInv'
  OBVIOUS
<1>1. /\ ring' \in [Slots -> Nat] /\ prerollPos' \in Slots /\ prerollFull' \in BOOLEAN
      /\ quiet' \in Seq(Nat)
      /\ RingInv'
  <2>1. CASE RingStays
    BY <2>1 DEF RingStays, RingInv, Types
  <2>2. CASE RingRestarts
    <3>1. <<>> \in Seq(Nat) /\ Len(<<>>) = 0
      BY EmptySeq
    <3> QED
      <4>1. \A j \in Slots : ~(j < prerollPos')
        BY <2>2, UplinkAssumption DEF RingRestarts, Slots
      <4>2. prerollPos' \in Slots /\ ring' \in [Slots -> Nat]
        BY <2>2, UplinkAssumption DEF RingRestarts, Types, Slots
      <4> QED
        BY <2>2, <3>1, <4>1, <4>2 DEF RingRestarts, RingInv
  <2>3. CASE StorePreroll
    BY <2>3, StoreKeeps
  <2> QED
    BY <2>1, <2>2, <2>3, RingSteps
<1>2. frame' \in Nat /\ round' \in Nat /\ segment' \in Seq(Nat)
  <2>1. CASE Capture
    BY <2>1 DEF Capture, Types, outside, history
  <2>2. CASE BeginSegment
    <3>1. <<>> \in Seq(Nat)
      BY EmptySeq
    <3> QED
      <4>1. round' = round + 1 \/ round' = round
        BY <2>2 DEF BeginSegment
      <4>2. segment' = <<>> \/ segment' = segment
        BY <2>2 DEF BeginSegment
      <4>3. frame' = frame
        BY <2>2 DEF BeginSegment, own
      <4>4. round' \in Nat /\ frame' \in Nat
        BY <4>1, <4>3 DEF Types
      <4>5. segment' \in Seq(Nat)
        BY <3>1, <4>2 DEF Types
      <4> QED
        BY <4>4, <4>5
  <2>3. CASE FlushPreroll
    <3> DEFINE kept == Preroll(ring, prerollPos, prerollFull)
    <3>1. kept \in Seq(Nat)
      BY KeptSequence
    <3>2. PICK n \in 0 .. Len(kept) : segment' = segment \o SubSeq(kept, 1, n)
      BY <2>3 DEF FlushPreroll
    <3>3. SubSeq(kept, 1, n) \in Seq(Nat)
      <4> HIDE DEF kept
      <4> QED
        BY <3>1, <3>2, Prefix
    <3>4. segment' \in Seq(Nat)
      BY <3>2, <3>3, ConcatProperties DEF Types
    <3> QED
      BY <2>3, <3>4 DEF FlushPreroll, Types, outside
  <2>4. CASE SubmitFrame
    <3>1. Append(segment, frame) \in Seq(Nat)
      BY AppendProperties DEF Types
    <3> QED
      BY <2>4, <3>1 DEF SubmitFrame, Types, own, outside
  <2>5. CASE TakeSession \/ CheckStt \/ ProcessVad \/ VadFails
    BY <2>5 DEF TakeSession, CheckStt, ProcessVad, VadFails, Types, outside, history
  <2>6. CASE CaptureFails \/ ResetRound \/ EndSegment \/ UNCHANGED vars
    BY <2>6 DEF CaptureFails, ResetRound, EndSegment, Types, vars, own, outside, history
  <2>7. CASE MusicStart
    <3>1. frame' = frame /\ round' = round + 1 /\ segment' = <<>>
      BY <2>7 DEF MusicStart, own
    <3> QED
      BY <3>1, EmptySeq DEF Types
  <2>8. CASE Session /\ ~MusicStart
    BY <2>8 DEF Session, Connect, GiveSession, Disconnect, TakeSessionBack, ServerCompletes,
       SttCompletedArrives, VadStartArrives,
       MusicStart, MusicResetsRound, Types, own, outside, history
  <2> QED
    BY <2>1, <2>2, <2>3, <2>4, <2>5, <2>6, <2>7, <2>8 DEF Next, UplinkThread
<1> QED
  BY <1>1, <1>2 DEF Types

\* What the ring holds is the most recent frames captured outside speech since
\* the last reset, oldest first, for every size of the ring (audio_uplink.c
\* lines 364-375, 325-337).
THEOREM PrerollTheorem == Spec => []PrerollIsRecent
<1>1. Init => Types /\ RingInv
  BY RingInit
<1>2. Types /\ RingInv /\ [Next]_vars => Types' /\ RingInv'
  BY RingStep
<1>3. Types /\ RingInv => PrerollIsRecent
  BY KeptIsRecent
<1> QED
  BY <1>1, <1>2, <1>3, PTL DEF Spec

-----------------------------------------------------------------------------
(* The segment.                                                            *)

Ascends(s)  == \A i, j \in 1 .. Len(s) : i < j => s[i] < s[j]
UpTo(s, n)  == \A i \in 1 .. Len(s) : s[i] <= n
EndsWith(s, n) == Len(s) > 0 /\ s[Len(s)] = n

\* The frame in hand is newer than what was kept until the voice detection has
\* seen it, and newer than what was sent until it is sent itself.
OrderInv ==
  /\ Ascends(quiet) /\ UpTo(quiet, frame)
  /\ pc \in {"session", "stt", "vad"} => UpTo(quiet, frame - 1)
  /\ Ascends(segment) /\ UpTo(segment, frame)
  /\ pc \in {"session", "stt", "vad", "start"} => UpTo(segment, frame - 1)
  /\ pc = "frame" /\ ~flushed => UpTo(segment, frame - 1)
  /\ pc \in {"round", "preroll"} => segment = <<>>

\* Speech that starts has its first frame in the ring; a frame that counts as
\* sent was sent last; a text that is complete ends this segment.
WholeInv ==
  /\ pc \in {"start", "round", "preroll"} /\ started => EndsWith(quiet, frame)
  /\ pc \in {"round", "preroll"} => started
  /\ pc \in {"session", "stt", "vad", "start", "round", "preroll"} => ~flushed
  /\ pc \in {"frame", "end", "capture"} /\ flushed => EndsWith(segment, frame) \/ cut
  /\ sttCompleted => cut \/ pc = "round"
  /\ (pc \in {"end", "capture"} /\ ws /\ speechActive /\ ~cut /\ ~faulty)
       => segment = <<>> \/ EndsWith(segment, frame)

\* As long as nothing fails the connection of the first START stays.  The thread
\* has a session it keeps, or the first START was music's and its segment is
\* open: from then on speech implies an open segment.
SessionInv ==
  ~faulty =>
    /\ uplinkWs => connected
    /\ ws => uplinkWs
    /\ round > 0 => connected /\ (ws \/ open)
    /\ pc \in {"round", "preroll"} => round > 0 /\ open
    /\ round > 0 /\ speechActive => open \/ (pc = "start" /\ started)

LEMMA AppendAscends ==
  ASSUME NEW s \in Seq(Nat), NEW e \in Nat, Ascends(s), UpTo(s, e - 1)
  PROVE  Ascends(Append(s, e)) /\ UpTo(Append(s, e), e) /\ EndsWith(Append(s, e), e)
<1> DEFINE t == Append(s, e)
           n == Len(s)
<1>1. /\ t \in Seq(Nat) /\ Len(t) = n + 1 /\ n \in Nat
      /\ \A i \in 1 .. n : t[i] = s[i] /\ s[i] \in Nat
      /\ t[n + 1] = e
  BY AppendProperties, LenProperties, ElementOfSeq
<1>2. /\ \A i, j \in 1 .. n : i < j => s[i] < s[j]
      /\ \A i \in 1 .. n : s[i] < e
  BY <1>1 DEF Ascends, UpTo
<1> HIDE DEF t, n
<1>3. Ascends(t)
  <2> SUFFICES ASSUME NEW i \in 1 .. Len(t), NEW j \in 1 .. Len(t), i < j PROVE t[i] < t[j]
    BY DEF Ascends
  <2>1. i \in 1 .. n
    BY <1>1
  <2>2. CASE j \in 1 .. n
    BY <1>1, <1>2, <2>1, <2>2
  <2>3. CASE j = n + 1
    BY <1>1, <1>2, <2>1, <2>3
  <2> QED
    BY <1>1, <2>2, <2>3
<1>4. UpTo(t, e) /\ EndsWith(t, e)
  BY <1>1, <1>2 DEF UpTo, EndsWith
<1> QED
  BY <1>3, <1>4 DEF t

\* The frames a flush sends ascend; one that stops early has not sent the
\* frame in hand, one that does not has sent it last.
LEMMA FlushAscends ==
  ASSUME Types, RingInv, Ascends(quiet), UpTo(quiet, frame),
         NEW n \in 0 .. Len(Preroll(ring, prerollPos, prerollFull))
  PROVE  LET kept == Preroll(ring, prerollPos, prerollFull)
             sent == SubSeq(kept, 1, n)
         IN  /\ sent \in Seq(Nat) /\ Ascends(sent) /\ UpTo(sent, frame)
             /\ n < Len(kept) => UpTo(sent, frame - 1)
             /\ n = Len(kept) /\ EndsWith(quiet, frame) => EndsWith(sent, frame)
<1> DEFINE kept == Preroll(ring, prerollPos, prerollFull)
           sent == SubSeq(kept, 1, n)
           L == Len(kept)
           N == Len(quiet)
<1>1. kept \in Seq(Nat) /\ (quiet # <<>> => L > 0)
  BY KeptSequence
<1>2. PICK k \in 0 .. N : L = N - k /\ \A i \in 1 .. L : kept[i] = quiet[k + i]
  BY KeptSequence
<1>3. /\ sent \in Seq(Nat) /\ Len(sent) = n
      /\ \A i \in 1 .. n : sent[i] = kept[i]
  <2>1. n \in 0 .. Len(kept)
    OBVIOUS
  <2> HIDE DEF kept
  <2> QED
    BY <1>1, <2>1, Prefix
<1>4. N \in Nat /\ L \in Nat /\ n \in 0 .. L /\ frame \in Nat
      /\ \A i \in 1 .. N : quiet[i] \in Nat
  BY <1>1, LenProperties, ElementOfSeq DEF Types
<1>5. /\ \A i, j \in 1 .. N : i < j => quiet[i] < quiet[j]
      /\ \A i \in 1 .. N : quiet[i] <= frame
  BY DEF Ascends, UpTo
<1>6. EndsWith(quiet, frame) => N > 0 /\ quiet[N] = frame /\ quiet # <<>>
  BY EmptySeq DEF EndsWith
<1> HIDE DEF kept, sent, L, N
<1>7. \A i \in 1 .. L : k + i \in 1 .. N
  BY <1>2, <1>4
<1>8. Ascends(sent)
  <2> SUFFICES ASSUME NEW i \in 1 .. n, NEW j \in 1 .. n, i < j PROVE sent[i] < sent[j]
    BY <1>3 DEF Ascends
  <2>1. i \in 1 .. L /\ j \in 1 .. L /\ k + i < k + j
    BY <1>2, <1>4
  <2>2. quiet[k + i] < quiet[k + j]
    BY <1>5, <1>7, <2>1
  <2> QED
    BY <1>2, <1>3, <2>1, <2>2
<1>9. UpTo(sent, frame)
  <2> SUFFICES ASSUME NEW i \in 1 .. n PROVE sent[i] <= frame
    BY <1>3 DEF UpTo
  <2>1. i \in 1 .. L
    BY <1>4
  <2> QED
    BY <1>2, <1>3, <1>5, <1>7, <2>1
<1>10. n < L => UpTo(sent, frame - 1)
  <2> SUFFICES ASSUME n < L, NEW i \in 1 .. n PROVE sent[i] <= frame - 1
    BY <1>3 DEF UpTo
  <2>1. i \in 1 .. L /\ L \in 1 .. L /\ k + i < k + L
    BY <1>2, <1>4
  <2>2. quiet[k + i] < quiet[k + L] /\ quiet[k + L] <= frame
    BY <1>5, <1>7, <2>1
  <2>3. quiet[k + i] \in Nat /\ quiet[k + L] \in Nat
    BY <1>4, <1>7, <2>1
  <2>4. sent[i] = quiet[k + i]
    BY <1>2, <1>3, <2>1
  <2>5. quiet[k + i] <= frame - 1
    BY <1>4, <2>2, <2>3
  <2> QED
    BY <2>4, <2>5
<1>11. n = L /\ EndsWith(quiet, frame) => EndsWith(sent, frame)
  <2> SUFFICES ASSUME n = L, EndsWith(quiet, frame) PROVE EndsWith(sent, frame)
    OBVIOUS
  <2>1. L > 0 /\ k + L = N /\ L \in 1 .. L
    BY <1>1, <1>2, <1>4, <1>6
  <2> QED
    BY <1>2, <1>3, <1>6, <2>1 DEF EndsWith
<1> QED
  BY <1>3, <1>8, <1>9, <1>10, <1>11 DEF sent, kept, L

LEMMA OrderInit == Init => OrderInv
<1>1. Len(<<>>) = 0
  BY EmptySeq
<1> QED
  BY <1>1 DEF Init, OrderInv, Ascends, UpTo

LEMMA OrderStep ==
  ASSUME Types, RingInv, OrderInv, [Next]_vars
  PROVE  OrderInv'
<1>e. Ascends(<<>>) /\ \A n \in Int : UpTo(<<>>, n)
  BY EmptySeq DEF Ascends, UpTo
<1>n. frame \in Nat /\ frame \in Int /\ frame - 1 \in Int
  BY DEF Types
<1>u. \A s \in Seq(Nat) : UpTo(s, frame - 1) => UpTo(s, frame)
  BY <1>n, ElementOfSeq DEF UpTo
<1>1. CASE Capture
  <2>1. frame' = frame + 1 /\ frame' - 1 = frame /\ pc' = "session" /\ UNCHANGED <<segment, quiet>>
    BY <1>1, <1>n DEF Capture, history
  <2>2. \A s \in Seq(Nat) : UpTo(s, frame) => UpTo(s, frame + 1)
    BY <1>n, ElementOfSeq DEF UpTo
  <2> QED
    BY <2>1, <2>2 DEF OrderInv, Types, Ascends, UpTo
<1>2. CASE TakeSession
  <2>1. pc = "session" /\ pc' = "stt" /\ UNCHANGED <<segment, quiet, frame>>
    BY <1>2 DEF TakeSession, history
  <2> QED
    BY <2>1 DEF OrderInv, Ascends, UpTo
<1>3. CASE CheckStt
  <2>1. /\ pc = "stt" /\ pc' = "vad" /\ UNCHANGED <<segment, frame>>
        /\ quiet' = quiet \/ quiet' = <<>>
    BY <1>3 DEF CheckStt
  <2>2. CASE quiet' = quiet
    BY <2>1, <2>2 DEF OrderInv, Ascends, UpTo
  <2>3. CASE quiet' = <<>>
    <3>1. /\ Ascends(quiet)' /\ UpTo(quiet, frame)' /\ UpTo(quiet, frame - 1)'
      BY <1>e, <1>n, <2>1, <2>3 DEF Ascends, UpTo
    <3> QED
      BY <2>1, <3>1 DEF OrderInv, Ascends, UpTo
  <2> QED
    BY <2>1, <2>2, <2>3
<1>4. CASE ProcessVad
  <2>1. /\ pc = "vad" /\ pc' = "start" /\ UNCHANGED <<segment, frame>>
        /\ quiet' = quiet \/ quiet' = Append(quiet, frame)
    BY <1>4 DEF ProcessVad, StorePreroll
  <2>2. CASE quiet' = quiet
    BY <2>1, <2>2 DEF OrderInv, Ascends, UpTo
  <2>3. CASE quiet' = Append(quiet, frame)
    <3>1. Ascends(Append(quiet, frame)) /\ UpTo(Append(quiet, frame), frame)
      BY <2>1, AppendAscends DEF OrderInv, Types
    <3>2. Ascends(quiet)' /\ UpTo(quiet, frame)'
      BY <2>1, <2>3, <3>1 DEF Ascends, UpTo
    <3> QED
      BY <2>1, <3>2 DEF OrderInv, Ascends, UpTo
  <2> QED
    BY <2>1, <2>2, <2>3
<1>5. CASE VadFails
  <2>1. pc = "vad" /\ pc' = "capture" /\ UNCHANGED <<segment, quiet, frame>>
    BY <1>5 DEF VadFails
  <2> QED
    BY <2>1 DEF OrderInv, Ascends, UpTo
<1>6. CASE BeginSegment
  <2>1. /\ pc = "start" /\ UNCHANGED <<quiet, frame>>
        /\ \/ pc' = "round" /\ segment' = <<>>
           \/ pc' = "frame" /\ segment' = segment
    BY <1>6 DEF BeginSegment, own
  <2>2. CASE pc' = "round" /\ segment' = <<>>
    <3>1. Ascends(segment)' /\ UpTo(segment, frame)'
      BY <1>e, <1>n, <2>1, <2>2 DEF Ascends, UpTo
    <3> QED
      BY <2>1, <2>2, <3>1 DEF OrderInv, Ascends, UpTo
  <2>3. CASE pc' = "frame" /\ segment' = segment
    BY <2>1, <2>3 DEF OrderInv, Ascends, UpTo
  <2> QED
    BY <2>1, <2>2, <2>3
<1>7. CASE ResetRound
  <2>1. pc = "round" /\ pc' = "preroll" /\ UNCHANGED <<segment, quiet, frame>>
    BY <1>7 DEF ResetRound, own, history
  <2> QED
    BY <2>1 DEF OrderInv, Ascends, UpTo
<1>8. CASE FlushPreroll
  <2> DEFINE kept == Preroll(ring, prerollPos, prerollFull)
  <2>1. pc = "preroll" /\ pc' = "frame" /\ UNCHANGED <<quiet, frame>> /\ segment = <<>>
    BY <1>8 DEF FlushPreroll, OrderInv
  <2>2. PICK n \in 0 .. Len(kept) :
          segment' = segment \o SubSeq(kept, 1, n) /\ flushed' = (n = Len(kept))
    BY <1>8 DEF FlushPreroll
  <2> DEFINE sent == SubSeq(kept, 1, n)
  <2>3. /\ sent \in Seq(Nat) /\ Ascends(sent) /\ UpTo(sent, frame)
        /\ n < Len(kept) => UpTo(sent, frame - 1)
    BY <2>2, FlushAscends DEF OrderInv
  <2>4. segment' = sent
    <3>1. <<>> \o sent = sent
      <4> HIDE DEF sent
      <4> QED
        BY <2>3, ConcatEmptySeq
    <3> QED
      BY <2>1, <2>2, <3>1
  <2>5. n # Len(kept) => n < Len(kept)
    <3>1. Len(kept) \in Nat
      BY KeptSequence, LenProperties
    <3> HIDE DEF kept
    <3> QED
      BY <2>2, <3>1
  <2> HIDE DEF sent, kept
  <2>6. Ascends(segment)' /\ UpTo(segment, frame)' /\ (~flushed' => UpTo(segment, frame - 1)')
    BY <2>1, <2>2, <2>3, <2>4, <2>5 DEF Ascends, UpTo
  <2> QED
    BY <2>1, <2>6 DEF OrderInv, Ascends, UpTo
<1>9. CASE SubmitFrame
  <2>1. /\ pc = "frame" /\ pc' = "end" /\ UNCHANGED <<quiet, frame>>
        /\ segment' = segment \/ (~flushed /\ segment' = Append(segment, frame))
    BY <1>9 DEF SubmitFrame, own
  <2>2. CASE segment' = segment
    BY <2>1, <2>2 DEF OrderInv, Ascends, UpTo
  <2>3. CASE ~flushed /\ segment' = Append(segment, frame)
    <3>1. Ascends(Append(segment, frame)) /\ UpTo(Append(segment, frame), frame)
      BY <2>1, <2>3, AppendAscends DEF OrderInv, Types
    <3>2. Ascends(segment)' /\ UpTo(segment, frame)'
      BY <2>1, <2>3, <3>1 DEF Ascends, UpTo
    <3> QED
      BY <2>1, <3>2 DEF OrderInv, Ascends, UpTo
  <2> QED
    BY <2>1, <2>2, <2>3
<1>10. CASE EndSegment
  <2>1. pc = "end" /\ pc' = "capture" /\ UNCHANGED <<segment, quiet, frame>>
    BY <1>10 DEF EndSegment, own, history
  <2> QED
    BY <2>1 DEF OrderInv, Ascends, UpTo
<1>11. CASE CaptureFails \/ (Session /\ ~MusicStart) \/ UNCHANGED vars
  <2>1. UNCHANGED <<pc, segment, quiet, frame, flushed>>
    BY <1>11 DEF CaptureFails, Session, Connect, GiveSession, Disconnect, TakeSessionBack,
       ServerCompletes, SttCompletedArrives, VadStartArrives,
       MusicStart, MusicResetsRound, vars, own, history
  <2> QED
    BY <2>1 DEF OrderInv, Ascends, UpTo
<1>12. CASE MusicStart
  <2>1. UNCHANGED <<pc, quiet, frame>> /\ segment' = <<>>
    BY <1>12 DEF MusicStart, own
  <2>2. Ascends(segment)' /\ UpTo(segment, frame)' /\ UpTo(segment, frame - 1)'
    BY <1>e, <1>n, <2>1 DEF Ascends, UpTo
  <2> QED
    BY <2>1, <2>2 DEF OrderInv, Ascends, UpTo
<1> QED
  BY <1>1, <1>2, <1>3, <1>4, <1>5, <1>6, <1>7, <1>8, <1>9, <1>10, <1>11, <1>12
    DEF Next, UplinkThread

\* Within a segment the server receives frames in the order they were captured
\* and none twice, for every ring and whatever fails (audio_uplink.c lines
\* 377-408).
THEOREM OrderTheorem == Spec => []SegmentInOrder
<1>1. Init => Types /\ RingInv /\ OrderInv
  BY RingInit, OrderInit
<1>2. Types /\ RingInv /\ OrderInv /\ [Next]_vars => Types' /\ RingInv' /\ OrderInv'
  BY RingStep, OrderStep
<1>3. OrderInv => SegmentInOrder
  BY DEF OrderInv, SegmentInOrder, Ascends
<1> QED
  BY <1>1, <1>2, <1>3, PTL DEF Spec

LEMMA WholeInit == Init => WholeInv
  BY DEF Init, WholeInv

LEMMA WholeStep ==
  ASSUME Types, RingInv, OrderInv, WholeInv, [Next]_vars
  PROVE  WholeInv'
<1>1. CASE Capture
  <2>1. /\ pc' = "session" /\ flushed' = FALSE /\ pc = "capture"
        /\ UNCHANGED <<sttCompleted, cut>>
    BY <1>1 DEF Capture, shared, history
  <2> QED
    BY <2>1 DEF WholeInv
<1>2. CASE TakeSession
  <2>1. /\ pc = "session" /\ pc' = "stt" /\ UNCHANGED <<flushed, sttCompleted, cut>>
    BY <1>2 DEF TakeSession, shared, history
  <2> QED
    BY <2>1 DEF WholeInv
<1>3. CASE CheckStt
  <2>1. /\ pc = "stt" /\ pc' = "vad" /\ UNCHANGED <<flushed, sttCompleted, cut>>
    BY <1>3 DEF CheckStt
  <2> QED
    BY <2>1 DEF WholeInv
<1>4. CASE ProcessVad
  <2>1. /\ pc = "vad" /\ pc' = "start" /\ UNCHANGED <<frame, flushed, cut>>
        /\ sttCompleted' => sttCompleted
    BY <1>4 DEF ProcessVad
  <2>2. started' => EndsWith(quiet, frame)'
    <3>1. started' => quiet' = Append(quiet, frame)
      BY <1>4 DEF ProcessVad, StorePreroll
    <3>2. EndsWith(Append(quiet, frame), frame)
      BY <2>1, AppendAscends DEF OrderInv, Types
    <3> QED
      BY <2>1, <3>1, <3>2 DEF EndsWith
  <2> QED
    BY <2>1, <2>2 DEF WholeInv
<1>5. CASE VadFails
  <2>1. /\ pc = "vad" /\ pc' = "capture" /\ faulty /\ faulty' = faulty
        /\ UNCHANGED <<flushed, sttCompleted, cut>>
    BY <1>5 DEF VadFails, shared, outside
  <2> QED
    BY <2>1 DEF WholeInv
<1>6. CASE BeginSegment
  <2>1. /\ pc = "start" /\ UNCHANGED <<frame, quiet, started, flushed, sttCompleted>>
        /\ \/ pc' = "round" /\ started
           \/ pc' = "frame" /\ cut' = cut
    BY <1>6 DEF BeginSegment, own
  <2>2. EndsWith(quiet, frame) => EndsWith(quiet, frame)'
    BY <2>1 DEF EndsWith
  <2> QED
    BY <2>1, <2>2 DEF WholeInv
<1>7. CASE ResetRound
  <2>1. /\ pc = "round" /\ pc' = "preroll" /\ sttCompleted' = FALSE
        /\ UNCHANGED <<frame, quiet, started, flushed>>
    BY <1>7 DEF ResetRound, own, history
  <2>2. EndsWith(quiet, frame) => EndsWith(quiet, frame)'
    BY <2>1 DEF EndsWith
  <2> QED
    BY <2>1, <2>2 DEF WholeInv
<1>8. CASE FlushPreroll
  <2> DEFINE kept == Preroll(ring, prerollPos, prerollFull)
  <2>1. /\ pc = "preroll" /\ pc' = "frame" /\ frame' = frame /\ segment = <<>>
        /\ UNCHANGED <<sttCompleted, cut>>
    BY <1>8 DEF FlushPreroll, OrderInv, shared
  <2>2. PICK n \in 0 .. Len(kept) :
          segment' = segment \o SubSeq(kept, 1, n) /\ flushed' = (n = Len(kept))
    BY <1>8 DEF FlushPreroll
  <2> DEFINE sent == SubSeq(kept, 1, n)
  <2>3. EndsWith(quiet, frame)
    BY <2>1 DEF WholeInv
  <2>4. sent \in Seq(Nat) /\ (n = Len(kept) => EndsWith(sent, frame))
    BY <2>2, <2>3, FlushAscends DEF OrderInv
  <2>5. segment' = sent
    <3>1. <<>> \o sent = sent
      <4> HIDE DEF sent
      <4> QED
        BY <2>4, ConcatEmptySeq
    <3> QED
      BY <2>1, <2>2, <3>1
  <2> HIDE DEF sent, kept
  <2>6. flushed' => EndsWith(segment, frame)'
    BY <2>1, <2>2, <2>4, <2>5 DEF EndsWith
  <2> QED
    BY <2>1, <2>6 DEF WholeInv
<1>9. CASE SubmitFrame
  <2>1. /\ pc = "frame" /\ pc' = "end"
        /\ UNCHANGED <<frame, flushed, speechActive, ws, sttCompleted, cut, faulty>>
    BY <1>9 DEF SubmitFrame, own, shared, outside
  <2>2. flushed => EndsWith(segment, frame)' \/ cut
    BY <1>9, <2>1 DEF SubmitFrame, WholeInv, EndsWith
  <2>3. CASE segment' = Append(segment, frame)
    <3>1. Len(segment') = Len(segment) + 1 /\ segment'[Len(segment) + 1] = frame
          /\ Len(segment) \in Nat
      BY <2>3, AppendProperties, LenProperties DEF Types
    <3>2. EndsWith(segment, frame)'
      BY <2>1, <3>1 DEF EndsWith
    <3> QED
      BY <2>1, <3>2 DEF WholeInv
  <2>4. CASE /\ speechActive /\ ws /\ ~flushed => sttCompleted \/ faulty
             /\ segment' = segment
    <3>1. speechActive /\ ws /\ ~cut /\ ~faulty => flushed
      BY <2>1, <2>4 DEF WholeInv
    <3> QED
      BY <2>1, <2>2, <3>1 DEF WholeInv
  <2> QED
    BY <1>9, <2>3, <2>4 DEF SubmitFrame
<1>10. CASE EndSegment
  <2>1. /\ pc = "end" /\ pc' = "capture"
        /\ UNCHANGED <<frame, segment, flushed, speechActive, ws, sttCompleted, cut, faulty>>
    BY <1>10 DEF EndSegment, own, outside, history
  <2>2. EndsWith(segment, frame) => EndsWith(segment, frame)'
    BY <2>1 DEF EndsWith
  <2> QED
    BY <2>1, <2>2 DEF WholeInv
<1>11. CASE CaptureFails \/ (Session /\ ~MusicStart) \/ UNCHANGED vars
  <2>1. /\ UNCHANGED <<pc, started, flushed, frame, quiet, segment, ws, speechActive, faulty>>
        /\ \/ UNCHANGED <<sttCompleted, cut>>
           \/ sttCompleted' = FALSE /\ cut' = cut
           \/ cut' = TRUE
    BY <1>11 DEF CaptureFails, Session, Connect, GiveSession, Disconnect, TakeSessionBack,
       ServerCompletes, SttCompletedArrives, VadStartArrives,
       MusicStart, MusicResetsRound, vars, own, shared, outside, history
  <2>2. /\ EndsWith(quiet, frame) => EndsWith(quiet, frame)'
        /\ EndsWith(segment, frame) => EndsWith(segment, frame)'
    BY <2>1 DEF EndsWith
  <2>3. cut => cut' \/ cut' = TRUE
    BY <2>1
  <2> QED
    BY <2>1, <2>2, <2>3 DEF WholeInv
<1>12. CASE MusicStart
  <2>1. cut' = TRUE /\ UNCHANGED <<pc, started, flushed, frame, quiet>>
    BY <1>12 DEF MusicStart, own
  <2>2. EndsWith(quiet, frame) => EndsWith(quiet, frame)'
    BY <2>1 DEF EndsWith
  <2> QED
    BY <2>1, <2>2 DEF WholeInv
<1> QED
  BY <1>1, <1>2, <1>3, <1>4, <1>5, <1>6, <1>7, <1>8, <1>9, <1>10, <1>11, <1>12
    DEF Next, UplinkThread

\* While nothing fails the server has every frame of the running segment up to
\* the one last handled, the preroll and the frame in hand without a gap, until
\* another thread cuts it (audio_uplink.c lines 364-408).
THEOREM WholeTheorem == Spec => []SegmentIsWhole
<1>1. Init => Types /\ RingInv /\ OrderInv /\ WholeInv
  BY RingInit, OrderInit, WholeInit
<1>2. Types /\ RingInv /\ OrderInv /\ WholeInv /\ [Next]_vars
        => Types' /\ RingInv' /\ OrderInv' /\ WholeInv'
  BY RingStep, OrderStep, WholeStep
<1>3. WholeInv => SegmentIsWhole
  BY DEF WholeInv, SegmentIsWhole, EndsWith
<1> QED
  BY <1>1, <1>2, <1>3, PTL DEF Spec

-----------------------------------------------------------------------------
(* Audio and segments.                                                     *)

LEMMA SessionInit == Init => SessionInv
  BY DEF Init, SessionInv

LEMMA SessionStep ==
  ASSUME Types, SessionInv, [Next]_vars
  PROVE  SessionInv'
<1> SUFFICES ASSUME ~faulty' PROVE SessionInv'
  BY DEF SessionInv
<1>0. ~faulty
  BY DEF Next, UplinkThread, Session, Capture, CaptureFails, TakeSession, CheckStt, ProcessVad,
     VadFails, BeginSegment, ResetRound, FlushPreroll, SubmitFrame, EndSegment, Connect,
     GiveSession, Disconnect, TakeSessionBack, ServerCompletes, SttCompletedArrives,
     VadStartArrives, MusicStart, MusicResetsRound, vars, outside
<1>1. CASE Capture \/ CaptureFails \/ ResetRound \/ FlushPreroll \/ SubmitFrame \/ EndSegment
           \/ UNCHANGED vars
  <2>1. /\ UNCHANGED <<uplinkWs, connected, ws, round, open, speechActive>>
        /\ (pc # "start" /\ pc' # "start") \/ UNCHANGED <<pc, started>>
        /\ pc' \in {"round", "preroll"} => pc \in {"round", "preroll"}
    BY <1>1 DEF Capture, CaptureFails, ResetRound, FlushPreroll, SubmitFrame, EndSegment,
       vars, own, shared, outside, history
  <2> QED
    BY <1>0, <2>1 DEF SessionInv
<1>2. CASE TakeSession
  <2>1. /\ pc = "session" /\ pc' = "stt" /\ ws' = uplinkWs
        /\ UNCHANGED <<uplinkWs, connected, round, open, speechActive>>
    BY <1>2 DEF TakeSession, shared, outside, history
  <2> QED
    BY <1>0, <2>1 DEF SessionInv
<1>3. CASE CheckStt
  <2>1. /\ pc = "stt" /\ pc' = "vad" /\ UNCHANGED <<ws, uplinkWs, connected, round>>
        /\ (ws /\ speechActive' = FALSE) \/ UNCHANGED <<open, speechActive>>
    BY <1>3 DEF CheckStt, outside
  <2> QED
    BY <1>0, <2>1 DEF SessionInv
<1>4. CASE ProcessVad
  <2>1. /\ pc = "vad" /\ pc' = "start" /\ UNCHANGED <<ws, uplinkWs, connected, round, open>>
        /\ speechActive' => started' \/ speechActive
    BY <1>4 DEF ProcessVad, outside
  <2> QED
    BY <1>0, <2>1 DEF SessionInv
<1>5. CASE VadFails
  BY <1>0, <1>5 DEF VadFails
<1>6. CASE BeginSegment
  <2>1. /\ pc = "start" /\ UNCHANGED <<ws, uplinkWs, connected, speechActive, started>>
        /\ \/ pc' = "round" /\ ws /\ open' = TRUE /\ round' = round + 1
           \/ /\ pc' = "frame" /\ UNCHANGED <<round, open>>
              /\ started => ~ws
    BY <1>0, <1>6 DEF BeginSegment, SessionInv, own
  <2>2. round \in Nat
    BY DEF Types
  <2>3. CASE pc' = "round" /\ ws /\ open' = TRUE /\ round' = round + 1
    <3>1. round' > 0
      BY <2>2, <2>3
    <3> QED
      BY <1>0, <2>1, <2>3, <3>1 DEF SessionInv
  <2>4. CASE /\ pc' = "frame" /\ UNCHANGED <<round, open>>
             /\ started => ~ws
    BY <1>0, <2>1, <2>4 DEF SessionInv
  <2> QED
    BY <2>1, <2>3, <2>4
<1>7. CASE Connect
  <2>1. /\ ~connected /\ connected' = TRUE
        /\ UNCHANGED <<pc, ws, started, speechActive, uplinkWs, round>>
    BY <1>7 DEF Connect, own
  <2> QED
    BY <1>0, <2>1 DEF SessionInv
<1>8. CASE GiveSession
  <2>1. /\ connected /\ uplinkWs' = TRUE
        /\ UNCHANGED <<pc, ws, started, speechActive, connected, round, open>>
    BY <1>8 DEF GiveSession, own, outside, history
  <2> QED
    BY <1>0, <2>1 DEF SessionInv
<1>9. CASE Disconnect \/ TakeSessionBack
  BY <1>0, <1>9 DEF Disconnect, TakeSessionBack, SessionInv
<1>10. CASE ServerCompletes \/ SttCompletedArrives \/ VadStartArrives \/ MusicResetsRound
  <2>1. UNCHANGED <<pc, ws, started, speechActive, uplinkWs, connected, round, open>>
    BY <1>10 DEF ServerCompletes, SttCompletedArrives, VadStartArrives,
    MusicStart, MusicResetsRound, own, shared, outside,
       history
  <2> QED
    BY <1>0, <2>1 DEF SessionInv
<1>11. CASE MusicStart
  <2>1. /\ connected /\ open' = TRUE
        /\ UNCHANGED <<pc, ws, started, speechActive, uplinkWs, connected>>
        /\ pc \in {"round", "preroll"} => round' > 0
    BY <1>0, <1>11 DEF MusicStart, own, shared, Types, SessionInv
  <2> QED
    BY <1>0, <2>1 DEF SessionInv
<1> QED
  BY <1>1, <1>2, <1>3, <1>4, <1>5, <1>6, <1>7, <1>8, <1>9, <1>10, <1>11
    DEF Next, UplinkThread, Session

\* After the first START, and while nothing fails, a frame is uploaded only
\* into a segment: the reset at STT_COMPLETED takes speech_active back before
\* another frame could follow without a START (audio_uplink.c lines 325-337,
\* 399-408).
THEOREM InSegmentTheorem == Spec => AudioStaysInSegments
<1>1. Init => Types /\ RingInv /\ SessionInv
  BY RingInit, SessionInit
<1>2. Types /\ RingInv /\ SessionInv /\ [Next]_vars => Types' /\ RingInv' /\ SessionInv'
  BY RingStep, SessionStep
<1>3. ASSUME Types, RingInv, SessionInv, [Next]_vars
      PROVE  [segment' # segment /\ segment' # <<>> /\ round > 0 /\ ~faulty => open']_vars
  <2> SUFFICES ASSUME segment' # segment, segment' # <<>>, round > 0, ~faulty PROVE open'
    OBVIOUS
  <2>1. CASE BeginSegment
    BY <2>1 DEF BeginSegment
  <2>2. CASE FlushPreroll
    <3>1. pc = "preroll" /\ open' = open
      BY <2>2 DEF FlushPreroll
    <3> QED
      BY <1>3, <3>1 DEF SessionInv
  <2>3. CASE SubmitFrame
    <3>1. pc = "frame" /\ open' = open /\ speechActive
      BY <2>3 DEF SubmitFrame
    <3> QED
      BY <1>3, <3>1 DEF SessionInv
  <2>4. CASE ResetRound \/ EndSegment \/ CaptureFails \/ Session \/ UNCHANGED vars
    BY <2>4 DEF ResetRound, EndSegment, CaptureFails, Session, Connect, GiveSession, Disconnect,
       TakeSessionBack, ServerCompletes, SttCompletedArrives, VadStartArrives,
       MusicStart, MusicResetsRound, vars, history
  <2>5. CASE Capture \/ TakeSession \/ CheckStt \/ ProcessVad \/ VadFails
    BY <2>5 DEF Capture, TakeSession, CheckStt, ProcessVad, VadFails, history
  <2> QED
    BY <1>3, <2>1, <2>2, <2>3, <2>4, <2>5 DEF Next, UplinkThread
<1> QED
  BY <1>1, <1>2, <1>3, PTL DEF Spec, AudioStaysInSegments

-----------------------------------------------------------------------------
(* The gate.                                                               *)

\* A set of numbers that is not empty has a least one.
LEMMA Least ==
  ASSUME NEW T \in SUBSET Nat, T # {}
  PROVE  \E x \in T : \A y \in T : x <= y
<1> DEFINE R == OpToRel(<, Nat)
<1>1. IsWellFoundedOn(R, Nat)
  BY NatLessThanWellFounded, Zenon
<1>2. \A y, x \in Nat : y < x => <<y, x>> \in R
  BY SMT DEF OpToRel
<1> HIDE DEF R
<1>3. PICK x \in T : \A y \in T : ~(<<y, x>> \in R)
  BY <1>1, WFMin, Zenon
<1>4. \A y \in T : ~(y < x)
  BY <1>2, <1>3
<1> QED
  BY <1>4

Sample == -(SampleMax + 1) .. SampleMax

\* The absolute value is one although -(SampleMax + 1) has none.
LEMMA AbsCompares ==
  ASSUME NEW v \in Sample
  PROVE  /\ Abs(v) \in 0 .. SampleMax
         /\ \A n \in 0 .. SampleMax : Abs(v) < n <=> (v < n /\ v > -n)
<1>1. SampleMax \in Nat
  BY UplinkAssumption
<1>2. CASE v >= 0
  BY <1>1, <1>2 DEF Abs, Sample
<1>3. CASE v < 0 /\ v # -(SampleMax + 1)
  BY <1>1, <1>3 DEF Abs, Sample
<1>4. CASE v = -(SampleMax + 1)
  BY <1>1, <1>4 DEF Abs, Sample
<1> QED
  BY <1>1, <1>2, <1>3, <1>4 DEF Sample

\* The peak is the least bound of the absolute values.
LEMMA PeakIsGreatest ==
  ASSUME NEW s \in Seq(Sample)
  PROVE  /\ Peak(s) \in 0 .. SampleMax
         /\ Peak(s) = 0 \/ \E i \in DOMAIN s : Peak(s) = Abs(s[i])
         /\ \A i \in DOMAIN s : Abs(s[i]) <= Peak(s)
<1> DEFINE Bounds(p) == \A i \in DOMAIN s : Abs(s[i]) <= p
           Reached(p) == p = 0 \/ \E i \in DOMAIN s : p = Abs(s[i])
           T == {p \in 0 .. SampleMax : Bounds(p)}
<1>1. SampleMax \in Nat
  BY UplinkAssumption
<1>2. \A i \in DOMAIN s : Abs(s[i]) \in 0 .. SampleMax
  <2>1. \A i \in DOMAIN s : s[i] \in Sample
    BY LenProperties, ElementOfSeq
  <2> QED
    BY <2>1, AbsCompares
<1>3. T \in SUBSET Nat /\ SampleMax \in T
  BY <1>1, <1>2
<1>4. PICK p \in T : \A q \in T : p <= q
  <2> HIDE DEF T
  <2> QED
    BY <1>3, Least
<1>5. Reached(p)
  <2> SUFFICES ASSUME ~Reached(p) PROVE FALSE
    OBVIOUS
  <2>1. p - 1 \in 0 .. SampleMax /\ \A i \in DOMAIN s : Abs(s[i]) # p
    BY <1>1, <1>4
  <2>2. Bounds(p - 1)
    BY <1>1, <1>2, <1>4, <2>1
  <2>3. p - 1 \in T
    BY <2>1, <2>2
  <2> QED
    BY <1>1, <1>4, <2>3
<1>6. \E q \in 0 .. SampleMax : Reached(q) /\ Bounds(q)
  BY <1>4, <1>5
<1> QED
  BY <1>6 DEF Peak

\* What the gate reads off the peak is what the samples say.
LEMMA PeakDecides ==
  ASSUME NEW s \in Captures, ClosePeak > 0
  PROVE  /\ Peak(s) < ClosePeak <=> Low(s)
         /\ Peak(s) >= OpenPeak <=> Loud(s)
         /\ Loud(s) => ~Low(s)
<1>1. /\ SampleMax \in Nat /\ OpenPeak \in 1 .. SampleMax /\ ClosePeak \in 1 .. OpenPeak
      /\ s \in Seq(Sample)
  BY UplinkAssumption DEF Sample
<1>2. \A i \in DOMAIN s : s[i] \in Sample
  BY <1>1, LenProperties, ElementOfSeq
<1>3. \A i \in DOMAIN s :
        /\ Abs(s[i]) \in 0 .. SampleMax
        /\ Abs(s[i]) < ClosePeak <=> (s[i] < ClosePeak /\ s[i] > -ClosePeak)
        /\ Abs(s[i]) < OpenPeak <=> (s[i] < OpenPeak /\ s[i] > -OpenPeak)
  BY <1>1, <1>2, AbsCompares
<1>4. /\ Peak(s) \in 0 .. SampleMax
      /\ Peak(s) = 0 \/ \E i \in DOMAIN s : Peak(s) = Abs(s[i])
      /\ \A i \in DOMAIN s : Abs(s[i]) <= Peak(s)
  BY <1>1, PeakIsGreatest
<1>5. \A n \in 1 .. SampleMax : Peak(s) < n <=> \A i \in DOMAIN s : Abs(s[i]) < n
  BY <1>1, <1>3, <1>4
<1>6. Peak(s) < ClosePeak <=> Low(s)
  BY <1>1, <1>3, <1>5 DEF Low
<1>7. Peak(s) < OpenPeak <=> \A i \in DOMAIN s : s[i] < OpenPeak /\ s[i] > -OpenPeak
  BY <1>1, <1>3, <1>5
<1>8. \A i \in DOMAIN s : (s[i] < OpenPeak /\ s[i] > -OpenPeak)
                            <=> ~(s[i] >= OpenPeak \/ s[i] <= -OpenPeak)
  BY <1>1, <1>2 DEF Sample
<1>9. Peak(s) >= OpenPeak <=> Loud(s)
  BY <1>1, <1>4, <1>7, <1>8 DEF Loud
<1>10. Peak(s) >= OpenPeak => ~(Peak(s) < ClosePeak)
  BY <1>1, <1>4
<1> QED
  BY <1>6, <1>9, <1>10

\* While the gate is open its counter counts the low frames.
GateInv ==
  /\ gateOpen \in BOOLEAN /\ loud \in BOOLEAN /\ lowRun \in Nat
  /\ gateOpen = loud
  /\ gateOpen => belowClose = lowRun /\ lowRun < HoldFrames

LEMMA ClosedGate ==
  gateOpen = FALSE /\ loud = FALSE /\ lowRun = 0 => GateInv
<1> SUFFICES ASSUME gateOpen = FALSE, loud = FALSE, lowRun = 0 PROVE GateInv
  OBVIOUS
<1>1. gateOpen \in BOOLEAN /\ loud \in BOOLEAN /\ gateOpen = loud /\ ~gateOpen
  BY Zenon
<1>2. lowRun \in Nat
  BY SMT
<1> QED
  BY <1>1, <1>2, Zenon DEF GateInv

LEMMA GateInit == Init => GateInv
  BY ClosedGate DEF Init

LEMMA RunGateKeeps == ASSUME ClosePeak > 0, GateInv, RunGate PROVE GateInv'
<1>1. PICK s \in Captures :
        LET g == Gate(gateOpen, belowClose, s) IN
          /\ gateOpen' = g[1] /\ belowClose' = g[2]
          /\ lowRun' = IF ~Low(s) THEN 0
                       ELSE IF lowRun < HoldFrames THEN lowRun + 1 ELSE lowRun
          /\ loud' = (Loud(s) \/ (loud /\ (Low(s) => lowRun + 1 < HoldFrames)))
  BY DEF RunGate
<1>2. /\ Peak(s) < ClosePeak <=> Low(s)
      /\ Peak(s) >= OpenPeak <=> Loud(s)
      /\ Loud(s) => ~Low(s)
  BY PeakDecides
<1>3. HoldFrames \in Nat \ {0} /\ Loud(s) \in BOOLEAN /\ Low(s) \in BOOLEAN
  BY UplinkAssumption DEF Loud, Low
<1>4. CASE gateOpen /\ Low(s)
  <2>1. gateOpen' = (belowClose + 1 < HoldFrames) /\ belowClose' = belowClose + 1
    BY <1>1, <1>2, <1>4 DEF Gate
  <2>2. belowClose = lowRun /\ lowRun \in Nat /\ lowRun < HoldFrames /\ loud /\ ~Loud(s)
    BY <1>2, <1>4 DEF GateInv
  <2>3. loud' = (lowRun + 1 < HoldFrames) /\ lowRun' = lowRun + 1
    BY <1>1, <1>2, <1>3, <1>4, <2>2
  <2>4. CASE lowRun + 1 < HoldFrames
    <3>1. gateOpen' = TRUE /\ loud' = TRUE
      BY <2>1, <2>2, <2>3, <2>4
    <3> QED
      BY <2>1, <2>2, <2>3, <2>4, <3>1 DEF GateInv
  <2>5. CASE ~(lowRun + 1 < HoldFrames)
    <3>1. (lowRun + 1 < HoldFrames) = FALSE /\ (belowClose + 1 < HoldFrames) = FALSE
      BY <2>2, <2>5
    <3>2. gateOpen' = FALSE /\ loud' = FALSE
      BY <2>1, <2>3, <3>1, Zenon
    <3>3. lowRun' \in Nat
      BY <2>2, <2>3
    <3> QED
      BY <3>2, <3>3 DEF GateInv
  <2> QED
    BY <2>4, <2>5
<1>5. CASE gateOpen /\ ~Low(s)
  <2>1. gateOpen' = TRUE /\ belowClose' = 0
    BY <1>1, <1>2, <1>5 DEF Gate
  <2>2. loud' = TRUE /\ lowRun' = 0
    BY <1>1, <1>5 DEF GateInv
  <2> QED
    BY <1>3, <2>1, <2>2 DEF GateInv
<1>6. CASE ~gateOpen /\ Loud(s)
  <2>1. gateOpen' = TRUE /\ belowClose' = 0
    BY <1>1, <1>2, <1>6 DEF Gate
  <2>2. loud' = TRUE /\ lowRun' = 0
    BY <1>1, <1>2, <1>6
  <2> QED
    BY <1>3, <2>1, <2>2 DEF GateInv
<1>7. CASE ~gateOpen /\ ~Loud(s)
  <2>1. gateOpen' = FALSE
    BY <1>1, <1>2, <1>7 DEF Gate
  <2>2. loud' = FALSE
    BY <1>1, <1>7 DEF GateInv
  <2>3. lowRun' \in Nat
    BY <1>1 DEF GateInv
  <2> QED
    BY <2>1, <2>2, <2>3 DEF GateInv
<1> QED
  BY <1>3, <1>4, <1>5, <1>6, <1>7 DEF GateInv

LEMMA GateStep == ASSUME ClosePeak > 0, GateInv, [Next]_vars PROVE GateInv'
<1>1. CASE ProcessVad \/ VadFails
  BY <1>1, RunGateKeeps DEF ProcessVad, VadFails
<1>2. CASE CheckStt
  <2>1. \/ gateOpen' = FALSE /\ loud' = FALSE /\ lowRun' = 0
        \/ UNCHANGED <<gateOpen, belowClose, loud, lowRun>>
    BY <1>2 DEF CheckStt
  <2>2. CASE gateOpen' = FALSE /\ loud' = FALSE /\ lowRun' = 0
    <3>1. (gateOpen = FALSE /\ loud = FALSE /\ lowRun = 0 => GateInv)'
      BY ClosedGate, PTL
    <3> QED
      BY <2>2, <3>1
  <2>3. CASE UNCHANGED <<gateOpen, belowClose, loud, lowRun>>
    BY <2>3 DEF GateInv
  <2> QED
    BY <2>1, <2>2, <2>3
<1>3. ASSUME ~ProcessVad, ~VadFails, ~CheckStt
      PROVE  UNCHANGED <<gateOpen, belowClose, loud, lowRun>>
  <2>1. CASE Capture \/ TakeSession \/ FlushPreroll
    BY <2>1 DEF Capture, TakeSession, FlushPreroll, history
  <2>2. CASE CaptureFails \/ BeginSegment \/ ResetRound \/ SubmitFrame \/ EndSegment
             \/ UNCHANGED vars
    BY <2>2 DEF CaptureFails, BeginSegment, ResetRound, SubmitFrame, EndSegment, vars, own,
       history
  <2>3. CASE Session
    BY <2>3 DEF Session, Connect, GiveSession, Disconnect, TakeSessionBack, ServerCompletes,
       SttCompletedArrives, VadStartArrives, MusicStart, MusicResetsRound, own, history
  <2> QED
    BY <1>3, <2>1, <2>2, <2>3 DEF Next, UplinkThread
<1> QED
  BY <1>1, <1>2, <1>3 DEF GateInv

\* The gate is open exactly when a sample reached OpenPeak and no HoldFrames
\* frames in a row have stayed below ClosePeak since, for every sampled value,
\* the one without an absolute value included (audio_uplink.c lines 23-82).
THEOREM GateTheorem == ASSUME ClosePeak > 0 PROVE Spec => []GateIsHysteresis
<1>1. GateInv /\ [Next]_vars => GateInv'
  BY GateStep
<1>2. GateInv => GateIsHysteresis
  BY DEF GateInv, GateIsHysteresis
<1> QED
  BY GateInit, <1>1, <1>2, PTL DEF Spec
=============================================================================

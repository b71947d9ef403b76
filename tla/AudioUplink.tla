---------------------------- MODULE AudioUplink ----------------------------
(***************************************************************************)
(* src/src/audio_uplink.c: the thread that captures the microphone frame   *)
(* by frame, gates the frames by their peak, asks the core library whether *)
(* somebody speaks, and uploads what is said: at the start of speech the   *)
(* frames kept in the preroll ring, then every frame until speech ends.    *)
(*                                                                         *)
(* The thread shares with the main thread the session handle (g_uplink_ws, *)
(* under its own mutex) and with the session the flag stt_completed, under *)
(* the session's mutex.  The loop body is cut at every one of these reads  *)
(* and at every message it sends; everything between two of them touches   *)
(* only the thread's own variables and is one step.                        *)
(***************************************************************************)
EXTENDS Integers, Sequences

CONSTANTS
  PrerollFrames,  \* ZH_VAD_PREROLL_FRAMES
  HoldFrames,     \* ZH_VAD_GATE_HOLD_FRAMES
  OpenPeak,       \* ZH_VAD_GATE_OPEN_PEAK
  ClosePeak,      \* ZH_VAD_GATE_CLOSE_PEAK
  SampleMax,      \* INT16_MAX; a sample is in -(SampleMax + 1) .. SampleMax
  Captures,       \* the sample sequences a captured frame may consist of
  MaxFrame,       \* bound on captured frames
  MaxRound        \* bound on uploaded speech segments

ASSUME UplinkAssumption ==
  /\ PrerollFrames \in Nat \ {0}
  /\ HoldFrames \in Nat \ {0}
  /\ SampleMax \in Nat
  /\ ClosePeak \in 0 .. OpenPeak
  /\ OpenPeak \in 1 .. SampleMax
  /\ Captures \subseteq Seq(-(SampleMax + 1) .. SampleMax)
  /\ MaxFrame \in Nat
  /\ MaxRound \in Nat

VARIABLES
  \* the uplink thread
  pc,
  frame,          \* the number of the frame in hand
  ws,             \* its copy of g_uplink_ws is not NULL
  ring, prerollPos, prerollFull,
  speechActive,
  started, ended, \* what the voice detection said of the frame in hand
  flushed,        \* frame_flushed_in_preroll
  gateOpen, belowClose,
  sttSeen,        \* stt_completed_seen
  \* shared
  uplinkWs,       \* g_uplink_ws is not NULL
  sttCompleted,   \* session->stt_completed
  vadStarted,     \* session->vad_started
  faceActive,     \* face recognition is switched on
  \* outside: the connection, the server
  connected,
  faulty,         \* on this run connections break and calls fail
  round,          \* START messages the server has received
  pending,        \* rounds whose STT_COMPLETED is on its way
  preSent,        \* the callback thread has sent START for music_play_pre and
                  \* has not yet reset the round's flags
  \* history
  sttRound,       \* the round the flag sttCompleted speaks of
  segment,        \* frames the server received since the last START
  cut,            \* since the thread's last START another thread has ended its
                  \* segment: STT_COMPLETED, or a START for music
  open,           \* START was sent on this connection after the last reset
  quiet,          \* frames captured outside speech since the last reset
  lowRun, loud    \* frames below ClosePeak in a row; one reached OpenPeak

own     == <<frame, ws, ring, prerollPos, prerollFull, speechActive,
             started, ended, flushed, gateOpen, belowClose, sttSeen>>
shared  == <<uplinkWs, sttCompleted, vadStarted, faceActive>>
outside == <<connected, faulty, round, pending, preSent>>
history == <<sttRound, segment, cut, open, quiet, lowRun, loud>>
vars    == <<pc, own, shared, outside, history>>

Slots == 0 .. PrerollFrames - 1

-----------------------------------------------------------------------------
\* Mutant: the absolute value without its special case.
AbsWraps(v) == IF v >= 0 \/ v = -(SampleMax + 1) THEN v ELSE -v

(* The gate.  -INT16_MIN is no int16_t: its absolute value is INT16_MAX.   *)
Abs(v) == IF v >= 0 THEN v ELSE IF v = -(SampleMax + 1) THEN SampleMax ELSE -v

Peak(s) ==
  CHOOSE p \in 0 .. SampleMax :
    /\ p = 0 \/ \E i \in DOMAIN s : p = Abs(s[i])
    /\ \A i \in DOMAIN s : Abs(s[i]) <= p

\* The gate after a frame, as <<open, below>>: it opens at OpenPeak and closes
\* after HoldFrames frames below ClosePeak.
Gate(open_, below, s) ==
  IF open_
  THEN IF Peak(s) < ClosePeak
       THEN <<below + 1 < HoldFrames, below + 1>>
       ELSE <<TRUE, 0>>
  ELSE IF Peak(s) >= OpenPeak THEN <<TRUE, 0>> ELSE <<FALSE, below>>

\* The ring read from its oldest to its newest frame.
Preroll(r, pos, full) ==
  IF full
  THEN [i \in 1 .. PrerollFrames |-> r[(pos + i - 1) % PrerollFrames]]
  ELSE [i \in 1 .. pos |-> r[i - 1]]

-----------------------------------------------------------------------------
Init ==
  /\ pc = "capture"
  /\ frame = 0 /\ ws = FALSE
  /\ ring = [i \in Slots |-> 0] /\ prerollPos = 0 /\ prerollFull = FALSE
  /\ speechActive = FALSE /\ started = FALSE /\ ended = FALSE /\ flushed = FALSE
  /\ gateOpen = FALSE /\ belowClose = 0
  /\ sttSeen = FALSE
  /\ uplinkWs = FALSE /\ sttCompleted = FALSE /\ vadStarted = FALSE /\ faceActive = FALSE
  /\ connected = FALSE /\ faulty \in BOOLEAN
  /\ round = 0 /\ pending = {} /\ preSent = FALSE
  /\ sttRound = 0 /\ segment = <<>> /\ cut = FALSE /\ open = FALSE
  /\ quiet = <<>> /\ lowRun = 0 /\ loud = FALSE

\* A whole frame is read.
Capture ==
  /\ pc = "capture" /\ frame < MaxFrame
  /\ frame' = frame + 1
  /\ flushed' = FALSE
  /\ pc' = "session"
  /\ UNCHANGED <<ws, ring, prerollPos, prerollFull, speechActive, started, ended,
                 gateOpen, belowClose, sttSeen, shared, outside, history>>

\* After an error or a short read the loop tries again.
CaptureFails == pc = "capture" /\ UNCHANGED vars

TakeSession ==
  /\ pc = "session"
  /\ ws' = uplinkWs
  /\ pc' = "stt"
  /\ UNCHANGED <<frame, ring, prerollPos, prerollFull, speechActive, started,
                 ended, flushed, gateOpen, belowClose, sttSeen, shared,
                 outside, history>>

\* Mutants: the reset at STT_COMPLETED forgets one of what it resets.
CheckSttForgets(speech, full) ==
  /\ pc = "stt"
  /\ LET done == ws /\ sttCompleted IN
       /\ sttSeen' = done
       /\ IF done /\ ~sttSeen
          THEN /\ speechActive' = (speech /\ speechActive)
               /\ prerollPos' = 0 /\ prerollFull' = (full /\ prerollFull)
               /\ gateOpen' = FALSE /\ belowClose' = 0
               /\ faceActive' = FALSE
               /\ open' = FALSE /\ quiet' = <<>> /\ lowRun' = 0 /\ loud' = FALSE
          ELSE UNCHANGED <<speechActive, prerollPos, prerollFull, gateOpen, belowClose,
                           faceActive, open, quiet, lowRun, loud>>
  /\ pc' = "vad"
  /\ UNCHANGED <<frame, ws, ring, started, ended, flushed,
                 uplinkWs, sttCompleted, vadStarted, outside, sttRound, cut, segment>>
CheckSttKeepsSpeech == CheckSttForgets(TRUE, FALSE)
CheckSttKeepsFull   == CheckSttForgets(FALSE, TRUE)

\* The first time it sees the round's text complete the thread goes back to
\* listening: speech, preroll, gate, voice detection and the core's uplink.
CheckStt ==
  /\ pc = "stt"
  /\ LET done == ws /\ sttCompleted IN
       /\ sttSeen' = done
       /\ IF done /\ ~sttSeen
          THEN /\ speechActive' = FALSE
               /\ prerollPos' = 0 /\ prerollFull' = FALSE
               /\ gateOpen' = FALSE /\ belowClose' = 0
               /\ faceActive' = FALSE
               /\ open' = FALSE /\ quiet' = <<>> /\ lowRun' = 0 /\ loud' = FALSE
          ELSE UNCHANGED <<speechActive, prerollPos, prerollFull, gateOpen, belowClose,
                           faceActive, open, quiet, lowRun, loud>>
  /\ pc' = "vad"
  /\ UNCHANGED <<frame, ws, ring, started, ended, flushed,
                 uplinkWs, sttCompleted, vadStarted, outside, sttRound, cut, segment>>

\* Mutant: the first frame of speech is not kept.
StoreOnlySilence ==
  IF ~speechActive'
  THEN /\ ring' = [ring EXCEPT ![prerollPos] = frame]
       /\ prerollPos' = (prerollPos + 1) % PrerollFrames
       /\ prerollFull' = (prerollFull \/ (prerollPos + 1) % PrerollFrames = 0)
       /\ quiet' = Append(quiet, frame)
  ELSE UNCHANGED <<ring, prerollPos, prerollFull, quiet>>

\* The ring takes every frame that was captured while nobody spoke, the first
\* frame of speech included.
StorePreroll ==
  IF ~speechActive
  THEN /\ ring' = [ring EXCEPT ![prerollPos] = frame]
       /\ prerollPos' = (prerollPos + 1) % PrerollFrames
       /\ prerollFull' = (prerollFull \/ (prerollPos + 1) % PrerollFrames = 0)
       /\ quiet' = Append(quiet, frame)
  ELSE UNCHANGED <<ring, prerollPos, prerollFull, quiet>>

\* History: a sample reaches OpenPeak, every sample stays below ClosePeak.
Loud(s) == \E i \in DOMAIN s : s[i] >= OpenPeak \/ s[i] <= -OpenPeak
Low(s)  == \A i \in DOMAIN s : s[i] < ClosePeak /\ s[i] > -ClosePeak

\* The gate looks at the samples of the frame in hand; nothing did before.
RunGate ==
  \E s \in Captures :
    LET g == Gate(gateOpen, belowClose, s) IN
      /\ gateOpen' = g[1]
      /\ belowClose' = g[2]
      /\ lowRun' = IF ~Low(s) THEN 0 ELSE IF lowRun < HoldFrames THEN lowRun + 1 ELSE lowRun
      /\ loud' = (Loud(s) \/ (loud /\ (Low(s) => lowRun + 1 < HoldFrames)))

\* The voice detection, external, says of each frame whether speech is active
\* and whether it starts or ends with it.  The core may report the change to
\* the host, which then clears the round's flags and switches the faces.
ProcessVad ==
  /\ pc = "vad"
  /\ RunGate
  /\ \E active \in BOOLEAN :
       /\ active /\ ~speechActive /\ ws => round < MaxRound
       /\ started' = (active /\ ~speechActive)
       /\ ended' = (speechActive /\ ~active)
       /\ speechActive' = active
       /\ \/ active /\ ~speechActive /\ faceActive' = TRUE
             /\ sttCompleted' = FALSE /\ vadStarted' = FALSE
          \/ speechActive /\ ~active /\ faceActive' = FALSE
             /\ UNCHANGED <<sttCompleted, vadStarted>>
          \/ UNCHANGED <<faceActive, sttCompleted, vadStarted>>
  /\ StorePreroll
  /\ pc' = "start"
  /\ UNCHANGED <<frame, ws, flushed, sttSeen, uplinkWs, outside,
                 sttRound, cut, segment, open>>

\* The detection fails: the frame is dropped, the gate has moved.
VadFails ==
  /\ pc = "vad" /\ faulty
  /\ RunGate
  /\ pc' = "capture"
  /\ UNCHANGED <<frame, ws, ring, prerollPos, prerollFull, speechActive, started,
                 ended, flushed, sttSeen, shared, outside, sttRound, cut, segment,
                 open, quiet>>

\* Speech starts: START is sent if there is a session, and may fail.
BeginSegment ==
  /\ pc = "start"
  /\ faceActive' = (faceActive \/ started)
  /\ \/ /\ started /\ ws /\ connected
        /\ round' = round + 1
        /\ open' = TRUE
        /\ segment' = <<>> /\ cut' = FALSE
        /\ pc' = "round"
     \/ /\ started /\ ws => faulty
        /\ pc' = "frame"
        /\ UNCHANGED <<round, open, segment, cut>>
  /\ UNCHANGED <<own, uplinkWs, sttCompleted, vadStarted, connected, faulty, pending,
                 preSent, sttRound, quiet, lowRun, loud>>

\* The second half of zh_core_uplink_begin_segment: the flags of the round.
ResetRound ==
  /\ pc = "round"
  /\ sttCompleted' = FALSE /\ vadStarted' = FALSE
  /\ pc' = "preroll"
  /\ UNCHANGED <<own, uplinkWs, faceActive, outside, history>>

\* Mutant: a flush does not mark the frame in hand as sent.
FlushUnmarked ==
  /\ pc = "preroll"
  /\ segment' = segment \o Preroll(ring, prerollPos, prerollFull)
  /\ pc' = "frame"
  /\ UNCHANGED <<own, shared, outside, sttRound, cut, open, quiet, lowRun, loud>>

\* The ring is sent from its oldest frame on; the first frame that cannot be
\* sent ends it, and the frame in hand then counts as not sent.
FlushPreroll ==
  /\ pc = "preroll"
  /\ LET kept == Preroll(ring, prerollPos, prerollFull) IN
       \E n \in 0 .. Len(kept) :
         /\ n < Len(kept) => faulty
         /\ segment' = segment \o SubSeq(kept, 1, n)
         /\ flushed' = (n = Len(kept))
  /\ pc' = "frame"
  /\ UNCHANGED <<frame, ws, ring, prerollPos, prerollFull, speechActive, started,
                 ended, gateOpen, belowClose, sttSeen, shared, outside,
                 sttRound, cut, open, quiet, lowRun, loud>>

\* After STT_COMPLETED frames are sent only while the answer plays, which other
\* threads decide.
SubmitFrame ==
  /\ pc = "frame"
  /\ \/ speechActive /\ ws /\ ~flushed /\ segment' = Append(segment, frame)
     \/ /\ speechActive /\ ws /\ ~flushed => sttCompleted \/ faulty
        /\ UNCHANGED segment
  /\ pc' = "end"
  /\ UNCHANGED <<own, shared, outside, sttRound, cut, open, quiet, lowRun, loud>>

\* Speech ends: the core sends what it still holds.
EndSegment ==
  /\ pc = "end"
  /\ faceActive' = (faceActive /\ ~ended)
  /\ pc' = "capture"
  /\ UNCHANGED <<own, uplinkWs, sttCompleted, vadStarted, outside, history>>

UplinkThread ==
  \/ Capture \/ CaptureFails \/ TakeSession \/ CheckStt \/ ProcessVad \/ VadFails
  \/ BeginSegment \/ ResetRound \/ FlushPreroll \/ SubmitFrame \/ EndSegment

-----------------------------------------------------------------------------
(* The main thread (zh_run_session) and what is outside.                   *)

\* zh_ws_connect has reset the session, the server has accepted it.
Connect ==
  /\ ~connected /\ ~uplinkWs
  /\ connected' = TRUE
  /\ sttCompleted' = FALSE /\ vadStarted' = FALSE
  /\ pending' = {} /\ open' = FALSE
  /\ UNCHANGED <<pc, own, uplinkWs, faceActive, faulty, round, preSent,
                 sttRound, segment, cut, quiet, lowRun, loud>>

GiveSession ==
  /\ connected /\ ~uplinkWs
  /\ uplinkWs' = TRUE
  /\ UNCHANGED <<pc, own, sttCompleted, vadStarted, faceActive, outside, history>>

Disconnect ==
  /\ faulty /\ connected /\ uplinkWs
  /\ connected' = FALSE
  /\ UNCHANGED <<pc, own, shared, faulty, round, pending, preSent, history>>

TakeSessionBack ==
  /\ ~connected /\ uplinkWs
  /\ uplinkWs' = FALSE
  /\ UNCHANGED <<pc, own, sttCompleted, vadStarted, faceActive, outside, history>>

\* The server has understood what was said in the last round it knows.
ServerCompletes ==
  /\ connected /\ round > 0 /\ segment # <<>> /\ round \notin pending /\ sttRound < round
  /\ pending' = pending \cup {round}
  /\ UNCHANGED <<pc, own, shared, connected, faulty, round, preSent, history>>

\* STT_COMPLETED arrives: the messages of a connection keep their order.
SttCompletedArrives ==
  /\ connected /\ ~preSent
  /\ \E r \in pending :
       /\ \A q \in pending : r <= q
       /\ pending' = pending \ {r}
       /\ sttRound' = r
  /\ sttCompleted' = TRUE /\ cut' = TRUE
  /\ UNCHANGED <<pc, own, uplinkWs, vadStarted, faceActive, connected, faulty, round,
                 preSent, segment, open, quiet, lowRun, loud>>

\* The server hears speech itself: the first time in a round this clears the
\* round's flags as a START does.
VadStartArrives ==
  /\ connected /\ ~preSent /\ ~vadStarted
  /\ vadStarted' = TRUE
  /\ sttCompleted' = FALSE
  /\ UNCHANGED <<pc, own, uplinkWs, faceActive, outside, history>>

\* music_play_pre: the callback thread sends a START of its own, whatever the
\* uplink is doing, ...
MusicStart ==
  /\ connected /\ ~preSent /\ round < MaxRound
  /\ round' = round + 1
  /\ open' = TRUE
  /\ segment' = <<>> /\ cut' = TRUE
  /\ preSent' = TRUE
  /\ UNCHANGED <<pc, own, shared, connected, faulty, pending, sttRound, quiet, lowRun, loud>>

\* ... and then resets the round's flags, before it delivers anything else.
MusicResetsRound ==
  /\ preSent
  /\ preSent' = FALSE
  /\ sttCompleted' = FALSE /\ vadStarted' = FALSE
  /\ UNCHANGED <<pc, own, uplinkWs, faceActive, connected, faulty, round, pending, history>>

Session ==
  \/ MusicStart \/ MusicResetsRound
  \/ Connect \/ GiveSession \/ Disconnect \/ TakeSessionBack
  \/ ServerCompletes \/ SttCompletedArrives \/ VadStartArrives

Next == UplinkThread \/ Session

Spec == Init /\ [][Next]_vars

-----------------------------------------------------------------------------
(* Properties.                                                             *)

\* What the ring holds, read from its position, is the most recent frames
\* captured outside speech since the last reset, oldest first, each once: the
\* wrap-around, the reset that clears position and full flag together and the
\* pause during speech never mix old and new frames up (lines 364-375, 325-337).
PrerollIsRecent ==
  LET kept == Preroll(ring, prerollPos, prerollFull)
      n    == IF Len(quiet) < PrerollFrames THEN Len(quiet) ELSE PrerollFrames
  IN  kept = SubSeq(quiet, Len(quiet) - n + 1, Len(quiet))

\* Within a segment the server receives frames in the order they were captured
\* and none twice, although the preroll, a failed flush of it and the frame in
\* hand overlap (frame_flushed_in_preroll, lines 377-408).
SegmentInOrder ==
  \A i, j \in 1 .. Len(segment) : i < j => segment[i] < segment[j]

\* The preroll reaches the server without a gap: the frame in hand follows the
\* ring, so nothing said since the start of speech is missing from a segment
\* when nothing fails and no other thread cuts it: after STT_COMPLETED, and
\* around a START for music, frames are dropped on purpose or by accident
\* (lines 364-408).
SegmentIsWhole ==
  (pc = "capture" /\ ws /\ open /\ speechActive /\ ~cut /\ segment # <<>> /\ ~faulty)
     => segment[Len(segment)] = frame

\* After the first START of the connection no frame is uploaded outside a
\* segment: the reset at STT_COMPLETED takes speech_active back before another
\* frame can be sent without a START (lines 325-337, 399-408).
AudioStaysInSegments ==
  [][segment' # segment /\ segment' # <<>> /\ round > 0 /\ ~faulty => open']_vars

\* The gate lets a frame pass exactly when some frame reached OpenPeak and no
\* HoldFrames frames in a row stayed below ClosePeak since, counted from the
\* samples and not from a peak (lines 23-82).
GateIsHysteresis == gateOpen = loud
=============================================================================

------------------------- MODULE TtsPlayback_proofs -------------------------
(***************************************************************************)
(* Theorems about TtsPlayback, for every number of interrupts, frames and  *)
(* sessions: an interrupt finds whatever is in the output, however its     *)
(* stores interleave with the play thread; and no frame the thread had     *)
(* already taken survives it, unless the thread answers its flush before   *)
(* the interrupt has counted its generation.                               *)
(***************************************************************************)
EXTENDS TtsPlayback, TLAPS

\* The handle the others see is open, and set before anything is written.
OutputInv ==
  /\ FlushFindsAudio
  /\ pc = "activate" => playback
  /\ pc = "write" => active

LEMMA OutputInit == Init => OutputInv
BY DEF Init, OutputInv, FlushFindsAudio

LEMMA ReleaseKeeps ==
  ASSUME OutputInv, ReleaseOutput, pc' \notin {"activate", "write"}
  PROVE  OutputInv'
BY DEF OutputInv, FlushFindsAudio, ReleaseOutput

\* Most steps leave the output alone and come nowhere near it.
LEMMA ElsewhereKeeps ==
  ASSUME OutputInv, UNCHANGED <<active, playback, ao>>,
         pc' \in {pc, "decode"} \/ pc' \notin {"activate", "write"}
  PROVE  OutputInv'
BY DEF OutputInv, FlushFindsAudio

\* Where the thread goes on after a flush.
Onward == cont \in {"gen", "after", "loop"}

LEMMA OnwardInit == Init => Onward
BY DEF Init, Onward

LEMMA OnwardStep == ASSUME Onward, [Next]_vars PROVE Onward'
<1>1. CASE PlayThread
  BY <1>1 DEF Onward, PlayThread, LoopHead, FlushRelease, FlushClear, ReadGeneration, Read,
     CheckRead, SeePending, AcceptNewRound, IdleTimeout, TestRoundDone, StartPendingMusic,
     TestTransport, FrameFlush, FrameDrop, InterruptMusic, OpenOutput, Activate, Decode,
     LockOutput, WriteFrame, AfterFrames, FinishRound, Exit
<1>2. CASE UNCHANGED thread
  BY <1>2 DEF Onward, thread
<1>3. CASE Start
  BY <1>3 DEF Onward, Start
<1>4. WsHandler \/ VadStart \/ MusicServer \/ TtsCompleted \/ StopRunning \/ Stopping \/ External
        => UNCHANGED thread
  BY DEF WsHandler, VadStart, MusicServer, TtsCompleted, StopRunning, Stopping, External,
     StoreFlush, StorePlaying, StoreDrop, StoreGeneration, StoreLastAudio, StoreAll,
     InterruptFlush, InterruptTransport, QueueMusic, PlayMusic, WsStep, Stop, StopFlush,
     StopPlaying, StopDrop, StopTransport, FrameArrives, TransportEnds, NewRound, MusicEnds,
     NotThreads
<1> QED
  BY <1>1, <1>2, <1>3, <1>4 DEF Next, vars

LEMMA OutputPlay == ASSUME OutputInv, Onward, PlayThread PROVE OutputInv'
<1> USE DEF Onward
<1>1. CASE FlushRelease
  BY <1>1, ReleaseKeeps DEF FlushRelease, At
<1>2. CASE FinishRound
  BY <1>2, ReleaseKeeps DEF FinishRound, At
<1>3. CASE Exit
  BY <1>3, ReleaseKeeps DEF Exit, At
<1>4. CASE IdleTimeout
  <2>1. pc' = "round" /\ (ReleaseOutput \/ UNCHANGED <<playing, lastAudio, active, playback, ao>>)
    BY <1>4 DEF IdleTimeout, At
  <2> QED
    BY <2>1, ReleaseKeeps, ElsewhereKeeps
<1>5. CASE OpenOutput
  BY <1>5 DEF OpenOutput, OutputInv, FlushFindsAudio, history
<1>6. CASE Activate
  BY <1>6 DEF Activate, At, OutputInv, FlushFindsAudio, history
<1>7. CASE LockOutput
  BY <1>7 DEF LockOutput, OutputInv, FlushFindsAudio, history
<1>8. CASE WriteFrame
  BY <1>8 DEF WriteFrame, At, OutputInv, FlushFindsAudio
<1>9. CASE LoopHead \/ FlushClear \/ ReadGeneration \/ Read \/ CheckRead \/ SeePending
  BY <1>9, ElsewhereKeeps
  DEF LoopHead, FlushClear, ReadGeneration, Read, CheckRead, SeePending, At, history
<1>10. CASE AcceptNewRound \/ TestRoundDone \/ StartPendingMusic \/ TestTransport \/ FrameFlush
  BY <1>10, ElsewhereKeeps
  DEF AcceptNewRound, TestRoundDone, StartPendingMusic, TestTransport, FrameFlush, At, history
<1>11. CASE FrameDrop \/ InterruptMusic \/ Decode \/ AfterFrames
  BY <1>11, ElsewhereKeeps DEF FrameDrop, InterruptMusic, Decode, AfterFrames, At, history
<1> QED
  BY <1>1, <1>2, <1>3, <1>4, <1>5, <1>6, <1>7, <1>8, <1>9, <1>10, <1>11 DEF PlayThread

LEMMA OutputStep == ASSUME OutputInv, Onward, [Next]_vars PROVE OutputInv'
<1>1. CASE PlayThread
  BY <1>1, OutputPlay
<1>2. CASE InterruptFlush
  BY <1>2 DEF InterruptFlush, WsStep, thread, OutputInv, FlushFindsAudio
<1>3. CASE Start
  BY <1>3, ElsewhereKeeps DEF Start
<1>4. CASE UNCHANGED <<active, thread, ao>>
  BY <1>4, ElsewhereKeeps DEF thread
<1>5. WsHandler \/ VadStart \/ MusicServer \/ TtsCompleted \/ StopRunning \/ Stopping \/ External
        => InterruptFlush \/ UNCHANGED <<active, thread, ao>>
  BY DEF WsHandler, VadStart, MusicServer, TtsCompleted, StopRunning, Stopping, External,
     StoreFlush, StorePlaying, StoreDrop, StoreGeneration, StoreLastAudio, StoreAll,
     InterruptTransport, QueueMusic, PlayMusic, WsStep, Stop, StopFlush, StopPlaying,
     StopDrop, StopTransport, FrameArrives, TransportEnds, NewRound, MusicEnds, NotThreads,
     history
<1> QED
  BY <1>1, <1>2, <1>3, <1>4, <1>5 DEF Next, vars, history

OInv == Onward /\ OutputInv

THEOREM OutputInvariance == Spec => []OInv
<1>1. Init => OInv
  BY OnwardInit, OutputInit DEF OInv
<1>2. OInv /\ [Next]_vars => OInv'
  BY OnwardStep, OutputStep DEF OInv
<1> QED
  BY <1>1, <1>2, PTL DEF Spec

\* An interrupt never flushes a handle the play thread has closed, and no audio
\* is ever buffered behind a handle it cannot see (udp_tts.c:32-49, 92-114,
\* 333-337), however the stores and tests of the two threads interleave.
THEOREM FlushTheorem == Spec => []FlushFindsAudio
<1>1. OInv => FlushFindsAudio
  BY DEF OInv, OutputInv
<1> QED
  BY <1>1, OutputInvariance, PTL

-----------------------------------------------------------------------------
(* What an interrupt leaves of the frames the thread had already taken.    *)

\* The thread has a frame in hand and has found its generation current.
InHand == {"flush", "drop", "yield", "open", "activate", "decode", "lock"}

Numbers == /\ generation \in Nat /\ readGen \in Nat /\ handGen \in Nat
           /\ \A f \in ao : f.taken \in Nat

\* The interrupt has begun and its flush of the output is still to come.
Interrupting == wsPc \in {"stores", "store1", "store2", "store3", "store4", "store5", "flush"}

\* A frame taken before an interrupt is stopped by the pending flush until the
\* thread has the mutex; then the interrupt's own flush is still to come.
Current == handGen = generation \/ torn
TakenInv ==
  /\ Interrupting \/ wsPc \in {"idle", "transport", "queue", "play"}
  /\ torn \in BOOLEAN
  /\ Numbers
  /\ wsPc \in {"store2", "store3", "store4"} => flushPending \/ torn
  /\ pc \in {"read", "check"} => readGen <= generation
  /\ pc = "check" => readGen <= handGen /\ handGen <= generation
  /\ pc \in InHand \cup {"write"} => handGen <= generation
  /\ pc \in InHand => Current \/ flushPending \/ wsPc \in {"stores", "store1"}
  /\ pc = "write" => mutex = "play" /\ (Current \/ Interrupting)
  /\ ~Interrupting /\ ~torn => \A f \in ao : f.taken >= generation

LEMMA TakenInit == Init => TakenInv
<1> SUFFICES ASSUME Init PROVE TakenInv
  OBVIOUS
<1>1. /\ pc = "off" /\ wsPc = "idle" /\ torn = FALSE /\ ao = {}
      /\ generation = 0 /\ readGen = 0 /\ handGen = 0
  BY DEF Init
<1> QED
  BY <1>1 DEF TakenInv, Numbers, InHand, Interrupting, Current

\* A step that takes no frame on, clears no flag and adds nothing to the output.
LEMMA TakenStays ==
  ASSUME TakenInv, UNCHANGED <<generation, readGen, handGen, wsPc, mutex, torn>>,
         ao' \subseteq ao, flushPending' = flushPending,
         \/ pc' = pc
         \/ pc \in InHand /\ pc' \in InHand
         \/ pc' \notin InHand \cup {"read", "check", "write"}
  PROVE  TakenInv'
BY DEF TakenInv, Numbers, InHand, Interrupting, Current

LEMMA ReleaseShrinks == ReleaseOutput => ao' \subseteq ao
BY DEF ReleaseOutput

LEMMA TakenPlay == ASSUME TakenInv, Onward, PlayThread PROVE TakenInv'
<1>1. CASE FlushRelease \/ FinishRound \/ Exit \/ IdleTimeout
  BY <1>1, TakenStays, ReleaseShrinks
  DEF FlushRelease, FinishRound, Exit, IdleTimeout, At, KeepHand, InHand
<1>2. CASE SeePending \/ AcceptNewRound \/ TestRoundDone \/ StartPendingMusic \/ TestTransport
             \/ AfterFrames
  BY <1>2, TakenStays
  DEF SeePending, AcceptNewRound, TestRoundDone, StartPendingMusic, TestTransport,
      AfterFrames, At, KeepHand, InHand, flags, history
<1>3. CASE FrameFlush \/ FrameDrop \/ InterruptMusic \/ OpenOutput \/ Activate \/ Decode
  BY <1>3, TakenStays
  DEF FrameFlush, FrameDrop, InterruptMusic, OpenOutput, Activate, Decode, At, InHand,
      flags, history
<1>4. CASE LoopHead
  BY <1>4 DEF LoopHead, TakenInv, Numbers, InHand, Interrupting, Current, flags
<1>5. CASE FlushClear
  BY <1>5 DEF FlushClear, At, KeepHand, TakenInv, Numbers, InHand, Interrupting, Current, Onward
<1>6. CASE ReadGeneration
  BY <1>6 DEF ReadGeneration, At, TakenInv, Numbers, InHand, Interrupting, Current, flags, history
<1>7. CASE Read
  BY <1>7 DEF Read, At, TakenInv, Numbers, InHand, Interrupting, Current, flags
<1>8. CASE CheckRead
  BY <1>8 DEF CheckRead, TakenInv, Numbers, InHand, Interrupting, Current, flags, history
<1>9. CASE LockOutput
  BY <1>9 DEF LockOutput, TakenInv, Numbers, InHand, Interrupting, Current, flags, history
<1>10. CASE WriteFrame
  BY <1>10 DEF WriteFrame, At, KeepHand, TakenInv, Numbers, InHand, Interrupting, Current
<1> QED
  BY <1>1, <1>2, <1>3, <1>4, <1>5, <1>6, <1>7, <1>8, <1>9, <1>10 DEF PlayThread

\* The interrupt itself: its flush waits for the mutex, which the thread holds
\* only between its last test and the write.
LEMMA TakenCalls ==
  ASSUME TakenInv, OutputInv,
         WsHandler \/ VadStart \/ MusicServer \/ TtsCompleted
  PROVE  TakenInv'
<1>1. CASE StoreAll
  BY <1>1 DEF StoreAll, WsStep, thread, history, TakenInv, Numbers, InHand, Interrupting, Current
<1>2. CASE InterruptFlush
  <2>1. /\ wsPc = "flush" /\ wsPc' = "transport" /\ mutex = "free" /\ ao' = {}
        /\ UNCHANGED <<generation, readGen, handGen, torn, pc, mutex, flushPending>>
    BY <1>2 DEF InterruptFlush, WsStep, thread, flags, OutputInv, FlushFindsAudio
  <2>2. pc # "write"
    BY <2>1 DEF TakenInv
  <2> QED
    BY <2>1, <2>2 DEF TakenInv, Numbers, InHand, Interrupting, Current
<1>3. CASE VadStart \/ MusicServer \/ TtsCompleted \/ InterruptTransport \/ QueueMusic \/ PlayMusic
  BY <1>3 DEF VadStart, MusicServer, TtsCompleted, InterruptTransport, QueueMusic, PlayMusic,
     WsStep, thread, flags, history, TakenInv, Numbers, InHand, Interrupting, Current
<1>4. CASE StoreFlush \/ StorePlaying \/ StoreDrop \/ StoreGeneration \/ StoreLastAudio
  BY <1>4 DEF StoreFlush, StorePlaying, StoreDrop, StoreGeneration, StoreLastAudio, WsStep,
     thread, history, TakenInv, Numbers, InHand, Interrupting, Current
<1> QED
  BY <1>1, <1>2, <1>3, <1>4 DEF WsHandler

LEMMA TakenStep == ASSUME TakenInv, Onward, OutputInv, [Next]_vars PROVE TakenInv'
<1>1. CASE PlayThread
  BY <1>1, TakenPlay
<1>2. CASE WsHandler \/ VadStart \/ MusicServer \/ TtsCompleted
  BY <1>2, TakenCalls
<1>3. CASE Start
  BY <1>3 DEF Start, TakenInv, Numbers, InHand, Interrupting, Current
<1>4. CASE StopRunning \/ Stopping
  BY <1>4 DEF StopRunning, Stopping, StopFlush, StopPlaying, StopDrop, StopTransport, Stop,
     thread, flags, history, TakenInv, Numbers, InHand, Interrupting, Current
<1>5. CASE External \/ UNCHANGED vars
  BY <1>5, TakenStays DEF External, FrameArrives, TransportEnds, NewRound, MusicEnds,
     NotThreads, vars, thread, flags, history
<1> QED
  BY <1>1, <1>2, <1>3, <1>4, <1>5 DEF Next

\* No frame that the play thread had taken before an interrupt is in the output
\* once the interrupt has returned, unless the thread has answered its flush
\* between the stores of lines 325 and 328.
THEOREM TakenFramesTheorem == Spec => []TakenFramesSilenced
<1>1. Init => OInv /\ TakenInv
  BY OnwardInit, OutputInit, TakenInit DEF OInv
<1>2. OInv /\ TakenInv /\ [Next]_vars => (OInv /\ TakenInv)'
  BY OnwardStep, OutputStep, TakenStep DEF OInv
<1>3. TakenInv => TakenFramesSilenced
  BY DEF TakenInv, TakenFramesSilenced, Interrupting
<1> QED
  BY <1>1, <1>2, <1>3, PTL DEF Spec
=============================================================================

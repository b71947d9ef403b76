---------------------------- MODULE TtsPlayback ----------------------------
(***************************************************************************)
(* src/src/udp_tts.c: the thread that reads the spoken answer from the     *)
(* core library and plays it, and the calls that interrupt or stop it from *)
(* the library's callback thread and the main thread.                      *)
(*                                                                         *)
(* The flags are plain volatile globals; g_tts_playback_mutex guards only  *)
(* the open output.  One step is therefore one access to a shared flag, or *)
(* one critical section.  The music player is present as what the thread   *)
(* sees of it (is it active?), the session as tts_completed and the music  *)
(* it keeps back until the answer has been played.                         *)
(***************************************************************************)
EXTENDS Naturals, Sequences

CONSTANTS
  MaxInterrupts,  \* bound on interrupts
  MaxFrames,      \* bound on the frames the server sends
  MaxSessions,    \* bound on starts of the playback
  SendsMusic,     \* whether the server sends music lists
  AtomicStores    \* the interrupting thread is not preempted between its stores

ASSUME BoundsAssumption ==
  /\ MaxInterrupts \in Nat
  /\ MaxFrames \in Nat
  /\ MaxSessions \in Nat
  /\ SendsMusic \in BOOLEAN
  /\ AtomicStores \in BOOLEAN

VARIABLES
  \* globals of udp_tts.c
  playRunning, flushPending, playing, dropStale, generation, lastAudio,
  active,        \* g_tts_active_playback is set
  mutex,         \* who holds g_tts_playback_mutex: "free", "play"
  \* the play thread
  pc, inner,     \* where it is; inside the inner drain loop
  cont,          \* where it goes on after a flush
  playback,      \* its handle is open
  readGen, hand, \* generation read before the frame, and the frame
  pendingSeen,   \* its copy of has_pending_data
  \* other threads
  wsPc,          \* the callback thread inside zh_udp_tts_interrupt or music_server
  mainPc,        \* the main thread inside zh_udp_tts_stop
  \* external: the core library's transport, the music player, the session
  transport,     \* the transport runs
  net,           \* frames it holds, each with the generation it arrived in
  sent, sessions,
  ttsCompleted, pendingMusic, music,
  \* history
  ao,            \* frames buffered in the output, with the generations they
                 \* arrived and were taken in
  handGen,       \* the generation in which the frame in hand was taken
  torn           \* the thread has answered the last interrupt's flush before
                 \* that interrupt had counted its generation

flags   == <<playRunning, flushPending, playing, dropStale, generation, lastAudio>>
thread  == <<pc, inner, cont, playback, readGen, hand, pendingSeen>>
outside == <<transport, net, sent, sessions>>
session == <<ttsCompleted, pendingMusic, music>>
history == <<ao, handGen, torn>>
vars    == <<flags, active, mutex, thread, wsPc, mainPc, outside, session, history>>

\* What a read returns besides a frame: nothing within the timeout, an error.
NoFrame  == [kind |-> "nothing", arrived |-> 0]
ReadErr  == [kind |-> "error", arrived |-> 0]
Frames   == [kind : {"frame"}, arrived : 0..MaxInterrupts]

HasPending == net # <<>>
IsBusy     == playing \/ HasPending
RoundDone  == ttsCompleted /\ ~playing /\ ~HasPending

Init ==
  /\ playRunning = FALSE /\ flushPending = FALSE /\ playing = FALSE
  /\ dropStale = FALSE /\ generation = 0 /\ lastAudio = FALSE
  /\ active = FALSE /\ mutex = "free"
  /\ pc = "off" /\ inner = FALSE /\ cont = "gen" /\ playback = FALSE
  /\ readGen = 0 /\ hand = NoFrame /\ pendingSeen = FALSE
  /\ wsPc = "idle" /\ mainPc = "down"
  /\ transport = FALSE /\ net = <<>> /\ sent = 0 /\ sessions = 0
  /\ ttsCompleted = FALSE /\ pendingMusic = FALSE /\ music = FALSE
  /\ ao = {} /\ handGen = 0 /\ torn = FALSE
-----------------------------------------------------------------------------
(* The play thread.  At(p, q) is a step from p to q that leaves the other   *)
(* threads' positions alone.                                               *)

At(p, q) == pc = p /\ pc' = q /\ UNCHANGED <<wsPc, mainPc>>

KeepHand == UNCHANGED <<readGen, hand, handGen, torn>>

\* Mutant: the global handle is not cleared.
ReleaseKeepsActive ==
  /\ mutex = "free"
  /\ playback' = FALSE
  /\ ao' = IF playback THEN {} ELSE ao
  /\ lastAudio' = FALSE
  /\ playing' = FALSE
  /\ UNCHANGED active

\* zh_tts_release_playback under the mutex; its two last stores follow it.
ReleaseOutput ==
  /\ mutex = "free"
  /\ active' = (active /\ ~playback)
  /\ playback' = FALSE
  /\ ao' = IF playback THEN {} ELSE ao
  /\ lastAudio' = FALSE
  /\ playing' = FALSE

\* The head of the outer and of the inner loop; the locals of the last turn
\* are gone.
LoopHead ==
  /\ pc = "loop"
  /\ pc' = IF ~playRunning THEN (IF inner THEN "after" ELSE "exit")
           ELSE IF flushPending THEN "release" ELSE "gen"
  /\ cont' = IF inner THEN "after" ELSE "gen"
  /\ readGen' = 0 /\ hand' = NoFrame /\ handGen' = 0 /\ pendingSeen' = FALSE
  /\ UNCHANGED <<flags, active, mutex, inner, playback, wsPc, mainPc, outside, session,
                 ao, torn>>

\* The thread answers a pending flush: release the output, ...
FlushRelease ==
  /\ At("release", "clear")
  /\ ReleaseOutput
  /\ UNCHANGED <<playRunning, flushPending, dropStale, generation, mutex, inner, cont,
                 pendingSeen, outside, session>>
  /\ KeepHand

\* ... reset the decoder and clear the flag.
FlushClear ==
  /\ At("clear", cont)
  /\ flushPending' = FALSE
  /\ inner' = FALSE
  /\ torn' = (torn \/ wsPc \in {"store2", "store3", "store4"})
  /\ UNCHANGED <<playRunning, playing, dropStale, generation, lastAudio, active, mutex, cont,
                 playback, readGen, hand, pendingSeen, outside, session, ao, handGen>>

ReadGeneration ==
  /\ At("gen", "read")
  /\ readGen' = generation
  /\ UNCHANGED <<flags, active, mutex, inner, cont, playback, hand, pendingSeen,
                 outside, session, history>>

\* zh_core_tts_read_opus: the next frame, nothing, or an error.
Read ==
  /\ At("read", "check")
  /\ \/ /\ net # <<>>
        /\ hand' = Head(net)
        /\ net' = Tail(net)
     \/ /\ net = <<>>
        /\ hand' \in {NoFrame, ReadErr}
        /\ UNCHANGED net
  /\ handGen' = generation
  /\ UNCHANGED <<flags, active, mutex, inner, cont, playback, readGen, pendingSeen,
                 transport, sent, sessions, session, ao, torn>>

\* What was read is ignored after a stop or an interrupt.
CheckRead ==
  /\ pc = "check"
  /\ pc' = IF ~inner /\ ~playRunning THEN "exit"
           ELSE IF readGen # generation THEN "loop"
           ELSE IF hand \in Frames THEN (IF inner THEN "drop" ELSE "flush")
           ELSE IF inner THEN "after"
           ELSE IF hand = NoFrame THEN "pending" ELSE "loop"
  /\ UNCHANGED <<flags, active, mutex, inner, cont, playback, readGen, hand, pendingSeen,
                 wsPc, mainPc, outside, session, history>>

(* Nothing arrived within the timeout.                                     *)
SeePending ==
  /\ At("pending", "accept")
  /\ pendingSeen' = HasPending
  /\ UNCHANGED <<flags, active, mutex, inner, cont, playback, outside, session, ao>>
  /\ KeepHand

\* Mutant: the end of the drain is not noticed.
AcceptNever ==
  /\ At("accept", "timeout")
  /\ UNCHANGED <<flags, active, mutex, inner, cont, playback, pendingSeen, outside,
                 session, ao>>
  /\ KeepHand

\* "interrupt drain finished, accept new round audio"
AcceptNewRound ==
  /\ At("accept", "timeout")
  /\ dropStale' = (dropStale /\ pendingSeen)
  /\ UNCHANGED <<playRunning, flushPending, playing, generation, lastAudio, active, mutex,
                 inner, cont, playback, pendingSeen, outside, session, ao>>
  /\ KeepHand

\* Mutant: no idle timeout.
IdleForever ==
  /\ At("timeout", "round")
  /\ UNCHANGED <<flags, active, mutex, inner, cont, playback, pendingSeen, outside,
                 session, ao>>
  /\ KeepHand

\* The output is released after ZH_TTS_IDLE_TIMEOUT_MS without audio; whether
\* that much time has passed is left open.
IdleTimeout ==
  /\ At("timeout", "round")
  /\ \/ /\ playback /\ ~pendingSeen /\ lastAudio
        /\ ReleaseOutput
     \/ UNCHANGED <<playing, lastAudio, active, playback, ao>>
  /\ UNCHANGED <<playRunning, flushPending, dropStale, generation, mutex, inner, cont,
                 pendingSeen, outside, session>>
  /\ KeepHand

\* With the round done the music kept back is due (at 174 and at 251).
TestRoundDone ==
  /\ pc \in {"round", "round2"}
  /\ pc' = IF RoundDone THEN (IF pc = "round" THEN "music" ELSE "music2")
           ELSE IF pc = "round" THEN "running" ELSE "loop"
  /\ UNCHANGED <<flags, active, mutex, inner, cont, playback, readGen, hand, pendingSeen,
                 wsPc, mainPc, outside, session, history>>

\* Mutant: the list is put back when no list plays.
StartNoMusic ==
  /\ pc \in {"music", "music2"}
  /\ pc' = IF pc = "music" THEN "running" ELSE "loop"
  /\ UNCHANGED <<flags, active, mutex, inner, cont, playback, readGen, hand, pendingSeen,
                 wsPc, mainPc, outside, session, history>>

\* zh_core_ws_on_tts_round_done: take the list from the session and play it.
StartPendingMusic ==
  /\ pc \in {"music", "music2"}
  /\ pc' = IF pc = "music" THEN "running" ELSE "loop"
  /\ music' = (music \/ pendingMusic)
  /\ pendingMusic' = FALSE
  /\ UNCHANGED <<flags, active, mutex, inner, cont, playback, readGen, hand, pendingSeen,
                 wsPc, mainPc, outside, ttsCompleted, history>>

TestTransport ==
  /\ pc = "running"
  /\ pc' = IF ~transport /\ ~pendingSeen THEN "exit" ELSE "loop"
  /\ UNCHANGED <<flags, active, mutex, inner, cont, playback, readGen, hand, pendingSeen,
                 wsPc, mainPc, outside, session, history>>

(* A frame is in hand.                                                     *)
FrameFlush ==
  /\ pc = "flush"
  /\ pc' = IF flushPending THEN "release" ELSE "drop"
  /\ cont' = "loop"
  /\ UNCHANGED <<flags, active, mutex, inner, playback, readGen, hand, pendingSeen,
                 wsPc, mainPc, outside, session, history>>

FrameDrop ==
  /\ pc = "drop"
  /\ pc' = IF dropStale THEN "loop" ELSE IF inner THEN "decode" ELSE "yield"
  /\ UNCHANGED <<flags, active, mutex, inner, cont, playback, readGen, hand, pendingSeen,
                 wsPc, mainPc, outside, session, history>>

\* Music gives way to the answer; then the output is opened if it is not.
InterruptMusic ==
  /\ At("yield", IF playback THEN "decode" ELSE "open")
  /\ music' = FALSE
  /\ UNCHANGED <<flags, active, mutex, inner, cont, playback, readGen, hand, pendingSeen,
                 outside, ttsCompleted, pendingMusic, history>>

OpenOutput ==
  /\ pc = "open"
  /\ \/ playback' = TRUE /\ pc' = "activate"
     \/ pc' = "loop" /\ UNCHANGED playback
  /\ UNCHANGED <<flags, active, mutex, inner, cont, readGen, hand, pendingSeen,
                 wsPc, mainPc, outside, session, history>>

Activate ==
  /\ At("activate", "decode")
  /\ mutex = "free"
  /\ active' = TRUE
  /\ UNCHANGED <<flags, mutex, inner, cont, playback, readGen, hand, pendingSeen,
                 outside, session, history>>

\* zh_tts_process_opus tests the flags, decodes, and tests them again.
Decode ==
  /\ pc = "decode"
  /\ \/ ~flushPending /\ playRunning /\ pc' = "lock" /\ UNCHANGED inner
     \/ pc' = "loop" /\ inner' = TRUE     \* also a frame that does not decode
  /\ UNCHANGED <<flags, active, mutex, cont, playback, readGen, hand, pendingSeen,
                 wsPc, mainPc, outside, session, history>>

\* Mutant: the flags are not tested again under the mutex.
LockWithoutTest ==
  /\ pc = "lock" /\ mutex = "free"
  /\ pc' = "write" /\ mutex' = "play"
  /\ UNCHANGED <<flags, active, inner, cont, playback, readGen, hand, pendingSeen,
                 wsPc, mainPc, outside, session, history>>

\* Under the mutex: the last test, then the write.
LockOutput ==
  /\ pc = "lock" /\ mutex = "free"
  /\ IF active /\ ~flushPending /\ playRunning
     THEN pc' = "write" /\ mutex' = "play" /\ UNCHANGED inner
     ELSE pc' = "loop" /\ inner' = TRUE /\ UNCHANGED mutex
  /\ UNCHANGED <<flags, active, cont, playback, readGen, hand, pendingSeen,
                 wsPc, mainPc, outside, session, history>>

\* Mutant: the mutex is not released after the write.
WriteKeepsMutex ==
  /\ At("write", "loop")
  /\ inner' = TRUE /\ playing' = TRUE /\ lastAudio' = TRUE
  /\ ao' = ao \cup {[arrived |-> hand.arrived, taken |-> handGen]}
  /\ UNCHANGED <<playRunning, flushPending, dropStale, generation, active, mutex, cont,
                 playback, pendingSeen, outside, session>>
  /\ KeepHand

WriteFrame ==
  /\ At("write", "loop")
  /\ inner' = TRUE
  /\ playing' = TRUE
  /\ lastAudio' = TRUE
  /\ mutex' = "free"
  /\ ao' = ao \cup {[arrived |-> hand.arrived, taken |-> handGen]}
  /\ UNCHANGED <<playRunning, flushPending, dropStale, generation, active, cont, playback,
                 pendingSeen, outside, session>>
  /\ KeepHand

\* The inner loop has ended: release the output if the round is over.
AfterFrames ==
  /\ At("after", IF playback /\ ttsCompleted /\ ~HasPending THEN "finish" ELSE "loop")
  /\ inner' = FALSE
  /\ UNCHANGED <<flags, active, mutex, cont, playback, pendingSeen, outside, session,
                 ao>>
  /\ KeepHand

FinishRound ==
  /\ At("finish", "round2")
  /\ ReleaseOutput
  /\ UNCHANGED <<playRunning, flushPending, dropStale, generation, mutex, inner, cont,
                 pendingSeen, outside, session>>
  /\ KeepHand

Exit ==
  /\ At("exit", "off")
  /\ ReleaseOutput
  /\ playRunning' = FALSE
  /\ UNCHANGED <<flushPending, dropStale, generation, mutex, inner, cont, pendingSeen,
                 outside, session>>
  /\ KeepHand

PlayThread ==
  \/ LoopHead \/ FlushRelease \/ FlushClear \/ ReadGeneration \/ Read \/ CheckRead
  \/ SeePending \/ AcceptNewRound \/ IdleTimeout \/ TestRoundDone \/ StartPendingMusic
  \/ TestTransport \/ FrameFlush \/ FrameDrop \/ InterruptMusic \/ OpenOutput \/ Activate
  \/ Decode \/ LockOutput \/ WriteFrame \/ AfterFrames \/ FinishRound \/ Exit
-----------------------------------------------------------------------------
(* The callback thread of the core library.                                *)

WsStep(p, q) == wsPc = p /\ wsPc' = q /\ UNCHANGED <<thread, mutex, mainPc>>

\* First VAD_START of a round: the session forgets the old answer, then
\* zh_udp_tts_interrupt runs.
VadStart ==
  /\ WsStep("idle", IF AtomicStores THEN "stores" ELSE "store1")
  /\ generation < MaxInterrupts
  /\ ttsCompleted' = FALSE
  /\ torn' = FALSE
  /\ UNCHANGED <<flags, active, outside, pendingMusic, music, ao, handGen>>

\* The stores of zh_udp_tts_interrupt, one by one or (AtomicStores) at once.
StoreFlush ==
  /\ WsStep("store1", "store2")
  /\ flushPending' = TRUE
  /\ UNCHANGED <<playRunning, playing, dropStale, generation, lastAudio, active,
                 outside, session, history>>

StorePlaying ==
  /\ WsStep("store2", "store3")
  /\ playing' = FALSE
  /\ UNCHANGED <<playRunning, flushPending, dropStale, generation, lastAudio, active,
                 outside, session, history>>

StoreDrop ==
  /\ WsStep("store3", "store4")
  /\ dropStale' = TRUE
  /\ UNCHANGED <<playRunning, flushPending, playing, generation, lastAudio, active,
                 outside, session, history>>

StoreGeneration ==
  /\ WsStep("store4", "store5")
  /\ generation' = generation + 1
  /\ UNCHANGED <<playRunning, flushPending, playing, dropStale, lastAudio, active,
                 outside, session, history>>

StoreLastAudio ==
  /\ WsStep("store5", "flush")
  /\ lastAudio' = FALSE
  /\ UNCHANGED <<playRunning, flushPending, playing, dropStale, generation, active,
                 outside, session, history>>

StoreAll ==
  /\ WsStep("stores", "flush")
  /\ flushPending' = TRUE
  /\ playing' = FALSE
  /\ dropStale' = TRUE
  /\ generation' = generation + 1
  /\ lastAudio' = FALSE
  /\ UNCHANGED <<playRunning, active, outside, session, history>>

InterruptFlush ==
  /\ WsStep("flush", "transport")
  /\ mutex = "free"
  /\ ao' = IF active THEN {} ELSE ao
  /\ UNCHANGED <<flags, active, outside, session, handGen, torn>>

\* bithion_core_tts_interrupt (external) may drop what the transport holds.
InterruptTransport ==
  /\ WsStep("transport", "idle")
  /\ net' \in {net, <<>>}
  /\ UNCHANGED <<flags, active, transport, sent, sessions, session, history>>

\* music_server: the list is kept back while the answer is busy ...
MusicServer ==
  /\ SendsMusic
  /\ WsStep("idle", IF IsBusy THEN "queue" ELSE "play")
  /\ UNCHANGED <<flags, active, outside, session, history>>

\* ... and stored or played after that test.
QueueMusic ==
  /\ WsStep("queue", "idle")
  /\ pendingMusic' = TRUE
  /\ UNCHANGED <<flags, active, outside, ttsCompleted, music, history>>

PlayMusic ==
  /\ WsStep("play", "idle")
  /\ music' = TRUE
  /\ UNCHANGED <<flags, active, outside, ttsCompleted, pendingMusic, history>>

TtsCompleted ==
  /\ WsStep("idle", "idle")
  /\ ttsCompleted' = TRUE
  /\ UNCHANGED <<flags, active, outside, pendingMusic, music, history>>

WsHandler ==
  \/ StoreFlush \/ StorePlaying \/ StoreDrop \/ StoreGeneration \/ StoreLastAudio
  \/ StoreAll \/ InterruptFlush \/ InterruptTransport \/ QueueMusic \/ PlayMusic
-----------------------------------------------------------------------------
(* The main thread: zh_udp_tts_start after a fresh connection, and          *)
(* zh_udp_tts_stop.  The app starts again three seconds after a stop, long  *)
(* after the thread has seen it: a start finds the thread gone.             *)

Start ==
  /\ mainPc = "down" /\ pc = "off" /\ wsPc = "idle"
  /\ sessions < MaxSessions
  /\ sessions' = sessions + 1
  /\ mainPc' = "up"
  /\ ttsCompleted' = FALSE /\ pendingMusic' = FALSE
  /\ net' = <<>>
  /\ flushPending' = FALSE /\ playing' = FALSE /\ dropStale' = FALSE
  /\ generation' = 0 /\ lastAudio' = FALSE
  /\ handGen' = 0
  /\ \/ /\ playRunning' = TRUE      \* the thread is created
        /\ pc' = "loop" /\ inner' = FALSE
        /\ transport' = TRUE
     \/ /\ playRunning' = FALSE     \* no thread, or no transport
        /\ transport' = FALSE
        /\ UNCHANGED <<pc, inner>>
  /\ UNCHANGED <<active, mutex, cont, playback, readGen, hand, pendingSeen, wsPc,
                 sent, music, ao, torn>>

Stop(p, q) == mainPc = p /\ mainPc' = q
              /\ UNCHANGED <<active, mutex, thread, wsPc, sent, sessions, session, history>>

StopRunning ==
  /\ Stop("up", "stop2")
  /\ playRunning' = FALSE
  /\ UNCHANGED <<flushPending, playing, dropStale, generation, lastAudio, transport, net>>

StopFlush ==
  /\ Stop("stop2", "stop3")
  /\ flushPending' = TRUE
  /\ UNCHANGED <<playRunning, playing, dropStale, generation, lastAudio, transport, net>>

StopPlaying ==
  /\ Stop("stop3", "stop4")
  /\ playing' = FALSE
  /\ UNCHANGED <<playRunning, flushPending, dropStale, generation, lastAudio, transport, net>>

StopDrop ==
  /\ Stop("stop4", "stop5")
  /\ dropStale' = FALSE
  /\ UNCHANGED <<playRunning, flushPending, playing, generation, lastAudio, transport, net>>

StopTransport ==
  /\ Stop("stop5", "down")
  /\ transport' = FALSE
  /\ net' = <<>>
  /\ UNCHANGED flags

Stopping == StopFlush \/ StopPlaying \/ StopDrop \/ StopTransport
-----------------------------------------------------------------------------
(* External events.                                                        *)

NotThreads == UNCHANGED <<flags, active, mutex, thread, wsPc, mainPc, history>>

FrameArrives ==
  /\ transport /\ sent < MaxFrames
  /\ sent' = sent + 1
  /\ net' = Append(net, [kind |-> "frame", arrived |-> generation])
  /\ NotThreads
  /\ UNCHANGED <<transport, sessions, session>>

TransportEnds ==
  /\ transport
  /\ transport' = FALSE
  /\ NotThreads
  /\ UNCHANGED <<net, sent, sessions, session>>

\* Another thread begins a round (START sent, local VAD active).
NewRound ==
  /\ ttsCompleted
  /\ ttsCompleted' = FALSE
  /\ NotThreads
  /\ UNCHANGED <<outside, pendingMusic, music>>

MusicEnds ==
  /\ music
  /\ music' = FALSE
  /\ NotThreads
  /\ UNCHANGED <<outside, ttsCompleted, pendingMusic>>

External == FrameArrives \/ TransportEnds \/ NewRound \/ MusicEnds

Next == \/ PlayThread \/ WsHandler \/ VadStart \/ MusicServer \/ TtsCompleted
        \/ Start \/ StopRunning \/ Stopping \/ External

Spec == Init /\ [][Next]_vars

\* Every thread that can run is scheduled; reads do not fail for ever; time
\* passes, so an output without audio is at last released.
Fairness ==
  /\ WF_vars(PlayThread)
  /\ WF_vars(WsHandler)
  /\ WF_vars(Stopping)
  /\ SF_vars(Read /\ hand' = NoFrame)
  /\ SF_vars(IdleTimeout /\ ~playback')

LiveSpec == Spec /\ Fairness
-----------------------------------------------------------------------------
(* Properties.                                                             *)

\* Whenever it comes, between any two steps of the play thread, an interrupt
\* finds what it has to silence: the handle it flushes has not been closed by
\* the play thread, and no audio is buffered behind a handle it cannot see
\* (g_playback_active against the thread's own playback, lines 32-49, 92-114,
\* 333-337).
FlushFindsAudio == /\ active => playback
                   /\ ao # {} => active

\* Once an interrupt has returned, no frame the thread had taken before it is in
\* the output any more, wherever in its loop the thread was: with one exception.
\* A thread that answers the pending flush while the interrupt is still between
\* line 325 and line 328 may take one more frame with the old generation.
TakenFramesSilenced ==
  wsPc = "idle" /\ ~torn => \A f \in ao : f.taken >= generation

\* "Interrupt the current TTS playback at once and clear the buffers": nor is
\* a frame the transport held before it.
InterruptSilences == wsPc = "idle" => \A f \in ao : f.arrived >= generation

\* Once told to stop, the thread ends.
StopEndsThread == ~playRunning ~> pc = "off"

\* "Clear the playing state ... so that it is not stuck in playing": when no
\* more frames come the player stops claiming that it plays.
PlayingEnds == playing ~> ~playing

\* After an interrupt the thread at last accepts audio again.
AcceptsAudioAgain == dropStale /\ pc # "off" ~> ~dropStale \/ pc = "off"

\* Music kept back during an answer starts (or is dropped) once the round
\* stays completed.
PendingMusicStarts ==
  <>[](ttsCompleted /\ playRunning) => [](pendingMusic => <>~pendingMusic)
=============================================================================

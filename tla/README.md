# Specifications of the RV1106 voice agent

TLA+ specifications, TLC instances and TLAPS proofs for the voice client in
`src/src`, its headers in `src/include`, the BLE provisioning server in
`src/ble_sdk` and the scripts in `src/scripts`.

## The system

A process on an RV1106 board talks to a voice server. It records the user,
cuts the recording into segments with a VAD, uploads them, plays the spoken
answer and music, recognises faces with an external engine, and falls back to
BLE provisioning when there is no WiFi.

| Part | Code | State it keeps | Operations and threads |
|---|---|---|---|
| Music player | `music_player.c` | two linked lists `head`/`pending`, `playing`, `token`, `stop` under one mutex | a worker thread; start, stop, play_urls, interrupt, is_active from any thread |
| Prompt tones | `prompt_tone.c` | initialised flag, time of the last "disconnected" tone | a tone replaces the music list |
| TTS playback | `udp_tts.c` | volatile flags `play_running`, `flush_pending`, `playing`, `drop_stale_pending`, an interrupt counter, the open output | a play thread; start, stop, wait, interrupt, queries |
| Audio output | `audio_playback_rockit.c` | one device, one channel, soft-flush flag | open, write, drain, flush, close; shared by music and TTS |
| WS session | `bithion_core_compat.c` | round flags (STT done, TTS done, VAD started), connection flags, pending music, two vision replies | callbacks of the core library; queries and waits of every other thread |
| Audio uplink | `audio_uplink.c` | gate, VAD, preroll ring, segment state | a capture thread; set_ws |
| Face recognition | `face_recognition.c` | engine process and socket, active flag, stored face, name cache, embedding files, JSON index | a compare thread and a capture thread; the enrolment on the thread that delivers messages |
| Startup and runs | `app.c`, `wifi_bootstrap.c`, `ble_provision.c` | retry flag, the session's life cycle, the WiFi configuration | main thread; `scripts/self_start/start_zh_client.sh` restarts it, `scripts/ble/start_ble_provision.sh` runs the BLE service |
| BLE WiFi service | `ble_sdk/btgatt-server.c` | receive buffer, subscription, list phase, the flags that end it; the WiFi configuration | a process of its own: GATT write handlers and disconnection on one main loop |

The parts meet in four places. The core library's callbacks (`WS text`, event,
VAD, TTS round) run on its own threads and change the session under its mutex,
then call into the player and the TTS thread. The TTS thread interrupts music
before it opens the output, and at the end of a round starts the music the
session kept back. The uplink thread reads the session's STT flag to end a
segment. The face thread waits on the session for replies of the server.

### What is hard here

* Two audio threads share one output device and hand it over with flags that
  are read without a lock.
* An interrupt changes several plain globals while the play thread is between
  a test and the action the test was for.
* A round's replies (STT done, TTS done, VAD start) may arrive after the next
  round has begun; nothing in them says which round they belong to.
* A reconnect replaces the session's state in place while threads of the old
  connection still run.
* The preroll ring is emptied into the upload while it keeps being written.
* The face engine is a process that may die at any point of a command, and
  three threads send commands on one connection.
* The index of the enrolled faces is rewritten in place and read without a lock;
  files, index and cache must agree after a crash, too.
* A phone's commands arrive in pieces, damaged or not, and wait while the handler
  of another holds the main loop for seconds.
* Client, script, BLE service, network and power may each fail at any step of the
  boot, and each failure leads to somebody's retry.

### What makes each part correct

* Music player: lists play in order and only a call drops or replaces a track;
  no call is slept through; what was aborted falls silent; an idle player says
  so.
* TTS playback: an interrupt leaves no old frame in the output; audio is
  accepted again afterwards; "playing" does not stick; music kept back during
  an answer starts after it.
* Audio uplink: every frame of an utterance reaches the server once and in
  order, the preroll first; nothing is sent outside a segment; the round's end
  is seen once; faces are followed exactly while somebody speaks.
* WS session: an answer of the server changes the round it belongs to.
* Picture upload: every wait ends; a picture counts only with its own verdict;
  the camera wakes up for speech and for its own stop.
* Face engine: a command reads its own answer; an engine that dies is replaced.
* Enrolment: a person is called only by a name given to that person's face; who
  is in the index is recognised; an enrolment changes one name, at once.
* Startup: whatever fails, the client runs or a phone can connect; a phone that
  has provisioned the device leaves it running.
* BLE service: commands are handled in order and once, damage costs a bounded
  number of them; each is answered; a success is told only when there was one.

## Modules

| Module | Models | Checked and proved in |
|---|---|---|
| `MusicPlayer` | `music_player.c` | `MCMusicPlayer`, `MusicPlayer_proofs` |
| `Playlist` | what the player promises its callers | `ImplementsPlaylist` of `MusicPlayer` |
| `TtsPlayback` | `udp_tts.c` and the session's part in a round of TTS | `MCTtsPlayback`, `TtsPlayback_proofs` |
| `AudioUplink` | `audio_uplink.c`, the flags of the round in `bithion_core_compat.c`, the session's hand-over in `app.c` | `MCAudioUplink`, `AudioUplink_proofs` |
| `VisionUpload` | the capture thread of `face_recognition.c`, the vision slots of `bithion_core_compat.c`, `zh_run_session` and `zh_app_run` | `MCVisionUpload`, `VisionUpload_proofs` |
| `FaceEngine` | the engine process of `face_recognition.c`, its socket, the compare thread and the other two threads' commands | `MCFaceEngine`, `FaceEngine_proofs` |
| `FaceEnroll` | the enrolment, the index, the name cache and the naming of compared faces in `face_recognition.c` | `MCFaceEnroll`, `FaceEnroll_proofs` |
| `FaceDirectory` | what the enrolment promises | `ImplementsDirectory` of `FaceEnroll` |
| `WifiFrames` | the receive buffer of `btgatt-server.c` | `MCWifiFrames`, `WifiFrames_proofs` |
| `FrameQueue` | what the WiFi characteristic owes a phone | `ImplementsFrameQueue` of `WifiFrames` |
| `WifiProvision` | the commands, the joins and the end of `btgatt-server.c`; extended by `Startup` | `MCStartup`, `Startup_proofs` |
| `Startup` | `zh_app_start`, `wifi_bootstrap.c`, `ble_provision.c` and the two scripts, composed with the service of `WifiProvision` | `MCStartup`, `Startup_proofs` |

`PROJECT.json` gives for every definition that translates code the file and the
lines it stands for.  A definition whose comment begins with "Mutant" is a
deliberately broken variant of the one that follows it; it belongs to no
specification and serves to show that a property can fail.

### How state and steps correspond to the code

**MusicPlayer.**  `head`, `pending`, `playing`, `token`, `running` and `stop`
are the fields of `g_music`; `streamRunning` is `g_music_stream_running`.  Every
call of `music_player.h` holds `g_music.mutex` from start to end and is one
action.  The worker's program counter `pc` names the points between its critical
sections, its tests of `zh_music_should_abort` and its calls to the output.  A
frame of audio is a step, its samples are not modelled; the output is closed,
open and empty, or open with audio queued.  The two tests of line 506 and of
304 or 434 have no effect between them and are one step, because an abort once
seen stays.  `sawAbort`, `staleWrites` and `heardStale` are history.

**Playlist.**  A list, the track being played, an epoch: callers replace or
clear the list, the player takes the first entry, a track ends.  The refinement
maps `head \o pending` to the list and an aborted track to no track.

**TtsPlayback.**  The flags of `udp_tts.c` are plain globals, so every store of
`zh_udp_tts_interrupt` and `zh_udp_tts_stop` and every load of the play thread
is a step of its own; `g_tts_playback_mutex` protects the open output only.
`AtomicStores` = TRUE lets the interrupting thread run its stores without being
preempted, which separates what is wrong in any case from what is wrong only
under preemption.  A frame carries the interrupt generation in which it arrived
and the one in which it was taken: the properties compare them.  `torn` is history,
too: the thread has answered an interrupt's flush before that interrupt had counted
its generation.  `lastAudio` is `g_tts_last_audio_ms # 0`; the idle timeout may fire
whenever the code allows it.

**AudioUplink.**  One turn of the loop of `zh_audio_uplink_thread_main`, cut at
the reads of `g_uplink_ws`, of the session's flags and at each message; all
between two cuts is local to the thread.  A frame is its number, so order and
loss can be stated; only the gate sees samples, in a width (`SampleMax`) that
keeps the asymmetry of two's complement.  `faulty` is chosen at the start: a
behaviour without faults is one in which the session holds and every message is
sent, and the properties that need it say so.  The session's callback thread cuts in
with the START that music_play_pre sends (`MusicStart`) and, as a step of its own,
with the reset of the round's flags (`MusicResetsRound`); `preSent` says that it is
between the two.  `quiet`, `segment`, `open`, `lowRun`, `loud`, `cut` (another thread
has ended the thread's segment) and `sttRound` are history and the server's side.

**VisionUpload.**  One step is one critical section of the session mutex or of
`g_face_mutex`, one unlocked read of `g_face_ws`, or one message.  The main
thread is `zh_app_run` and `zh_run_session` down to the calls that touch the
session or face recognition.  `EventNotify` is the core's event callback, which may
end the waits of a session at any time; `should_stop` is cleared by the next
connection only.  The guard of `RetryPause` stands for time: the
reconnect pause is 3000 ms, the two waits look at `should_stop` every 200 ms, so
a wait has seen the old session's end before the next session clears the flag.

**FaceEngine.**  `pc[p]` is where thread `p` is in a command: waiting for
`g_face_engine_mutex`, looking for the process, connecting, reading the greeting,
sending, reading the line, reading the bytes.  `task` and `result` are the command
and what it returned, until the caller has looked at it.  `engine` is "none" when
`g_face_engine_pid` is -1, so "dead" is a process that has ended and whose pid is
still kept.  The socket is two sequences: `requests` the engine has not answered
and `stream` nobody has read.  The bytes of a picture are one message that may
hold an end of line.  `outOfStep` (a refused picture's bytes are still in the
socket) and `stranded` are history.  What the threads do with an answer is in
`VisionUpload` and `FaceEnroll`.

**FaceEnroll.**  `agent` is `zh_face_enroll_on_owner` on its way: "emb" before the
embedding file is written, "open" before the index is read and truncated, "write"
while its text goes out, "cache" before the cache gets the new name.  `index` is the
file as another thread finds it: stdio may write out any full buffer, so during the
rewriting it holds some of the entries in order (`FlushIndex`), and all of them
after the close.  `reader[r]` is the loop over the files the engine found alike:
`todo` the files not yet looked up, `best` the name so far.  A lookup takes the
length of the index and reads as many bytes in two steps (`Measure`, `FetchIndex`).
The cache is the ring of `g_face_cache` with its write position.

Three kinds of faults are in the model, because the code does not notice them.  The
embedding is smaller than a stdio buffer and goes out in an unchecked `fclose`, so
on a full flash its file may stay empty (`WriteEmb`), and the index incomplete
(`FlashFull`).  An enrolment that cannot read the index, or has no memory for it, goes
on without the entries it did not get (`OpenIndex`).  Nothing is synchronised, so a
power cut may take the index back to any of the `versions` since the power came
on, whole or truncated, and empty any of the embeddings `unsaved` since (`PowerCut`).
An embedding that is stored in part counts as empty: the engine takes it for nobody.

An id is the wall clock in milliseconds; that no two enrolments get the same one, and
that the entries are in the order of their ids, is assumed (two `face_owner` messages
within a millisecond, or a clock set back to the same millisecond, would break it).
An index longer than one stdio buffer is read in several pieces, between which it
could be rewritten; the model reads it in one.  `given`, `shown` and `crossed` are
history.

**WifiFrames.**  `buf` is `wifi_rx_buf[0 .. wifi_rx_len)`, a cell for one byte or
for the two bytes of length, command or checksum.  `wifi_process_frames` is a loop
whose turns are `NeedMore`, `SkipByte`, `ClearOversized`, `DropBad` and
`HandleFrame`, one for each way through its body; `parsing` says that it runs, and
`wifi_write_cb` runs only when it does not, since both are on the main loop.  The
phone's `SendFrame` and `SendDamaged` put frames on the air, which `Write` delivers
in pieces of any length.  The checksum is taken to be perfect.

**WifiProvision.**  The handlers run on the main loop and hold it, with sleeps and
shell commands, for up to half a minute: `at` is where, and `Dispatch`,
`SendNotification` and `NoticeLeave` need `at = "loop"`.  Each step of a handler is
one change of what others can see: the configuration is truncated (`OpenConf`) and
filled (`FillConf`), the supplicant killed and started, a status queued.  Neither
the write nor the close of the configuration is checked: on a full flash it stays
torn and the join goes on with it.
`waitLeave` and `done` are `g_wait_disconnect_after_success` and
`g_provision_done`.  A command is one of a set of messages; the frames it comes in
are in `WifiFrames`.

**Startup.**  `app` is where `zh_app_start` is; its flag `force_ble_retry` is the
difference between going back to "enter" and to "check".  `script` is
`start_ble_provision.sh`, which outlives the client that forked it ("orphan").
Service and client share `conf`, `wpa` and `online`, the configuration file, the
supplicant and the link.  `fresh` says that the file was written since the power came
on: it was not synchronised, and a power cut leaves it as it is, torn, or with anything
it may have held before.

Simplifications of the last two: the three copies of the success status are one;
the script kills an old service at once, and the client does not die in the seconds
in which the script sets the adapter up; the three ways of starting the supplicant
are one step that succeeds or fails; looking at the link ten or twenty times is a
wait that ends when the link is up, or times out while it is not; an address
and COMPLETED come and go together; tones are left out.

## Runs

| Run | Question | Bounds |
|---|---|---|
| `music_player` | lost wakeups, stale audio, refinement of `Playlist`, every track is played, an aborted one given up, only a list without a name marks an idle player active | 4 calls that replace or interrupt, any number of stops; lists of several tracks, of one, of none but an empty name, and one whose first entry is dropped; sources that may not end |
| `tts_safety` | the interrupt's flush finds what there is to flush, frames already taken are silenced, store by store | 2 interrupts, 2 frames |
| `tts_progress` | stop ends, playing ends, audio is accepted again, music kept back starts; stores not preempted | 1 interrupt, 1 frame, music lists |
| `tts_stale_audio` (violation) | an old frame survives the interrupt | 1 interrupt, 1 frame |
| `uplink` | preroll, order and completeness of segments, nothing outside a segment, the gate against its definition | ring of 2, 5 frames, hold of 2, 2 rounds and one more that may be music's; with and without faults |
| `vision_upload` | wakeups, verdicts, waits and stops, with verdicts that come late | 3 pictures, 3 sessions |
| `face_engine` | answers and their commands, the open connection, every command returns, an engine that dies in use is replaced | the engine dies once, at any point; 2 messages on a connection with a refused picture |
| `face_engine_lost` (violation) | an engine that dies before it is connected | the engine dies once |
| `face_enroll` | names and faces, known owners, refinement of `FaceDirectory` | 2 people, 2 names, 2 readers, 2 enrolments, a cache of 2, 1 fault (power cut, full flash or failed read) |
| `wifi_frames` | room in the buffer, resynchronisation, refinement of `FrameQueue`, every frame is handled | a buffer of 14 cells, writes of up to 5, 4 sound frames and 1 damaged one |
| `wifi_startup` | success is real, each command is answered, the boot never hangs, a provisioned device starts | 3 writes, 2 faults, full flash and power cut among them, a good and a bad pair of credentials |
| `startup_known` (violation) | a known network is used | 1 write, 1 fault |

### Why the bounds are enough

* *Calls of the player.*  The hazards need a track in play, a call that aborts
  it and a call between the worker's two critical sections: three calls.  The
  theorems hold for every number.
* *Interrupts and frames of TTS.*  One interrupt suffices for each of the
  races; the second lets an interrupt meet the state the first has left.  Of
  two frames one can be in the output, or in the thread's hand, while the other
  is still in the transport.
* *Preroll.*  A ring of two with five frames wraps, is frozen in the middle, is
  reset and is filled again.
* *Rounds.*  The flags carry no round, so two rounds show everything a third one
  could: an answer is for the current round or for an older one.
* *Pictures and sessions.*  Two pictures suffice for a verdict about the wrong
  one, two sessions for an answer that outlives its connection; the run has three of
  each, and the theorems hold for every number.
* *The face engine.*  One death hits any of the points of a command; three threads
  are all there are.  The theorems hold for every number of deaths.  `MaxBacklog`
  bounds what may pile up after a refused picture only.
* *Enrolments.*  A second enrolment meets the first one's file, entry and cache slot,
  under the same name or another.  With three the run takes minutes and finds
  no error either.  One fault reaches every step it can hit; the theorems hold for
  every number of enrolments and faults.
* *Frames.*  A frame without text is six cells, so the buffer holds two of them and
  a part of a third; the longest frame a phone may send is cut into at least two
  writes; `ResyncIsBounded` bounds the loss by two frames here, so it needs a third
  sound one behind the damaged one.  The theorems hold for every size.
* *Writes and faults.*  Subscribing and raising the MTU take two writes, the command
  is the third, so that a status can be delivered; the second fault lets something
  fail while the first one is being recovered from.  `startup_known` needs no more
  than one fault.

### Fairness

* Threads that can run are scheduled (weak fairness of each thread as a whole).
  That is what the Linux scheduler gives the pthreads of this process, and the
  processes in `Startup`.  It includes that the calls a thread makes return: those
  of the file system, of the audio driver and of the scripts' commands.
* Of the HTTP client this is not taken for granted: it is in the closed core library
  and may block on the network.  `LiveSpec` of `MusicPlayer` schedules the worker
  everywhere but inside that client (`~InClient`).  `AbortedTrackIsGivenUp` says that an
  aborted track is given up or held there, and that it is given up if the client
  returns: `TransfersReturn`, an assumption named where it is used.
* `QueueIsPlayed` carries the assumption `SourcesEnd`: a file or a transfer ends,
  and a block holds finitely many frames (strong fairness of `EndOfData` and of the
  step that asks for more).  `AbortedTrackIsGivenUp` does without it: a stream may
  deliver data for ever.
* `tts_progress` assumes that reads of the transport do not fail for ever and
  that time passes, so that the idle timeout is reached when it is repeatedly
  due.
* `vision_upload` assumes that the server answers on a connection that lasts.
  `WaitsEnd` claims the end of the wait for a verdict only while no commit
  outlives its connection: the single slot `vision_done` may otherwise be
  overwritten before the waiter sees its own verdict, and it goes on until that
  connection ends.
* `face_engine` assumes that nobody waits for the mutex for ever, that the engine
  answers, and that starting and reaching it succeeds if the compare thread tries
  again and again; `EngineStarts /\ pc["face"] = "connect"` says that the engine is
  sometimes up within the three seconds of a try.  It may still die, at any point
  and at most `MaxDeaths` times, and every single try may fail.  SIGPIPE is ignored
  by the core library, so a write to a dead engine fails and does not end the
  process.
* `wifi_frames` assumes that the main loop delivers what has arrived and that
  `wifi_process_frames` goes on.
* `wifi_startup` assumes that the client, the script and the service run, that
  what the service notifies to a connected phone is sent, and that a supplicant
  with the credentials of a network in reach joins it some time.  Nothing makes a
  phone connect, write or leave, and a join may time out although the network is
  in reach: that is one of the faults (`SlowNetwork`).
* Nothing is assumed of callers, of the server's order of unrelated messages, or
  of the voice detection.

Deadlock is checked in every run.

## Findings

Each is a run that TLC must find violated, with the line of the repository it
contradicts in `PROJECT.json`.

1. *A frame survives the interrupt* (`tts_stale_audio`).  `has_pending` is read
   before the flag it is used with, and the interrupt may fall between.
2. *The engine is never started again* (`face_engine_lost`).  An engine that dies
   before a thread is connected to it leaves its pid behind; the compare thread
   then tries to connect for ever, and a new process is started only after the
   cleanup that this path leaves out.
3. *A known network is not used* (`startup_known`).  A device whose network is up a
   moment after the ten seconds of the boot waits in BLE mode for a phone; neither
   the client, which waits for the script, nor the script, which waits for the
   service, looks at the network again.

Observations without a run of their own, met while modelling:

* Music (`music_player.c:453`): an aborted local file, which every prompt tone is,
  is drained and not flushed when the abort is noticed while decoding, because only
  one of the three places that notice it sets `interrupted`.
* Music (`music_player.c:316`): an aborted stream is held as long as the HTTP client
  waits for data that do not come; the abort is noticed with the next data only.
* Music (`music_player.c:519`): a list of nothing but empty names, which
  `zh_ws_collect_music_urls` may hand over, leaves the player marked active if it is
  accepted between the end of a track and the worker's next look at the queue.
  `OnlyEmptyListMarksIdle` says that nothing else has this effect.
* TTS (`udp_tts.c:329`): an interrupt preempted between its stores may set the time
  of the last packet to zero after the play thread has set `playing` again; the idle
  timeout never fires at time zero, so the player claims to play until the next
  answer.  `PlayingEnds` is checked for interrupts that are not preempted.
* Uplink (`bithion_core_compat.c:322`): STT_COMPLETED is not compared with the round
  it answers; one that arrives after the next START cuts off the new speech.
* Uplink (`bithion_core_compat.c:550`): the START that music_play_pre sends from the
  callback thread ends the segment the uplink is in the middle of, and the reset behind
  it may clear the flags of the uplink's next round.
* Uplink: a session handed over in mid-speech gets frames before any START;
  `AudioStaysInSegments` speaks of the time after the first one.
* Face engine (`face_recognition.c:266`): a picture refused for its size leaves its
  bytes in the engine's socket, and they are read as answers until a comparison
  fails; `CommandsStartClean` and `AnswersMatch` speak of connections on which no
  picture was refused.
* Enrolment (`face_recognition.c:677`, `757`): neither the close of the embedding
  file nor any write of the index is checked.  On a full flash an enrolment reports
  1003 although the embedding is empty or the index incomplete, and other owners may
  be gone with it.
* Enrolment (`face_recognition.c:699`): an enrolment that fails to read the index
  writes one with the new owner only.  Nothing is synchronised: a power cut may
  bring back an older index or empty an embedding.
* Enrolment (`face_recognition.c:588`): a lookup that meets a rewriting reports an
  enrolled owner as unknown (1001).  When a name is enrolled anew its old file and
  cache entry stay, and the previous face is greeted by that name until the next
  start.
* BLE (`btgatt-server.c:355-366`): the WiFi configuration is written unchecked; on a
  full flash the join is tried with a torn file.
* BLE (`btgatt-server.c:695-698`): a phone that leaves right after the join may not
  have read the success, though the service ends; the comment there hopes otherwise.
* Scripts: a service whose client died serves on; the new client runs without
  it, or kills it with the next script.

## Proofs

TLC checks instances; the theorems hold for every value of the constants that
satisfies the named assumption of the module (`TracksAssumption`,
`BoundsAssumption`, `UplinkAssumption`, `VisionAssumption`, `EnrollAssumption`,
`ProvisionAssumption`, `FramesAssumption`, `BodiesAssumption`).  These say only that
the bounds are numbers, that the ring and the gate are not empty, that lists consist
of tracks, and that the values for "nothing" are not real ones; of the phone's frames,
that a write is shorter than the receive buffer (an attribute value has at most 512
bytes, the buffer 1024) and that the frame of a text fits into it
(`handle_wifi_cmd` reads 511 bytes of a text).

**MusicPlayer_proofs.**  The invariant `IInv` strengthens `TypeOK` with what ties
the worker's program counter to the shared state: a sleeping worker has an empty
queue and no stop; a worker that has passed its abort test at `write` has
written nothing stale yet unless the abort came after the test; a worker that
has seen no abort and is not aborted has `playing` set; the handle is closed
outside a track.  None of the checked properties is inductive alone: that at
most one stale chunk is written needs to know where the last test was made, that
a track keeps the player active needs to know that a call which clears `playing`
also changes the token.  From it follow `NeverMissesAWakeup`,
`ActiveWhilePlaying`, `AtMostOneStaleChunk`, `OutputIsPerTrack`.
`CutStreams` adds `CutInv`: an abort the worker has seen lasts as long as it holds
the track, so the test made when the HTTP client has returned sees it again.
`IdleMarking` proves `OnlyEmptyListMarksIdle` for all lists, those that bring no track
included: every other call leaves a queue or clears `playing`, and the worker clears it
when it is done with a track and finds nothing queued.  `Refinement` proves
that every step maps to a step of `Playlist` or leaves its variables unchanged.

**TtsPlayback_proofs.**  `FlushTheorem` shows `FlushFindsAudio` with the interrupt's
stores torn apart at will: it needs to know that the thread sets the handle the
others see before it writes, and that the output is open when it is about to set it
(`OutputInv`).  `TakenFramesTheorem` holds with torn stores, too, for every interrupt
that had counted its generation before the thread answered its flush (`torn` names the
exception, in which an old frame does survive).  Its invariant `TakenInv` follows a
frame taken before the interrupt: between the place where it is read and the mutex of
the output a pending flush stops it, and if the thread already holds the mutex the
interrupt has its flush still before it.

**AudioUplink_proofs.**  `PrerollIsRecent` speaks of the ring read from its position;
its invariant `RingInv` speaks of each slot, of those written since the ring last
wrapped and of those before.  `KeptIsRecent` gets from one to the other, `StoreKeeps`
is the step that advances the position, and every other step leaves the ring alone
or starts it over (`RingSteps`).  `OrderInv`: the frame in hand is newer than what
the ring holds until the voice detection has seen it, and newer than what was sent
until it is sent; `FlushAscends` says of a flush that it sends an ascending sequence,
with the frame in hand last if it is complete and without it if it is cut short.
`WholeInv`, for `SegmentIsWhole`: speech that starts has its first frame at the end of
the ring, a frame that counts as sent was sent last unless the segment was cut, and a
text that is complete ends this segment except between a START and the reset of the
flags.  `SessionInv`, for `AudioStaysInSegments`: as long as nothing fails the
connection of the first START stays, and either the thread has its session or that
START was music's and its segment is open; from then on speech means an open segment.
`GateTheorem` assumes a closing peak above 0, as the code has it.  The peak is a
CHOOSE over the samples; that there is one (`PeakIsGreatest`) follows from the
library's least-element principle for well-founded relations (`Least`), applied to
the bounds of the absolute values, and `PeakDecides` then replaces the peak by what
the samples say.

**VisionUpload_proofs.**  `TypeCorrect` is inductive with its third part: a
thread that does not exist has no running flag.  `WakesTheCamera` needs that
every action which ends the condition of the wait also leaves no sleeper.
`AcceptsOnlyVerdicts` needs that a slot marked ready holds a picture the server
has spoken about, which a reset preserves because it clears both.

**FaceEngine_proofs.**  `IInv` adds four parts to the ranges: `Mutex` (who is in the
middle of a command holds the mutex), `TasksFit` (the place of a thread fits its
command: only a picture has bytes), `ThreadsFit` (a thread that is between commands
has none under way, and there are no threads while face recognition is stopped) and
`Shared`, whose `InStep` lists what can be on the connection at each place.  That a
command starts on an empty connection is not inductive without the last: it needs to
know that reading the greeting, the line and the bytes takes off everything the
engine sends, also when it dies half-way.  The proof has one lemma for steps of the
threads between commands, one for steps of the mutex's holder (`HolderStep`: what
the mutex rules out is shown once), and one for the engine.

**FaceEnroll_proofs.**  `NamesAreGiven` speaks of what a reader has found, so its
invariant has to follow a name back to the message that gave it.  `AgentInv`: the
face the enrolment holds was shown when its name was given, its file is empty before it
is written and holds that face or nothing afterwards, and ids are never used twice.
`SoundEntry` says of an entry that the face in its file, if there is one, was given its
name, `Sound` of a list of entries that each is sound and a name occurs once.
`IndexInv`: every version the index has had since the power came on is sound, because
any of them may come back; the index, and what was read of it, is part of one.
`FilesKept` and `EntriesStaySound` show that soundness survives a power cut: files
are emptied but never change their face.  `CacheInv`: each slot of the cache is a
sound entry.  `ReaderInv`: what a reader has in hand was given to the person it looks
at.  `KnownInv`, for `EnrolledAreKnown`: of the entries that name that person, either
the reader has found a name, or met a rewriting, or the entry's file is still to be
looked up; and the index is still the one whose length the reader has taken.

`EnrolmentIsADirectory` maps the index to a function from names to faces (what was
read of the old one until the rewriting is complete) and the versions to the
directories there have been.  `UpsertedFaces`: the close of the file is `Enrol`, or
`EnrolInVain` if the embedding was lost.  `ThinnedFaces`: part of a version, with some
files emptied, is that version's directory without some names, so that the failed
read is `ReadFails`, the full flash `FaceIsLost` or `FlashIsFull`, the power cut
`PowerIsCut`.  Everything else is a stutter or gives up.

**Startup_proofs.**  `SuccessIsReal` alone says nothing of where a success may come
from.  `SuccessInv` lists every place that claims one: what the phone has read,
what is queued for it, `waitLeave`, `done` and the exit status; each implies
that this process has seen the link up after a command, and the off service has none
of them.  The types of the state, which the proof needs for the queues, are
`TypeCorrect`.  The other three theorems are the safety halves of the run's liveness
properties, which say what fairness alone would not give.  `BalanceTheorem`: the
final statuses due to the phone are those in the queue and one for the credentials in
hand, so that no way through a handler answers twice or not at all; `AccountInv` adds
where the handler has credentials.  `LifeTheorem`, inductive as it stands, over every
fault: the client waits only for a script that runs, a script that serves has its
service, no handler runs outside a session (the handlers' steps do not test for one),
and a session leaves nothing behind.  `OnItsWayTheorem` follows from the two: a status
that is due is in the queue of a session or its handler is still running.

**WifiFrames_proofs.**  The buffer alone says too little: whether a command will be
handled depends on cells the phone has sent and the radio has not delivered.  The
proof speaks of the *stream*, the buffer and what is still to come of the frame that
is being delivered (`Delivers`); taking cells off the front, delivering a piece and
putting a frame on the air are its only changes.  `Genuine` says that whatever closes
in the stream with its own checksum was sent and is waiting, the earlier in front:
with it `HandleFrame` is a step of `FrameQueue` however the cells before it were
damaged.  `Fresh` says which frames are the sound ones since the last damage, and
`Phase` how the stream stands to them: cells from before lie in front (`Stuck`), the
stream starts with a whole frame (`Synced`, and without any damage nothing was passed
over), or with the tail of a frame that has lost its start (`Behind`).  The phases
carry the bound: a header found in old cells makes the server wait for no more than
the buffer holds, and while such a wait can still reach into the frames behind the
damage there are at most `MostLost` of them.  Neither `ResyncIsBounded` nor the
refinement is inductive without all three.  `Queueing` maps every step to `FrameQueue`,
`Resync` is the bound; the room in the buffer is part of `TypeCorrect`.

The attempt showed the bound of `ResyncIsBounded` as first written (`BufMax \div 6`
lost frames) to be too small for some sizes: a header that waits in the last cells
leaves room for `(BufMax - 4) \div 6` frames, and one more may make the buffer
overflow.  The instance TLC checks could not tell the two apart.

### Only model-checked

Liveness under fairness is checked by TLC only, since the proof system does not
reason about ENABLED: `PlayingEnds`, `AcceptsAudioAgain`, `PendingMusicStarts`,
`QueueIsPlayed`, `AbortedTrackIsGivenUp`, `StopEndsThread`, `WaitsEnd`, `StopReturns`,
`CallsReturn`, `ReplacedReportsGoOn`, `FramesAreHandled`, `StatusIsDelivered`,
`NeverStuck` and `ProvisionedStarts`.  Every invariant, action property and refinement
that a passing run checks is a theorem.  What a recursive definition computes is not
provable either, and no module that is proved about declares a RECURSIVE operator.

## What is not modelled

* The closed core library (`bithion_core`): it appears as the events it delivers
  and the calls it accepts, marked external.
* The shared output (`audio_playback_rockit.c`): music and TTS may both hold the one
  hardware channel.  What a second enable, or the disable of a channel in use, does
  is decided in the Rockit library, which is not in the repository; a
  composition of the two players would model a guess.
* Codecs, resampling, gain, sample-rate selection: their results are frames.
* Camera, audio and GPIO drivers, the capture stash (sequential, inside one
  function), the PCM dump, logging, prompt tones and their debounce.
* `AudioUplink` leaves out the report of the music state.
* BlueZ: of `btgatt-server.c` the GAP, Device Information and heart-rate services,
  the command line and its prompt; `uuid-helper.c`.
* Of the scripts the pid files, the stop and status commands and the init script.
* Headers and vendored libraries.
* `zh_music_play_mp3`, `zh_udp_tts_set_playing`, `zh_audio_uplink_stop`: no
  caller.

## Plan

What would come next, the most consequential first.

1. `WsSession`: all flags of the session and all handlers of
   `zh_core_host_ws_text_message`, so that TTS, uplink and pictures share one
   session in one model.
2. The composition of `WifiFrames` and `WifiProvision`, which now meet in the
   messages.

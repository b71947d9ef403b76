---------------------------- MODULE MusicPlayer ----------------------------
(***************************************************************************)
(* src/src/music_player.c: the queue of tracks (g_music), its worker thread *)
(* and the calls other threads make.  Every call holds g_music.mutex from   *)
(* start to end, so it is one action; the worker's steps are cut where it   *)
(* releases the mutex and where it reads shared state without it.           *)
(*                                                                         *)
(* The worker reads `stop` and `token` only through zh_music_should_abort, *)
(* and once that answers yes for a track it answers yes until the track is *)
(* given up; two successive tests with no effect between them (lines 506   *)
(* and 304 or 434) are therefore one step.                                 *)
(***************************************************************************)
EXTENDS Naturals, Sequences

CONSTANTS
  Tracks,      \* what a caller may ask for
  UrlTracks,   \* those zh_music_is_url accepts; the others are local files
  Blank,       \* a list entry dropped by play_urls: NULL, "" or out of memory
  NoTrack,     \* the worker's item = NULL
  Batches,     \* the lists callers pass: [first, rest], rest without Blanks
  MayStop,     \* whether somebody calls zh_music_player_stop
  MaxToken,    \* bound on the number of calls that replace or interrupt
  OpenTries    \* attempts to open the output (50 in the code)

ASSUME TracksAssumption ==
  /\ UrlTracks \subseteq Tracks
  /\ Blank \notin Tracks
  /\ NoTrack \notin Tracks
  /\ Batches \subseteq [first : Tracks \cup {Blank}, rest : Seq(Tracks)]
  /\ MayStop \in BOOLEAN
  /\ MaxToken \in Nat
  /\ OpenTries \in Nat \ {0}

VARIABLES
  running, stop,      \* g_music.running, g_music.stop
  head, pending,      \* the two linked lists of g_music
  playing, token,     \* g_music.playing, g_music.token
  streamRunning,      \* g_music_stream_running, polled by the HTTP client
  pc,                 \* where the worker thread is
  item, itemToken,    \* the worker's item and its copy of the token
  tries,              \* attempts to open the output left
  output,             \* the decoder's handle: "closed", "empty" or "queued" audio
  interrupted,        \* the worker's flag for zh_music_decoder_finish
  \* history: what the worker knew and did about the item it holds
  sawAbort,           \* should_abort answered yes
  staleWrites,        \* chunks written after the item was aborted
  heardStale          \* tracks played out after the worker saw their abort

queueVars  == <<running, stop, head, pending, playing, token, streamRunning>>
workerVars == <<pc, item, itemToken, tries, output, interrupted>>
history    == <<sawAbort, staleWrites, heardStale>>
vars       == <<queueVars, workerVars, history>>

Queue    == head \o pending
Holding  == item # NoTrack
IsActive == playing \/ head # <<>> \/ pending # <<>>
Aborted  == stop \/ token # itemToken

Init ==
  /\ running = FALSE /\ stop = FALSE
  /\ head = <<>> /\ pending = <<>>
  /\ playing = FALSE /\ token = 0 /\ streamRunning = FALSE
  /\ pc = "none" /\ item = NoTrack /\ itemToken = 0 /\ tries = 0
  /\ output = "closed" /\ interrupted = FALSE
  /\ sawAbort = FALSE /\ staleWrites = 0 /\ heardStale = {}
-----------------------------------------------------------------------------
(* Calls of other threads.                                                 *)

\* Mutant: the queue changes and nobody is woken.
BroadcastForgotten == pc' = pc

\* pthread_cond_broadcast: a waiting worker goes back to test its condition.
Broadcast == pc' = IF pc = "wait" THEN "lock" ELSE pc

Start ==
  /\ ~running
  /\ stop' = FALSE
  /\ running' = TRUE
  /\ pc' = "creating"
  /\ UNCHANGED <<head, pending, playing, token, streamRunning>>
  /\ UNCHANGED <<item, itemToken, tries, output, interrupted, history>>

CreateThread ==
  /\ pc = "creating"
  /\ pc' = "lock"
  /\ UNCHANGED <<queueVars, item, itemToken, tries, output, interrupted, history>>

CreateFails ==
  /\ pc = "creating"
  /\ pc' = "none"
  /\ running' = FALSE
  /\ UNCHANGED <<stop, head, pending, playing, token, streamRunning>>
  /\ UNCHANGED <<item, itemToken, tries, output, interrupted, history>>

\* zh_music_player_play_urls[_with_gain]: the first entry of the list goes to
\* `head` unless it is dropped, what remains of the rest to `pending`.
PlayUrls(batch) ==
  /\ token < MaxToken
  /\ token' = token + 1
  /\ streamRunning' = FALSE
  /\ head' = IF batch.first = Blank THEN <<>> ELSE <<batch.first>>
  /\ pending' = batch.rest
  /\ Broadcast
  /\ UNCHANGED <<running, stop, playing>>
  /\ UNCHANGED <<item, itemToken, tries, output, interrupted, history>>

\* Mutant: the track is dropped from view but not aborted.
InterruptKeepsToken ==
  /\ head' = <<>> /\ pending' = <<>>
  /\ playing' = FALSE
  /\ Broadcast
  /\ UNCHANGED <<running, stop, token, streamRunning>>
  /\ UNCHANGED <<item, itemToken, tries, output, interrupted, history>>

Interrupt ==
  /\ token < MaxToken
  /\ token' = token + 1
  /\ streamRunning' = FALSE
  /\ head' = <<>>
  /\ pending' = <<>>
  /\ playing' = FALSE
  /\ Broadcast
  /\ UNCHANGED <<running, stop>>
  /\ UNCHANGED <<item, itemToken, tries, output, interrupted, history>>

Stop ==
  /\ MayStop
  /\ stop' = TRUE
  /\ streamRunning' = FALSE
  /\ head' = <<>>
  /\ pending' = <<>>
  /\ Broadcast
  /\ UNCHANGED <<running, playing, token>>
  /\ UNCHANGED <<item, itemToken, tries, output, interrupted, history>>
-----------------------------------------------------------------------------
(* The worker between two tracks.                                          *)

Exit ==
  /\ pc = "lock"
  /\ stop
  /\ pc' = "exited"
  /\ UNCHANGED <<queueVars, item, itemToken, tries, output, interrupted, history>>

Wait ==
  /\ pc = "lock"
  /\ ~stop /\ Queue = <<>>
  /\ pc' = "wait"
  /\ UNCHANGED <<queueVars, item, itemToken, tries, output, interrupted, history>>

SpuriousWakeup ==
  /\ pc = "wait"
  /\ pc' = "lock"
  /\ UNCHANGED <<queueVars, item, itemToken, tries, output, interrupted, history>>

\* An empty `head` is first refilled with one track of `pending`; the track
\* then leaves `head` and the lock is released.
Take ==
  /\ pc = "lock"
  /\ ~stop /\ Queue # <<>>
  /\ IF head # <<>>
     THEN /\ item' = Head(head)
          /\ head' = Tail(head)
          /\ UNCHANGED pending
     ELSE /\ item' = Head(pending)
          /\ pending' = Tail(pending)
          /\ UNCHANGED head
  /\ itemToken' = token
  /\ playing' = TRUE
  /\ streamRunning' = (item' \in UrlTracks)
  /\ pc' = "begin"
  /\ sawAbort' = FALSE
  /\ staleWrites' = 0
  /\ UNCHANGED <<running, stop, token, tries, output, interrupted, heardStale>>

\* Mutant: the next track is moved up even when `head` holds a newer list.
ReleaseOverwritesHead ==
  /\ pc = "release"
  /\ pc' = "lock"
  /\ item' = NoTrack
  /\ streamRunning' = FALSE
  /\ playing' = FALSE
  /\ head' = IF pending = <<>> THEN head ELSE <<Head(pending)>>
  /\ pending' = IF pending = <<>> THEN <<>> ELSE Tail(pending)
  /\ UNCHANGED <<running, stop, token, itemToken, tries, output, interrupted, history>>

\* Mutant: the next track is moved up and the player stays marked.
ReleaseStaysMarked ==
  /\ pc = "release"
  /\ pc' = "lock"
  /\ item' = NoTrack
  /\ streamRunning' = FALSE
  /\ IF head = <<>>
     THEN /\ head' = IF pending = <<>> THEN <<>> ELSE <<Head(pending)>>
          /\ pending' = IF pending = <<>> THEN <<>> ELSE Tail(pending)
     ELSE UNCHANGED <<head, pending>>
  /\ UNCHANGED <<running, stop, playing, token, itemToken, tries, output,
                 interrupted, history>>

\* The track is freed, then the lock is taken again: with nothing in `head`
\* the player is marked idle and the next track is moved up.
Release ==
  /\ pc = "release"
  /\ pc' = "lock"
  /\ item' = NoTrack
  /\ streamRunning' = FALSE
  /\ IF head = <<>>
     THEN /\ playing' = FALSE
          /\ head' = IF pending = <<>> THEN <<>> ELSE <<Head(pending)>>
          /\ pending' = IF pending = <<>> THEN <<>> ELSE Tail(pending)
     ELSE UNCHANGED <<playing, head, pending>>
  /\ UNCHANGED <<running, stop, token, itemToken, tries, output, interrupted, history>>
-----------------------------------------------------------------------------
(* The worker playing a track: read some data, decode its frames, write    *)
(* each frame to the output.                                               *)

SeeAbort == sawAbort' = (sawAbort \/ Aborted)

\* Where the worker goes when feeding fails: the HTTP client returns first,
\* the file reader jumps to `done`.
AfterFeed == IF item \in UrlTracks THEN "returned" ELSE "finish"

\* The track is skipped if it is aborted already or cannot be opened.
Begin ==
  /\ pc = "begin"
  /\ SeeAbort
  /\ interrupted' = FALSE
  /\ \/ /\ ~Aborted
        /\ pc' = "read"
     \/ /\ Aborted \/ item \notin UrlTracks
        /\ pc' = "release"
  /\ UNCHANGED <<queueVars, item, itemToken, tries, output, staleWrites, heardStale>>

\* The file reader tests for an abort after each block.
ReadFile ==
  /\ pc = "read" /\ item \notin UrlTracks
  /\ SeeAbort
  /\ interrupted' = Aborted
  /\ pc' = IF Aborted THEN "finish" ELSE "frame"
  /\ UNCHANGED <<queueVars, item, itemToken, tries, output, staleWrites, heardStale>>

\* The HTTP client hands over what it received (external).
ReadStream ==
  /\ pc = "read" /\ item \in UrlTracks
  /\ pc' = "frame"
  /\ UNCHANGED <<queueVars, item, itemToken, tries, output, interrupted, history>>

\* No more data: end of file, end of the transfer, or a transfer cut off by
\* an error or by g_music_stream_running.
EndOfData ==
  /\ pc = "read"
  /\ pc' = AfterFeed
  /\ UNCHANGED <<queueVars, item, itemToken, tries, output, interrupted, history>>

\* Mutant: frames are decoded without asking whether the track was aborted.
FrameWithoutTest ==
  /\ pc = "frame"
  /\ pc' \in {"read", IF output = "closed" THEN "open" ELSE "check"}
  /\ tries' = OpenTries
  /\ UNCHANGED <<queueVars, item, itemToken, output, interrupted, history>>

\* zh_music_decoder_feed, before each frame: give up on an abort or for want
\* of memory, ask for more data, or decode and make sure the output is open.
Frame ==
  /\ pc = "frame"
  /\ SeeAbort
  /\ \/ pc' = AfterFeed
     \/ ~Aborted /\ pc' \in {"read", IF output = "closed" THEN "open" ELSE "check"}
  /\ tries' = OpenTries
  /\ UNCHANGED <<queueVars, item, itemToken, output, interrupted, staleWrites, heardStale>>

\* One turn of zh_music_decoder_open.
Open ==
  /\ pc = "open"
  /\ IF tries = 0
     THEN /\ pc' = AfterFeed
          /\ UNCHANGED <<tries, output, sawAbort>>
     ELSE /\ SeeAbort
          /\ tries' = tries - 1
          /\ \/ Aborted /\ pc' = AfterFeed /\ UNCHANGED output
             \/ ~Aborted /\ pc' = "check" /\ output' = "empty"
             \/ ~Aborted /\ pc' = "open" /\ UNCHANGED output
  /\ UNCHANGED <<queueVars, item, itemToken, interrupted, staleWrites, heardStale>>

\* zh_music_play_pcm tests for an abort and then writes the whole frame.
CheckAbort ==
  /\ pc = "check"
  /\ SeeAbort
  /\ pc' = IF Aborted THEN AfterFeed ELSE "write"
  /\ UNCHANGED <<queueVars, item, itemToken, tries, output, interrupted, staleWrites, heardStale>>

\* Mutant: a frame is written in pieces after a single test.
WriteInPieces ==
  /\ pc = "write"
  /\ output' = "queued"
  /\ staleWrites' = IF Aborted THEN staleWrites + 1 ELSE staleWrites
  /\ pc' \in {"write", "frame"}
  /\ UNCHANGED <<queueVars, item, itemToken, tries, interrupted, sawAbort, heardStale>>

Write ==
  /\ pc = "write"
  /\ \/ /\ output' = "queued"
        /\ staleWrites' = IF Aborted THEN staleWrites + 1 ELSE staleWrites
        /\ pc' = "frame"
     \/ /\ pc' = AfterFeed
        /\ UNCHANGED <<output, staleWrites>>
  /\ UNCHANGED <<queueVars, item, itemToken, tries, interrupted, sawAbort, heardStale>>

\* Mutant: a cut transfer ends like a complete one.
StreamReturnedComplete ==
  /\ pc = "returned"
  /\ SeeAbort
  /\ interrupted' = FALSE
  /\ pc' = "finish"
  /\ UNCHANGED <<queueVars, item, itemToken, tries, output, staleWrites, heardStale>>

\* The HTTP client has returned: was the track cut off?
StreamReturned ==
  /\ pc = "returned"
  /\ SeeAbort
  /\ interrupted' = (Aborted \/ ~streamRunning)
  /\ pc' = "finish"
  /\ UNCHANGED <<queueVars, item, itemToken, tries, output, staleWrites, heardStale>>

\* zh_music_decoder_finish: drain plays out what is queued, flush drops it.
Finish ==
  /\ pc = "finish"
  /\ heardStale' = heardStale \cup
                      {t \in {item} : output = "queued" /\ ~interrupted /\ sawAbort}
  /\ output' = "closed"
  /\ pc' = "release"
  /\ UNCHANGED <<queueVars, item, itemToken, tries, interrupted, sawAbort, staleWrites>>
-----------------------------------------------------------------------------
Play == \/ Begin \/ ReadFile \/ ReadStream \/ EndOfData \/ Frame \/ Open
        \/ CheckAbort \/ Write \/ StreamReturned \/ Finish

Worker == CreateThread \/ Exit \/ Wait \/ Take \/ Release \/ Play

Caller == Start \/ Interrupt \/ Stop \/ \E batch \in Batches : PlayUrls(batch)

Next == Caller \/ Worker \/ CreateFails \/ SpuriousWakeup

Spec == Init /\ [][Next]_vars

\* While a stream is being read the worker is inside the HTTP client, which
\* comes back with data or at the end of the transfer when it pleases.
InClient == pc = "read" /\ item \in UrlTracks

\* The scheduler runs the worker whenever it can run, and the file system and
\* the audio driver return.  Nothing is assumed of the HTTP client.
LiveSpec == Spec /\ WF_vars(~InClient /\ Worker)

\* An assumption of its own: the client hands over data or ends the transfer,
\* and does not block on the network for ever.
TransfersReturn == WF_vars(InClient /\ Worker)

\* No file or transfer delivers data for ever or blocks for ever, and a block
\* holds finitely many frames.
NeedMoreData == Frame /\ pc' = "read"
SourcesEnd   == SF_vars(NeedMoreData) /\ SF_vars(EndOfData)
-----------------------------------------------------------------------------
(* Properties.                                                             *)

PlayPcs == {"begin", "read", "frame", "open", "check", "write",
            "returned", "finish", "release"}

\* The type of the state, and which program points hold a track.
TypeOK ==
  /\ running \in BOOLEAN /\ stop \in BOOLEAN
  /\ head \in Seq(Tracks) /\ pending \in Seq(Tracks)
  /\ playing \in BOOLEAN /\ streamRunning \in BOOLEAN
  /\ token \in 0..MaxToken
  /\ pc \in PlayPcs \cup {"none", "creating", "lock", "wait", "exited"}
  /\ item \in Tracks \cup {NoTrack}
  /\ running <=> pc # "none"
  /\ Holding <=> pc \in PlayPcs
  /\ itemToken \in 0..MaxToken
  /\ tries \in 0..OpenTries
  /\ output \in {"closed", "empty", "queued"}
  /\ interrupted \in BOOLEAN /\ sawAbort \in BOOLEAN /\ heardStale \subseteq Tracks
  /\ staleWrites \in Nat

\* The worker never sleeps while there is a track to play or a stop to obey:
\* no call changes the queue without waking it (lines 565, 594, 613).
NoLostWakeup == pc = "wait" => Queue = <<>> /\ ~stop

\* Between taking a track and releasing it the player reports itself active,
\* unless a later call has aborted the track: what is_active tells the TTS
\* thread and the server does not flicker while a list plays.
CurrentTrackIsActive == Holding /\ ~Aborted => playing

\* After an interrupt, a replacement or a stop the worker writes at most the
\* one chunk whose abort test (line 342) it had already passed.
OneStaleChunk == staleWrites <= 1

\* A worker with nothing to do leaves the player marked active in one way
\* only: a list of which every entry is dropped (which zh_ws_collect_music_urls
\* can hand over: it keeps empty names) is accepted after the worker left
\* `playing` set for the list then in `head` (line 519) and before it looks for
\* that list.  No order of other calls and worker steps has that effect.
IdleButMarked == pc \in {"lock", "wait"} /\ Queue = <<>> /\ playing /\ ~stop
BringsNothing(batch) == batch.first = Blank /\ batch.rest = <<>>
OnlyEmptyListMarksIdle ==
  [][~IdleButMarked /\ IdleButMarked' =>
        pc = "lock" /\ \E batch \in Batches : BringsNothing(batch) /\ PlayUrls(batch)]_vars

\* "New message interrupts: ... abort the current playback"
\* (include/music_player.h:12): audio of a stream the worker knows to be
\* aborted is discarded and not played out, wherever the abort is noticed,
\* because it is asked for once more when the HTTP client has returned (line
\* 322).  For a local file the code does not ask again and does play it out.
CutStreamIsDropped == heardStale \cap UrlTracks = {}

\* Only the worker's own step ends a track early or late: the output is open
\* nowhere but between a decoded frame and zh_music_decoder_finish, so two
\* tracks never share a handle.
OutputClosedBetweenTracks == ~Holding => output = "closed"

\* The queue as its callers see it: lists are played in order, one track at a
\* time, and only a call drops or replaces a track.
AbstractPlaylist ==
  INSTANCE Playlist WITH
    list <- Queue,
    current <- IF Holding /\ ~Aborted THEN item ELSE NoTrack,
    closed <- stop,
    epoch <- token

ImplementsPlaylist == AbstractPlaylist!PSpec

\* A worker whose track was aborted gives it up or is held by the HTTP client,
\* whatever is called meanwhile; and if the client returns, with data or without,
\* it gives the track up even when the stream would never end.
HoldsSince(t) == Holding /\ itemToken = t
AbortedTrackIsGivenUp ==
  \A t \in 0..MaxToken :
    /\ (HoldsSince(t) /\ Aborted) ~> (~HoldsSince(t) \/ InClient)
    /\ TransfersReturn => ((HoldsSince(t) /\ Aborted) ~> ~HoldsSince(t))

\* Every queued track is eventually taken or dropped by a call, if the sources
\* end.
QueueIsPlayed ==
  SourcesEnd => (Queue # <<>> /\ running /\ ~stop ~> Queue = <<>> \/ ~running \/ stop)
=============================================================================

---------------------------- MODULE VisionUpload ----------------------------
(***************************************************************************)
(* The camera pictures of src/src/face_recognition.c: while somebody       *)
(* speaks a thread takes a picture, asks the server for an upload address, *)
(* puts the picture there, commits it and waits for the server's verdict.  *)
(* The two answers come over the WS session of bithion_core_compat.c, which *)
(* keeps one slot for each, and the session is closed and opened again     *)
(* under the thread by the main loop of app.c.                             *)
(*                                                                         *)
(* One step is one critical section of the session's mutex or of           *)
(* g_face_mutex, one unlocked read of g_face_ws, or one message sent.      *)
(***************************************************************************)
EXTENDS Naturals

CONSTANTS
  MaxFrames,      \* bound on pictures
  MaxSessions     \* bound on sessions opened

ASSUME VisionAssumption ==
  /\ MaxFrames \in Nat
  /\ MaxSessions \in Nat

VARIABLES
  \* face_recognition.c
  running,        \* g_face_capture_running
  active,         \* g_face_active
  faceWs,         \* g_face_ws is not NULL
  pc, ws, frame,  \* the capture thread, its copy of g_face_ws, its picture
  granted,        \* it holds a valid vision_upload_response
  \* the session: the flags that the two waits look at
  shouldStop,
  uploadReady, uploadOk,  \* vision_upload_ready, vision_upload_resp is valid
  doneReady, doneFrame,   \* vision_done_ready, vision_done.frame_id
  \* zh_app_run and zh_run_session
  mainPc, audioStarted, sessions,
  \* outside: the connection and the server
  connected,
  asked,          \* pictures whose request the server has not answered
  committed,      \* pictures whose commit it has not answered
  \* history
  verdicts,       \* pictures the server has spoken about
  accepted,       \* pictures the thread took a verdict for
  late            \* pictures whose commit outlived its connection

face    == <<running, active, faceWs>>
thread  == <<pc, ws, frame, granted>>
session == <<shouldStop, uploadReady, uploadOk, doneReady, doneFrame>>
main    == <<mainPc, audioStarted, sessions>>
server  == <<connected, asked, committed>>
history == <<verdicts, accepted, late>>
vars    == <<face, thread, session, main, server, history>>

Pictures == 1 .. MaxFrames

Init ==
  /\ running = FALSE /\ active = FALSE /\ faceWs = FALSE
  /\ pc = "none" /\ ws = FALSE /\ frame = 0 /\ granted = FALSE
  /\ shouldStop = FALSE
  /\ uploadReady = FALSE /\ uploadOk = FALSE /\ doneReady = FALSE /\ doneFrame = 0
  /\ mainPc = "bind" /\ audioStarted = FALSE /\ sessions = 0
  /\ connected = FALSE /\ asked = {} /\ committed = {}
  /\ verdicts = {} /\ accepted = {} /\ late = {}

-----------------------------------------------------------------------------
(* The capture thread.                                                     *)

\* The head of the loop and, under g_face_mutex, the wait for speech.
LoopHead ==
  /\ pc = "loop"
  /\ pc' = IF running THEN "check" ELSE "end"
  /\ UNCHANGED <<face, ws, frame, granted, session, main, server, history>>

Check ==
  /\ pc = "check"
  /\ pc' = IF running /\ ~active THEN "asleep" ELSE "photo"
  /\ UNCHANGED <<face, ws, frame, granted, session, main, server, history>>

\* The picture comes from the face engine, or does not.
TakePhoto ==
  /\ pc = "photo"
  /\ \/ ~running /\ pc' = "end" /\ UNCHANGED frame
     \/ running /\ frame < MaxFrames /\ pc' = "session" /\ frame' = frame + 1
     \/ running /\ pc' = "pause" /\ UNCHANGED frame
  /\ UNCHANGED <<face, ws, granted, session, main, server, history>>

\* g_face_ws is read without a lock; the device id, which the core may not
\* give, and the frame id follow.
TakeSession ==
  /\ pc = "session"
  /\ ws' = faceWs
  /\ granted' = FALSE
  /\ pc' \in {"pause"} \cup (IF faceWs THEN {"clearUpload"} ELSE {})
  /\ UNCHANGED <<face, frame, session, main, server, history>>

ClearUpload ==
  /\ pc = "clearUpload"
  /\ uploadReady' = FALSE /\ uploadOk' = FALSE
  /\ pc' = "sendRequest"
  /\ UNCHANGED <<face, ws, frame, granted, shouldStop, doneReady, doneFrame, main, server,
                 history>>

\* Sending fails without a connection.
SendRequest ==
  /\ pc = "sendRequest"
  /\ IF connected
     THEN asked' = asked \cup {frame} /\ pc' = "waitUpload"
     ELSE UNCHANGED asked /\ pc' = "pause"
  /\ UNCHANGED <<face, ws, frame, granted, session, main, connected, committed, history>>

\* The wait looks again at least every 200 ms: an answer counts even when the
\* session is being closed, then the closing and the stop of the thread.
WaitUpload ==
  /\ pc = "waitUpload"
  /\ \/ /\ uploadReady
        /\ uploadReady' = FALSE
        /\ granted' = uploadOk
        /\ pc' = IF uploadOk THEN "put" ELSE "pause"
     \/ /\ ~uploadReady /\ (shouldStop \/ ~running)
        /\ pc' = "pause"
        /\ UNCHANGED <<uploadReady, granted>>
  /\ UNCHANGED <<face, ws, frame, shouldStop, uploadOk, doneReady, doneFrame, main, server,
                 history>>

\* The upload over HTTP, with its one retry, and the name for the commit, which
\* falls back to "error".
PutPicture ==
  /\ pc = "put"
  /\ pc' \in {"clearDone", "pause"}
  /\ UNCHANGED <<face, ws, frame, granted, session, main, server, history>>

ClearDone ==
  /\ pc = "clearDone"
  /\ doneReady' = FALSE /\ doneFrame' = 0
  /\ pc' = "sendCommit"
  /\ UNCHANGED <<face, ws, frame, granted, shouldStop, uploadReady, uploadOk, main, server,
                 history>>

SendCommit ==
  /\ pc = "sendCommit"
  /\ IF connected
     THEN committed' = committed \cup {frame} /\ pc' = "waitDone"
     ELSE UNCHANGED committed /\ pc' = "pause"
  /\ UNCHANGED <<face, ws, frame, granted, session, main, connected, asked, history>>

\* Mutant: the verdict is not compared with the picture.
WaitAnyDone ==
  /\ pc = "waitDone"
  /\ \/ /\ (shouldStop \/ ~running)
        /\ pc' = "pause"
        /\ UNCHANGED <<doneReady, accepted>>
     \/ /\ ~shouldStop /\ running /\ doneReady
        /\ doneReady' = FALSE
        /\ pc' = "pause" /\ accepted' = accepted \cup {frame}
  /\ UNCHANGED <<face, ws, frame, granted, shouldStop, uploadReady, uploadOk, doneFrame,
                 main, server, verdicts, late>>

\* Here closing and stopping count first, and a verdict about another picture is
\* thrown away.
WaitDone ==
  /\ pc = "waitDone"
  /\ \/ /\ shouldStop \/ ~running
        /\ pc' = "pause"
        /\ UNCHANGED <<doneReady, accepted>>
     \/ /\ ~shouldStop /\ running /\ doneReady
        /\ doneReady' = FALSE
        /\ IF doneFrame = frame
           THEN pc' = "pause" /\ accepted' = accepted \cup {frame}
           ELSE UNCHANGED <<pc, accepted>>
  /\ UNCHANGED <<face, ws, frame, granted, shouldStop, uploadReady, uploadOk, doneFrame,
                 main, server, verdicts, late>>

\* Five seconds if speech goes on.
Pause ==
  /\ pc = "pause"
  /\ pc' = "loop"
  /\ UNCHANGED <<face, ws, frame, granted, session, main, server, history>>

\* A condition variable may wake its waiter for no reason.
SpuriousWakeup ==
  /\ pc = "asleep"
  /\ pc' = "check"
  /\ UNCHANGED <<face, ws, frame, granted, session, main, server, history>>

CaptureThread ==
  \/ LoopHead \/ Check \/ TakePhoto \/ TakeSession \/ ClearUpload \/ SendRequest
  \/ WaitUpload \/ PutPicture \/ ClearDone \/ SendCommit \/ WaitDone \/ Pause

-----------------------------------------------------------------------------
(* Speech, reported by the uplink thread.                                  *)
Woken == IF pc = "asleep" THEN "check" ELSE pc

\* Mutant: nobody is woken.
SetActiveQuietly ==
  /\ audioStarted
  /\ active' = ~active
  /\ UNCHANGED <<running, faceWs, thread, session, main, server, history>>

\* zh_face_recognition_set_active; the broadcast only when speech starts.
SetActive ==
  /\ audioStarted
  /\ active' = ~active
  /\ pc' = IF ~active THEN Woken ELSE pc
  /\ UNCHANGED <<running, faceWs, ws, frame, granted, session, main, server, history>>

-----------------------------------------------------------------------------
(* The main thread.                                                        *)

\* Binding may fail, which ends this attempt before there is a session.
Bind ==
  /\ mainPc = "bind"
  /\ mainPc' \in {IF audioStarted THEN "connect" ELSE "startFaces", "retry"}
  /\ UNCHANGED <<face, thread, session, audioStarted, sessions, server, history>>

\* Without the capture thread the rest of face recognition runs all the same.
StartFaces ==
  /\ mainPc = "startFaces"
  /\ \/ running' = TRUE /\ pc' = "loop"
     \/ UNCHANGED <<running, pc>>
  /\ mainPc' = "startUplink"
  /\ UNCHANGED <<active, faceWs, ws, frame, granted, session, audioStarted, sessions, server,
                 history>>

StartUplink ==
  /\ mainPc = "startUplink"
  /\ \/ audioStarted' = TRUE /\ mainPc' = "connect"
     \/ UNCHANGED audioStarted /\ mainPc' = "stopFaces"
  /\ UNCHANGED <<face, thread, session, sessions, server, history>>

\* Mutant: the threads are told to stop but not woken.
StopFacesQuietly ==
  /\ mainPc = "stopFaces"
  /\ running' = FALSE /\ active' = FALSE
  /\ mainPc' = "joinFaces"
  /\ UNCHANGED <<faceWs, thread, session, audioStarted, sessions, server, history>>

\* The uplink did not start: the threads are told to stop, woken and awaited.
StopFaces ==
  /\ mainPc = "stopFaces"
  /\ running' = FALSE /\ active' = FALSE
  /\ pc' = Woken
  /\ mainPc' = "joinFaces"
  /\ UNCHANGED <<faceWs, ws, frame, granted, session, audioStarted, sessions, server, history>>

JoinFaces ==
  /\ mainPc = "joinFaces" /\ pc \in {"end", "none"}
  /\ pc' = "none"
  /\ mainPc' = "connect"
  /\ UNCHANGED <<face, ws, frame, granted, session, audioStarted, sessions, server, history>>

\* zh_ws_connect resets the whole session.
ResetSession ==
  /\ mainPc = "connect" /\ sessions < MaxSessions
  /\ sessions' = sessions + 1
  /\ shouldStop' = FALSE
  /\ uploadReady' = FALSE /\ uploadOk' = FALSE /\ doneReady' = FALSE /\ doneFrame' = 0
  /\ mainPc' = "auth"
  /\ UNCHANGED <<face, thread, audioStarted, server, history>>

\* The core connects and logs in, or does not.
Authenticate ==
  /\ mainPc = "auth"
  /\ \/ connected' = TRUE /\ shouldStop' = FALSE /\ mainPc' = "give"
     \/ mainPc' = "close" /\ UNCHANGED <<connected, shouldStop>>
  /\ UNCHANGED <<face, thread, uploadReady, uploadOk, doneReady, doneFrame, audioStarted,
                 sessions, asked, committed, history>>

GiveSession ==
  /\ mainPc = "give"
  /\ faceWs' = TRUE
  /\ mainPc' = "loop"
  /\ UNCHANGED <<running, active, thread, session, audioStarted, sessions, server, history>>

\* The connection ends and with it the loop that reads it; requests that were
\* not answered never will be, and commits perhaps on a later connection.
Disconnect ==
  /\ mainPc = "loop"
  /\ connected' = FALSE
  /\ asked' = {}
  /\ committed' \in {committed, {}}
  /\ late' = late \cup committed'
  /\ mainPc' = "takeBack"
  /\ UNCHANGED <<face, thread, session, audioStarted, sessions, verdicts, accepted>>

\* zh_core_host_event_notify: whatever the core reports between the opening of a
\* connection and its close, the session counts as ending and its waits are woken.
EventNotify ==
  /\ mainPc \in {"auth", "give", "loop", "takeBack", "close"}
  /\ shouldStop' = TRUE
  /\ UNCHANGED <<face, thread, uploadReady, uploadOk, doneReady, doneFrame, main, server,
                 history>>

TakeSessionBack ==
  /\ mainPc = "takeBack"
  /\ faceWs' = FALSE
  /\ mainPc' = "close"
  /\ UNCHANGED <<running, active, thread, session, audioStarted, sessions, server, history>>

\* Mutant: a session is closed without telling the waits.
CloseSilently ==
  /\ mainPc = "close"
  /\ mainPc' = "retry"
  /\ UNCHANGED <<face, thread, session, audioStarted, sessions, server, history>>

CloseSession ==
  /\ mainPc = "close"
  /\ shouldStop' = TRUE
  /\ mainPc' = "retry"
  /\ UNCHANGED <<face, thread, uploadReady, uploadOk, doneReady, doneFrame, audioStarted,
                 sessions, server, history>>

\* ZH_WS_RECONNECT_INTERVAL_MS is 3000: a wait that looks every 200 ms has seen
\* should_stop before the next session clears it.
RetryPause ==
  /\ mainPc = "retry"
  /\ shouldStop => pc \notin {"waitUpload", "waitDone"}
  /\ mainPc' = "bind"
  /\ UNCHANGED <<face, thread, session, audioStarted, sessions, server, history>>

MainThread ==
  \/ Bind \/ StartFaces \/ StartUplink \/ StopFaces \/ JoinFaces \/ ResetSession
  \/ Authenticate \/ GiveSession \/ TakeSessionBack \/ CloseSession \/ RetryPause

-----------------------------------------------------------------------------
(* The server, and its messages in the main loop's callback.               *)
Reading == connected /\ mainPc = "loop"

\* vision_upload_response, good or not.
UploadAnswered ==
  /\ Reading
  /\ \E f \in asked : asked' = asked \ {f}
  /\ uploadReady' = TRUE
  /\ uploadOk' \in BOOLEAN
  /\ UNCHANGED <<face, thread, shouldStop, doneReady, doneFrame, main, connected, committed,
                 history>>

\* vision_done overwrites what the slot holds.
DoneAnswered ==
  /\ Reading
  /\ \E f \in committed :
       /\ committed' = committed \ {f}
       /\ doneFrame' = f
       /\ verdicts' = verdicts \cup {f}
  /\ doneReady' = TRUE
  /\ UNCHANGED <<face, thread, shouldStop, uploadReady, uploadOk, main, connected, asked,
                 accepted, late>>

Server == UploadAnswered \/ DoneAnswered

Done ==
  /\ mainPc = "connect" /\ sessions = MaxSessions
  /\ UNCHANGED vars

Next ==
  \/ CaptureThread \/ SpuriousWakeup \/ SetActive \/ MainThread
  \/ EventNotify \/ Disconnect \/ Server \/ Done

\* Threads are scheduled, nothing of what they call blocks for ever, and the
\* server answers on a connection that lasts.
Spec ==
  /\ Init /\ [][Next]_vars
  /\ WF_vars(CaptureThread) /\ WF_vars(MainThread)
  /\ WF_vars(UploadAnswered) /\ WF_vars(DoneAnswered)

-----------------------------------------------------------------------------
FlagsOK ==
  /\ running \in BOOLEAN /\ active \in BOOLEAN /\ faceWs \in BOOLEAN
  /\ ws \in BOOLEAN /\ granted \in BOOLEAN
  /\ shouldStop \in BOOLEAN
  /\ uploadReady \in BOOLEAN /\ uploadOk \in BOOLEAN /\ doneReady \in BOOLEAN
  /\ audioStarted \in BOOLEAN /\ connected \in BOOLEAN

RangesOK ==
  /\ pc \in {"none", "loop", "check", "asleep", "photo", "session", "clearUpload",
             "sendRequest", "waitUpload", "put", "clearDone", "sendCommit", "waitDone",
             "pause", "end"}
  /\ mainPc \in {"bind", "startFaces", "startUplink", "stopFaces", "joinFaces", "connect",
                 "auth", "give", "loop", "takeBack", "close", "retry"}
  /\ frame \in 0 .. MaxFrames /\ doneFrame \in 0 .. MaxFrames
  /\ sessions \in 0 .. MaxSessions
  /\ asked \subseteq Pictures /\ committed \subseteq Pictures
  /\ verdicts \subseteq Pictures /\ accepted \subseteq Pictures /\ late \subseteq Pictures

\* A thread that does not exist, or is being joined, has no running flag.
StoppedOK == pc = "none" \/ mainPc = "joinFaces" => ~running

TypeOK == FlagsOK /\ RangesOK /\ StoppedOK

\* The capture thread never sleeps through the start of speech or its own stop:
\* every change that ends the wait at line 1133 also wakes it.
NoLostWakeup == pc = "asleep" => running /\ ~active

\* A picture counts as done only when the server has spoken about that very
\* picture, although the verdict slot is shared by all pictures and a verdict
\* may arrive after its connection was replaced (zh_ws_wait_vision_done).
VerdictIsGiven == accepted \subseteq verdicts

\* No picture is waited for beyond its connection: each of the two waits ends,
\* by an answer or by the closing of the session (neither has a timeout).  The
\* wait for the verdict may miss its own when one from an earlier connection
\* overwrites it in the slot.
WaitsEnd ==
  /\ pc = "waitUpload" ~> pc # "waitUpload"
  /\ [](late = {}) => (pc = "waitDone" ~> pc # "waitDone")

\* zh_face_recognition_stop returns: the thread it joins ends wherever it was.
StopReturns == mainPc = "joinFaces" ~> mainPc # "joinFaces"
=============================================================================

----------------------------- MODULE FaceEngine -----------------------------
(***************************************************************************)
(* The face engine of src/src/face_recognition.c: a process of its own that *)
(* is started on demand and spoken to over one Unix socket, a line for each *)
(* command and a line for each answer, after the line of a photo its bytes. *)
(* Three threads use it: the compare thread, the capture thread and the     *)
(* main thread, whose WS callback enrols faces.  Each holds                 *)
(* g_face_engine_mutex for a whole command; only the compare thread, and    *)
(* the one that stops face recognition, get rid of an engine that fails.    *)
(*                                                                         *)
(* One step is one read or write of the socket, one try to start or to      *)
(* reach the engine, or one test of the threads' own flags.                 *)
(***************************************************************************)
EXTENDS Naturals, Sequences

CONSTANTS
  MaxDeaths,   \* bound on the times the engine dies by itself
  MaxBacklog   \* bound on what is left in the socket after a refused photo

ASSUME EngineAssumption ==
  /\ MaxDeaths \in Nat
  /\ MaxBacklog \in Nat

Users  == {"face", "capture", "main"}
Nobody == "nobody"
Tasks  == {"none", "prepare", "compare", "photo", "enroll", "cleanup"}

\* What the engine sends: its greeting, three kinds of results, the bytes after
\* a photo's line; what is read of an answer that is cut off, and of the bytes
\* of a photo after an end of line.
Messages == {"ready", "compare", "enroll", "photo", "error", "junk", "bytes", "rest"}

VARIABLES
  running, active,  \* g_face_running and g_face_capture_running, g_face_active
  facePc, capPc, mainPc,
  \* the use of the engine, for each thread
  pc, task,         \* where it is in which command
  result,           \* what the command returned
  holder,           \* who holds g_face_engine_mutex
  fd,               \* g_face_uds_fd >= 0
  \* outside: the engine and the socket
  engine,           \* "none" when g_face_engine_pid is -1
  requests,         \* what the engine has not answered
  stream,           \* what it has sent and nobody has read
  deaths,
  \* history
  outOfStep,        \* a photo was left unread on this connection
  stranded          \* an engine died before anybody was connected to it

threads == <<running, active, facePc, capPc, mainPc>>
call    == <<pc, task, result, holder>>
outside == <<engine, requests, stream, deaths>>
history == <<outOfStep, stranded>>
vars    == <<threads, call, fd, outside, history>>

Init ==
  /\ running = FALSE /\ active = FALSE
  /\ facePc = "none" /\ capPc = "none" /\ mainPc = "loop"
  /\ pc = [p \in Users |-> "idle"] /\ task = [p \in Users |-> "none"]
  /\ result = [p \in Users |-> "none"] /\ holder = Nobody
  /\ fd = FALSE
  /\ engine = "none" /\ requests = <<>> /\ stream = <<>> /\ deaths = 0
  /\ outOfStep = FALSE /\ stranded = FALSE

-----------------------------------------------------------------------------
(* A command, by any of the threads.                                       *)

Call(p, t) ==
  /\ pc' = [pc EXCEPT ![p] = "lock"]
  /\ task' = [task EXCEPT ![p] = t]
  /\ result' = [result EXCEPT ![p] = "none"]
  /\ UNCHANGED holder

Goto(p, q) == pc' = [pc EXCEPT ![p] = q] /\ UNCHANGED <<task, result, holder>>

\* Mutant: a failed command leaves the mutex locked.
ReturnLocked(p, r) ==
  /\ pc' = [pc EXCEPT ![p] = "idle"]
  /\ result' = [result EXCEPT ![p] = r]
  /\ holder' = IF r = "fail" THEN holder ELSE Nobody
  /\ UNCHANGED task

\* The command ends and the mutex is released.
Return(p, r) ==
  /\ pc' = [pc EXCEPT ![p] = "idle"]
  /\ result' = [result EXCEPT ![p] = r]
  /\ holder' = Nobody
  /\ UNCHANGED task

\* The caller has looked at what the command returned.
Consume(p) ==
  /\ task' = [task EXCEPT ![p] = "none"]
  /\ result' = [result EXCEPT ![p] = "none"]
  /\ UNCHANGED <<pc, holder>>

\* The engine is there and connected.
Prepared(p) == IF task[p] = "prepare" THEN Return(p, "ok") ELSE Goto(p, "send")

\* Mutant: the mutex is not taken.
LockWithoutMutex(p) ==
  /\ pc[p] = "lock" /\ task[p] # "cleanup"
  /\ holder' = p
  /\ pc' = [pc EXCEPT ![p] = "start"]
  /\ UNCHANGED <<threads, task, result, fd, outside, history>>

Lock(p) ==
  /\ pc[p] = "lock" /\ task[p] # "cleanup"
  /\ holder = Nobody
  /\ holder' = p
  /\ pc' = [pc EXCEPT ![p] = "start"]
  /\ UNCHANGED <<threads, task, result, fd, outside, history>>

\* zh_face_prepare_engine_locked: a process that was once started counts as
\* there, whether or not it lives.
Found(p) ==
  /\ pc[p] = "start" /\ engine # "none"
  /\ IF fd THEN Prepared(p) ELSE Goto(p, "connect")
  /\ UNCHANGED <<threads, fd, outside, history>>

StartEngine(p) ==
  /\ pc[p] = "start" /\ engine = "none"
  /\ engine' = "starting"
  /\ IF fd THEN Prepared(p) ELSE Goto(p, "connect")
  /\ UNCHANGED <<threads, fd, requests, stream, deaths, history>>

ForkFails(p) ==
  /\ pc[p] = "start" /\ engine = "none"
  /\ Return(p, "fail")
  /\ UNCHANGED <<threads, fd, outside, history>>

Connect(p) ==
  /\ pc[p] = "connect" /\ engine = "up"
  /\ fd' = TRUE
  /\ requests' = <<"greeting">>
  /\ Goto(p, "ready")
  /\ UNCHANGED <<threads, engine, stream, deaths, history>>

\* After three seconds; the process is kept.
ConnectFails(p) ==
  /\ pc[p] = "connect"
  /\ Return(p, "fail")
  /\ UNCHANGED <<threads, fd, outside, history>>

\* Mutant: the greeting is not read.
SkipReady(p) ==
  /\ pc[p] = "ready"
  /\ Prepared(p)
  /\ UNCHANGED <<threads, fd, outside, history>>

\* The greeting is read and thrown away; so is the end of the connection.
ReadReady(p) ==
  /\ pc[p] = "ready"
  /\ \/ stream # <<>> /\ stream' = Tail(stream)
     \/ stream = <<>> /\ engine # "up" /\ UNCHANGED stream
  /\ Prepared(p)
  /\ UNCHANGED <<threads, fd, engine, requests, deaths, history>>

\* A write on a connection whose other end is closed fails.
Send(p) ==
  /\ pc[p] = "send"
  /\ outOfStep => Len(stream) + Len(requests) < MaxBacklog
  /\ IF engine = "up"
     THEN requests' = Append(requests, task[p]) /\ Goto(p, "line")
     ELSE UNCHANGED requests /\ Return(p, "fail")
  /\ UNCHANGED <<threads, fd, engine, stream, deaths, history>>

\* Reading up to the end of a line gives m and leaves left.  The bytes of a
\* photo may hold an end of line; after the last one they run on into the next
\* answer, or to the end of the connection.
LineIs(m, left) ==
  /\ stream # <<>>
  /\ \/ /\ Head(stream) = "bytes"
        /\ m = "junk" /\ left = <<"rest">> \o Tail(stream)
     \/ /\ Head(stream) \in {"bytes", "rest"} /\ Len(stream) > 1
        /\ m = "junk" /\ left = Tail(Tail(stream))
     \/ /\ Head(stream) \in {"bytes", "rest"} /\ Len(stream) = 1 /\ engine # "up"
        /\ m = "junk" /\ left = <<>>
     \/ /\ Head(stream) \notin {"bytes", "rest"}
        /\ m = Head(stream) /\ left = Tail(stream)

\* A photo's answer is followed by its bytes; another answer is no photo.
ReadLine(p) ==
  /\ pc[p] = "line"
  /\ \/ \E m \in Messages :
          /\ LineIs(m, stream')
          /\ \/ task[p] # "photo" /\ Return(p, m)
             \/ task[p] = "photo" /\ m = "photo" /\ Goto(p, "bytes")
             \/ task[p] = "photo" /\ m # "photo" /\ Return(p, "fail")
     \/ /\ stream = <<>> /\ engine # "up"
        /\ Return(p, "fail")
        /\ UNCHANGED stream
  /\ UNCHANGED <<threads, fd, engine, requests, deaths, history>>

\* Mutant: the bytes of the photo are not read.
SkipBytes(p) ==
  /\ pc[p] = "bytes"
  /\ Return(p, "photo")
  /\ UNCHANGED <<threads, fd, outside, history>>

ReadBytes(p) ==
  /\ pc[p] = "bytes"
  /\ \/ stream # <<>> /\ stream' = Tail(stream) /\ Return(p, "photo")
     \/ stream = <<>> /\ engine # "up" /\ UNCHANGED stream /\ Return(p, "fail")
  /\ UNCHANGED <<threads, fd, engine, requests, deaths, history>>

\* The photo is too large, or there is no memory for it: its bytes stay where
\* they are.
RefusePhoto(p) ==
  /\ pc[p] = "bytes"
  /\ outOfStep' = TRUE
  /\ Return(p, "fail")
  /\ UNCHANGED <<threads, fd, outside, stranded>>

\* Mutant: the engine is disposed of without the mutex.
CleanupUnlocked(p) ==
  /\ pc[p] = "lock" /\ task[p] = "cleanup"
  /\ fd' = FALSE /\ engine' = "none" /\ requests' = <<>> /\ stream' = <<>>
  /\ outOfStep' = FALSE
  /\ pc' = [pc EXCEPT ![p] = "idle"]
  /\ task' = [task EXCEPT ![p] = "none"]
  /\ UNCHANGED <<threads, result, holder, deaths, stranded>>

\* zh_face_cleanup_engine: the connection is closed, the process killed and
\* awaited.
Cleanup(p) ==
  /\ pc[p] = "lock" /\ task[p] = "cleanup"
  /\ holder = Nobody
  /\ fd' = FALSE /\ engine' = "none" /\ requests' = <<>> /\ stream' = <<>>
  /\ outOfStep' = FALSE
  /\ pc' = [pc EXCEPT ![p] = "idle"]
  /\ task' = [task EXCEPT ![p] = "none"]
  /\ UNCHANGED <<threads, result, holder, deaths, stranded>>

Command(p) ==
  \/ Found(p) \/ StartEngine(p) \/ ForkFails(p) \/ Connect(p) \/ ConnectFails(p)
  \/ ReadReady(p) \/ Send(p) \/ ReadLine(p) \/ ReadBytes(p) \/ RefusePhoto(p)

-----------------------------------------------------------------------------
(* The engine, a program that is not part of the repository: it greets     *)
(* whoever connects and answers a command at a time.                       *)

EngineStarts ==
  /\ engine = "starting"
  /\ engine' = "up"
  /\ UNCHANGED <<threads, call, fd, requests, stream, deaths, history>>

Answers(r) ==
  CASE r = "greeting" -> {<<"ready">>}
    [] r = "compare"  -> {<<"compare">>, <<"error">>}
    [] r = "enroll"   -> {<<"enroll">>, <<"error">>}
    [] r = "photo"    -> {<<"photo", "bytes">>, <<"error">>}

EngineAnswers ==
  /\ engine = "up" /\ requests # <<>>
  /\ \E a \in Answers(Head(requests)) : stream' = stream \o a
  /\ requests' = Tail(requests)
  /\ UNCHANGED <<threads, call, fd, engine, deaths, history>>

\* It may die in the middle of an answer: of a line, or after the line of a
\* photo.
EngineDies ==
  /\ engine \in {"starting", "up"} /\ deaths < MaxDeaths
  /\ engine' = "dead" /\ deaths' = deaths + 1
  /\ requests' = <<>>
  /\ stream' \in {stream}
                \cup (IF requests = <<>> THEN {} ELSE {stream \o <<"junk">>})
                \cup (IF requests # <<>> /\ Head(requests) = "photo"
                      THEN {stream \o <<"photo">>} ELSE {})
  /\ stranded' = (stranded \/ ~fd)
  /\ UNCHANGED <<threads, call, fd, outOfStep>>

-----------------------------------------------------------------------------
(* The compare thread.                                                     *)

FaceTop ==
  /\ facePc = "top" /\ (active \/ ~running)
  /\ IF running THEN facePc' = "prepared" /\ Call("face", "prepare")
     ELSE facePc' = "last" /\ Call("face", "cleanup")
  /\ UNCHANGED <<running, active, capPc, mainPc, fd, outside, history>>

\* An engine that cannot be reached is tried again, and not replaced.
FacePrepared ==
  /\ facePc = "prepared" /\ pc["face"] = "idle"
  /\ facePc' = IF result["face"] = "ok" THEN "test" ELSE "top"
  /\ Consume("face")
  /\ UNCHANGED <<running, active, capPc, mainPc, fd, outside, history>>

FaceTest ==
  /\ facePc = "test" /\ pc["face"] = "idle"
  /\ IF active /\ running THEN facePc' = "compared" /\ Call("face", "compare")
     ELSE facePc' = "top" /\ UNCHANGED call
  /\ UNCHANGED <<running, active, capPc, mainPc, fd, outside, history>>

\* The answers in which the code finds "ok": 1.
Successes == {"compare", "enroll", "photo"}

\* Mutant: an engine that fails is kept.
FaceComparedKeeping ==
  /\ facePc = "compared" /\ pc["face"] = "idle"
  /\ facePc' = "test"
  /\ Consume("face")
  /\ UNCHANGED <<running, active, capPc, mainPc, fd, outside, history>>

\* What is no result, and a report that cannot be sent, cost the engine its
\* life.  A result without the list of matches is not reported, which is no
\* failure.
FaceCompared ==
  /\ facePc = "compared" /\ pc["face"] = "idle"
  /\ facePc' = "test"
  /\ \/ result["face"] \in Successes \cup {"error"} /\ Consume("face")
     \/ result["face"] \notin {"enroll", "photo"} /\ Call("face", "cleanup")
  /\ UNCHANGED <<running, active, capPc, mainPc, fd, outside, history>>

FaceLast ==
  /\ facePc = "last" /\ pc["face"] = "idle"
  /\ facePc' = "end"
  /\ Consume("face")
  /\ UNCHANGED <<running, active, capPc, mainPc, fd, outside, history>>

-----------------------------------------------------------------------------
(* The capture thread.  Its uploads are VisionUpload's; here they only ask *)
(* the engine for a name.                                                  *)

CapTop ==
  /\ capPc = "top" /\ (active \/ ~running)
  /\ IF running THEN capPc' = "photographed" /\ Call("capture", "photo")
     ELSE capPc' = "end" /\ UNCHANGED call
  /\ UNCHANGED <<running, active, facePc, mainPc, fd, outside, history>>

CapPhotographed ==
  /\ capPc = "photographed" /\ pc["capture"] = "idle"
  /\ \/ capPc' = "top" /\ Consume("capture")
     \/ /\ result["capture"] = "photo"
        /\ capPc' = "named" /\ Call("capture", "compare")
  /\ UNCHANGED <<running, active, facePc, mainPc, fd, outside, history>>

CapNamed ==
  /\ capPc = "named" /\ pc["capture"] = "idle"
  /\ capPc' = "top"
  /\ Consume("capture")
  /\ UNCHANGED <<running, active, facePc, mainPc, fd, outside, history>>

-----------------------------------------------------------------------------
(* The main thread, and the switch for speech.                             *)

\* The capture thread may not come into being.
StartFaces ==
  /\ mainPc = "loop" /\ ~running
  /\ running' = TRUE
  /\ facePc' = "top" /\ capPc' \in {"none", "top"}
  /\ UNCHANGED <<active, mainPc, call, fd, outside, history>>

FaceRecog ==
  /\ mainPc = "loop"
  /\ mainPc' = "recog" /\ Call("main", "enroll")
  /\ UNCHANGED <<running, active, facePc, capPc, fd, outside, history>>

FaceRecogDone ==
  /\ mainPc = "recog" /\ pc["main"] = "idle"
  /\ mainPc' = "loop"
  /\ Consume("main")
  /\ UNCHANGED <<running, active, facePc, capPc, fd, outside, history>>

StopFaces ==
  /\ mainPc = "loop" /\ running
  /\ running' = FALSE /\ active' = FALSE
  /\ mainPc' = "join"
  /\ UNCHANGED <<facePc, capPc, call, fd, outside, history>>

JoinFaces ==
  /\ mainPc = "join" /\ facePc = "end" /\ capPc \in {"none", "end"}
  /\ mainPc' = "stopped" /\ Call("main", "cleanup")
  /\ UNCHANGED <<running, active, facePc, capPc, fd, outside, history>>

FacesStopped ==
  /\ mainPc = "stopped" /\ pc["main"] = "idle"
  /\ mainPc' = "loop"
  /\ Consume("main")
  /\ UNCHANGED <<running, active, facePc, capPc, fd, outside, history>>

SetActive ==
  /\ active' \in BOOLEAN
  /\ UNCHANGED <<running, facePc, capPc, mainPc, call, fd, outside, history>>

FaceThread    == FaceTop \/ FacePrepared \/ FaceTest \/ FaceCompared \/ FaceLast
CaptureThread == CapTop \/ CapPhotographed \/ CapNamed
MainGoesOn    == FaceRecogDone \/ JoinFaces \/ FacesStopped

Next ==
  \/ \E p \in Users : Lock(p) \/ Cleanup(p) \/ Command(p)
  \/ EngineStarts \/ EngineAnswers \/ EngineDies
  \/ FaceThread \/ CaptureThread \/ MainGoesOn
  \/ StartFaces \/ FaceRecog \/ StopFaces \/ SetActive

\* The threads go on; nobody waits for the mutex for ever; the engine starts,
\* sometimes within the three seconds, and answers; a process can be started
\* and reached if it is tried again and again.
Fairness ==
  /\ WF_vars(FaceThread) /\ WF_vars(CaptureThread) /\ WF_vars(MainGoesOn)
  /\ WF_vars(EngineStarts) /\ WF_vars(EngineAnswers)
  /\ SF_vars(EngineStarts /\ pc["face"] = "connect")
  /\ SF_vars(StartEngine("face")) /\ SF_vars(Connect("face"))
  /\ WF_vars(\E p \in Users : Command(p))
  /\ \A p \in Users : SF_vars(Lock(p) \/ Cleanup(p))

Spec == Init /\ [][Next]_vars /\ Fairness

-----------------------------------------------------------------------------
(* Properties.                                                             *)

InRange ==
  /\ running \in BOOLEAN /\ active \in BOOLEAN
  /\ facePc \in {"none", "top", "prepared", "test", "compared", "last", "end"}
  /\ capPc \in {"none", "top", "photographed", "named", "end"}
  /\ mainPc \in {"loop", "recog", "join", "stopped"}
  /\ pc \in [Users -> {"idle", "lock", "start", "connect", "ready", "send", "line", "bytes"}]
  /\ task \in [Users -> Tasks]
  /\ result \in [Users -> Messages \cup {"none", "ok", "fail"}]
  /\ holder \in Users \cup {Nobody}
  /\ fd \in BOOLEAN
  /\ engine \in {"none", "starting", "up", "dead"}
  /\ requests \in Seq({"greeting", "compare", "enroll", "photo"})
  /\ stream \in Seq(Messages)
  /\ deaths \in 0..MaxDeaths
  /\ outOfStep \in BOOLEAN /\ stranded \in BOOLEAN

\* Every variable is in its range, and unless a photo was refused no more than
\* one command is under way on the one connection.
TypeOK == InRange /\ (outOfStep \/ Len(requests) <= 1)

\* A thread that is about to send a command finds the connection empty: neither
\* an answer nor the bytes of a photo are left from the thread before it, as
\* long as no photo was refused on it.
CommandsStartClean ==
  \A p \in Users : pc[p] = "send" /\ ~outOfStep => stream = <<>> /\ requests = <<>>

\* What a command returns is an answer to it, although all the commands of all
\* the threads share one connection without a number that would tell the
\* answers apart; a line that is cut off is never taken for a result.
AnswersMatch ==
  [][\A p \in Users :
       pc[p] \in {"line", "bytes"} /\ pc'[p] = "idle" /\ result'[p] \in Successes /\ ~outOfStep
       => result'[p] = task[p]]_vars

\* The connection is not closed under a thread that is using it, which is what
\* the comment over the last cleanup of zh_face_recognition_stop asks for.
InUseIsOpen ==
  \A p \in Users : pc[p] \in {"ready", "send", "line", "bytes"} => fd

\* Every command returns, also when the engine dies in the middle of it, and
\* with it the mutex becomes free for the other threads.
CallsReturn ==
  [](~outOfStep) => \A p \in Users : pc[p] # "idle" ~> pc[p] = "idle"

Compared == facePc = "compared" /\ pc["face"] = "idle" /\ result["face"] # "fail"

\* As long as somebody speaks, the engine compares faces again and again, as
\* the comment on zh_face_recognition_set_active says ("1 = start reporting").
ReportsGoOn == [](~outOfStep) /\ <>[](active /\ running) => []<>Compared

\* It does when no engine dies before a thread has reached it: an engine that
\* dies later is replaced.
ReplacedReportsGoOn == [](~stranded) => ReportsGoOn
=============================================================================

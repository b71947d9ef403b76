-------------------------- MODULE FaceEngine_proofs --------------------------
(* What holds of the face engine's connection for every number of deaths    *)
(* and every backlog.                                                      *)
EXTENDS FaceEngine, SequenceTheorems, TLAPS

-----------------------------------------------------------------------------
(* The inductive invariant.                                                *)

Using == {"start", "connect", "ready", "send", "line", "bytes"}

\* The mutex is held by the thread that is in the middle of a command.
Mutex == \A p \in Users : pc[p] \in Using <=> holder = p

\* What a thread asks for fits the place where it is.
TasksFit ==
  \A p \in Users :
    /\ pc[p] = "lock" => task[p] # "none"
    /\ pc[p] \in Using => task[p] \in {"prepare", "compare", "photo", "enroll"}
    /\ pc[p] \in {"send", "line"} => task[p] \in {"compare", "photo", "enroll"}
    /\ pc[p] = "bytes" => task[p] = "photo"

\* The threads call one command at a time, and live between start and join.
ThreadsFit ==
  /\ facePc \in {"none", "top", "end"} => pc["face"] = "idle"
  /\ capPc \in {"none", "top", "end"} => pc["capture"] = "idle"
  /\ mainPc \in {"loop", "join"} => pc["main"] = "idle"
  /\ mainPc \in {"join", "stopped"} => ~running
  /\ ~running /\ mainPc # "join" => facePc \in {"none", "end"} /\ capPc \in {"none", "end"}

\* The connection while the answer to r is awaited: the engine has it still to
\* give, or has given it, or has died over it.
Awaited(r) ==
  \/ requests = <<r>> /\ stream = <<>>
  \/ /\ requests = <<>>
     /\ stream \in {<<>>, <<"junk">>} \cup Answers(r) \cup (IF r = "photo" THEN {<<"photo">>} ELSE {})

InStep ==
  /\ (\A p \in Users : pc[p] \notin {"ready", "line", "bytes"}) => stream = <<>> /\ requests = <<>>
  /\ \A p \in Users :
       /\ pc[p] = "ready" => Awaited("greeting")
       /\ pc[p] = "line" => Awaited(task[p])
       /\ pc[p] = "bytes" => requests = <<>> /\ stream \in {<<>>, <<"bytes">>}

\* What the threads share.
Shared ==
  /\ InUseIsOpen
  /\ engine # "up" => requests = <<>>
  /\ ~outOfStep => InStep

IInv == InRange /\ Mutex /\ TasksFit /\ ThreadsFit /\ Shared

USE DEF Users, Nobody, Tasks, Messages, Using

Places == {"idle", "lock", "start", "connect", "ready", "send", "line", "bytes"}

LEMMA InitInv == Init => IInv
<1> SUFFICES ASSUME Init PROVE IInv
  OBVIOUS
<1>1. InRange
  <2>1. 0 \in 0..MaxDeaths
    BY EngineAssumption
  <2>2. <<>> \in Seq({"greeting", "compare", "enroll", "photo"}) /\ <<>> \in Seq(Messages)
    OBVIOUS
  <2> QED
    BY <2>1, <2>2, Zenon DEF Init, InRange
<1>2. Mutex /\ TasksFit /\ ThreadsFit /\ Shared
  BY DEF Init, Mutex, TasksFit, ThreadsFit, Shared, InUseIsOpen, InStep
<1> QED
  BY <1>1, <1>2 DEF IInv

-----------------------------------------------------------------------------
(* The threads' own steps.                                                 *)

\* A thread that begins a command does not touch the connection.
LEMMA CallKeeps ==
  ASSUME IInv, NEW p \in Users, pc[p] = "idle", NEW t \in Tasks \ {"none"},
         Call(p, t), UNCHANGED <<fd, outside, history>>
  PROVE  /\ pc' = [pc EXCEPT ![p] = "lock"]
         /\ pc' \in [Users -> Places] /\ task' \in [Users -> Tasks]
         /\ result' \in [Users -> Messages \cup {"none", "ok", "fail"}]
         /\ holder' = holder
         /\ Mutex' /\ TasksFit' /\ Shared'
<1>1. /\ pc' = [pc EXCEPT ![p] = "lock"] /\ task' = [task EXCEPT ![p] = t]
      /\ result' = [result EXCEPT ![p] = "none"] /\ holder' = holder
  BY DEF Call
<1>2. /\ pc \in [Users -> Places] /\ task \in [Users -> Tasks]
      /\ result \in [Users -> Messages \cup {"none", "ok", "fail"}]
  BY DEF IInv, InRange, Places
<1>3. /\ pc' \in [Users -> Places] /\ task' \in [Users -> Tasks]
      /\ result' \in [Users -> Messages \cup {"none", "ok", "fail"}]
  BY <1>1, <1>2 DEF Places
<1>4. Mutex'
  BY <1>1, <1>2 DEF IInv, Mutex, Places
<1>5. TasksFit'
  BY <1>1, <1>2 DEF IInv, TasksFit, Places
<1>6. Shared'
  <2>1. \A q \in Users : (pc'[q] = pc[q] /\ task'[q] = task[q]) \/ (q = p /\ pc'[q] = "lock")
    BY <1>1, <1>2
  <2>2. UNCHANGED <<fd, engine, requests, stream, outOfStep>>
    BY DEF outside, history
  <2>3. InUseIsOpen'
    BY <2>1, <2>2 DEF IInv, Shared, InUseIsOpen
  <2>4. InStep => InStep'
    BY <2>1, <2>2 DEF InStep, Awaited
  <2> QED
    BY <2>2, <2>3, <2>4 DEF IInv, Shared
<1> QED
  BY <1>1, <1>3, <1>4, <1>5, <1>6

\* Nor does one that looks at a result.
LEMMA ConsumeKeeps ==
  ASSUME IInv, NEW p \in Users, pc[p] = "idle",
         Consume(p) \/ UNCHANGED call, UNCHANGED <<fd, outside, history>>
  PROVE  /\ pc' = pc
         /\ task' \in [Users -> Tasks]
         /\ result' \in [Users -> Messages \cup {"none", "ok", "fail"}]
         /\ holder' = holder
         /\ Mutex' /\ TasksFit' /\ Shared'
<1>1. /\ pc \in [Users -> Places] /\ task \in [Users -> Tasks]
      /\ result \in [Users -> Messages \cup {"none", "ok", "fail"}]
  BY DEF IInv, InRange, Places
<1>2. /\ pc' = pc /\ holder' = holder
      /\ task' \in [Users -> Tasks]
      /\ result' \in [Users -> Messages \cup {"none", "ok", "fail"}]
      /\ \A q \in Users : q # p => task'[q] = task[q]
  BY <1>1 DEF Consume, call
<1>3. Mutex'
  BY <1>2 DEF IInv, Mutex
<1>4. TasksFit'
  BY <1>1, <1>2 DEF IInv, TasksFit
<1>5. Shared'
  <2>1. UNCHANGED <<fd, engine, requests, stream, outOfStep>>
    BY DEF outside, history
  <2>2. InUseIsOpen'
    BY <1>2, <2>1 DEF IInv, Shared, InUseIsOpen
  <2>3. InStep => InStep'
    BY <1>2, <2>1 DEF InStep, Awaited
  <2> QED
    BY <2>1, <2>2, <2>3 DEF IInv, Shared
<1> QED
  BY <1>2, <1>3, <1>4, <1>5

\* The steps of the compare thread, the capture thread and the main thread
\* between commands.
LEMMA ThreadsKeep ==
  ASSUME IInv,
         FaceThread \/ CaptureThread \/ MainGoesOn \/ StartFaces \/ FaceRecog \/ StopFaces \/ SetActive
  PROVE  IInv'
<1> USE DEF outside, history
<1>r. /\ running \in BOOLEAN /\ active \in BOOLEAN
      /\ facePc \in {"none", "top", "prepared", "test", "compared", "last", "end"}
      /\ capPc \in {"none", "top", "photographed", "named", "end"}
      /\ mainPc \in {"loop", "recog", "join", "stopped"}
      /\ pc \in [Users -> Places]
  BY DEF IInv, InRange, Places
<1>t. ThreadsFit
  BY DEF IInv
\* It is enough to look at the threads' own variables.
<1>c. ASSUME NEW p \in Users, pc[p] = "idle",
             \/ \E t \in Tasks \ {"none"} : Call(p, t)
             \/ Consume(p)
             \/ UNCHANGED call,
             UNCHANGED <<fd, outside, history>>,
             running' \in BOOLEAN, active' \in BOOLEAN,
             facePc' \in {"none", "top", "prepared", "test", "compared", "last", "end"},
             capPc' \in {"none", "top", "photographed", "named", "end"},
             mainPc' \in {"loop", "recog", "join", "stopped"},
             ThreadsFit'
      PROVE  IInv'
  <2>1. /\ pc' \in [Users -> Places] /\ task' \in [Users -> Tasks]
        /\ result' \in [Users -> Messages \cup {"none", "ok", "fail"}]
        /\ holder' = holder
        /\ Mutex' /\ TasksFit' /\ Shared'
    <3>1. CASE \E t \in Tasks \ {"none"} : Call(p, t)
      BY <1>c, <3>1, CallKeeps
    <3>2. CASE Consume(p) \/ UNCHANGED call
      BY <1>c, <1>r, <3>2, ConsumeKeeps
    <3> QED
      BY <1>c, <3>1, <3>2
  <2>2. InRange'
    BY <1>c, <2>1 DEF IInv, InRange, Places
  <2> QED
    BY <1>c, <2>1, <2>2 DEF IInv
<1>1. CASE FaceTop
  <2>1. pc["face"] = "idle"
    BY <1>1, <1>t DEF FaceTop, ThreadsFit
  <2>2. \E t \in Tasks \ {"none"} : Call("face", t)
    BY <1>1 DEF FaceTop
  <2>3. ThreadsFit'
    BY <1>1, <1>r, <1>t DEF FaceTop, ThreadsFit, Call
  <2> QED
    BY <1>1, <1>r, <1>c, <2>1, <2>2, <2>3 DEF FaceTop
<1>2. CASE FacePrepared
  <2>1. ThreadsFit'
    BY <1>2, <1>r, <1>t DEF FacePrepared, ThreadsFit, Consume
  <2> QED
    BY <1>2, <1>r, <1>c, <2>1 DEF FacePrepared
<1>3. CASE FaceTest
  <2>1. (\E t \in Tasks \ {"none"} : Call("face", t)) \/ UNCHANGED call
    BY <1>3 DEF FaceTest
  <2>2. ThreadsFit'
    BY <1>3, <1>r, <1>t DEF FaceTest, ThreadsFit, Call, call
  <2> QED
    BY <1>3, <1>r, <1>c, <2>1, <2>2 DEF FaceTest
<1>4. CASE FaceCompared
  <2>1. (\E t \in Tasks \ {"none"} : Call("face", t)) \/ Consume("face")
    BY <1>4 DEF FaceCompared
  <2>2. ThreadsFit'
    BY <1>4, <1>r, <1>t DEF FaceCompared, ThreadsFit, Call, Consume
  <2> QED
    BY <1>4, <1>r, <1>c, <2>1, <2>2 DEF FaceCompared
<1>5. CASE FaceLast
  <2>1. ThreadsFit'
    BY <1>5, <1>r, <1>t DEF FaceLast, ThreadsFit, Consume
  <2> QED
    BY <1>5, <1>r, <1>c, <2>1 DEF FaceLast
<1>6. CASE CapTop
  <2>1. pc["capture"] = "idle"
    BY <1>6, <1>t DEF CapTop, ThreadsFit
  <2>2. (\E t \in Tasks \ {"none"} : Call("capture", t)) \/ UNCHANGED call
    BY <1>6 DEF CapTop
  <2>3. ThreadsFit'
    BY <1>6, <1>r, <1>t DEF CapTop, ThreadsFit, Call, call
  <2> QED
    BY <1>6, <1>r, <1>c, <2>1, <2>2, <2>3 DEF CapTop
<1>7. CASE CapPhotographed
  <2>1. (\E t \in Tasks \ {"none"} : Call("capture", t)) \/ Consume("capture")
    BY <1>7 DEF CapPhotographed
  <2>2. ThreadsFit'
    BY <1>7, <1>r, <1>t DEF CapPhotographed, ThreadsFit, Call, Consume
  <2> QED
    BY <1>7, <1>r, <1>c, <2>1, <2>2 DEF CapPhotographed
<1>8. CASE CapNamed
  <2>1. ThreadsFit'
    BY <1>8, <1>r, <1>t DEF CapNamed, ThreadsFit, Consume
  <2> QED
    BY <1>8, <1>r, <1>c, <2>1 DEF CapNamed
<1>9. CASE FaceRecogDone
  <2>1. ThreadsFit'
    BY <1>9, <1>r, <1>t DEF FaceRecogDone, ThreadsFit, Consume
  <2> QED
    BY <1>9, <1>r, <1>c, <2>1 DEF FaceRecogDone
<1>10. CASE JoinFaces
  <2>1. pc["main"] = "idle"
    BY <1>10, <1>t DEF JoinFaces, ThreadsFit
  <2>2. \E t \in Tasks \ {"none"} : Call("main", t)
    BY <1>10 DEF JoinFaces
  <2>3. ThreadsFit'
    BY <1>10, <1>r, <1>t DEF JoinFaces, ThreadsFit, Call
  <2> QED
    BY <1>10, <1>r, <1>c, <2>1, <2>2, <2>3 DEF JoinFaces
<1>11. CASE FacesStopped
  <2>1. ThreadsFit'
    BY <1>11, <1>r, <1>t DEF FacesStopped, ThreadsFit, Consume
  <2> QED
    BY <1>11, <1>r, <1>c, <2>1 DEF FacesStopped
<1>12. CASE StartFaces
  <2>1. pc["main"] = "idle"
    BY <1>12, <1>t DEF StartFaces, ThreadsFit
  <2>2. ThreadsFit'
    BY <1>12, <1>r, <1>t DEF StartFaces, ThreadsFit, call
  <2> QED
    BY <1>12, <1>r, <1>c, <2>1, <2>2 DEF StartFaces
<1>13. CASE FaceRecog
  <2>1. pc["main"] = "idle"
    BY <1>13, <1>t DEF FaceRecog, ThreadsFit
  <2>2. \E t \in Tasks \ {"none"} : Call("main", t)
    BY <1>13 DEF FaceRecog
  <2>3. ThreadsFit'
    BY <1>13, <1>r, <1>t DEF FaceRecog, ThreadsFit, Call
  <2> QED
    BY <1>13, <1>r, <1>c, <2>1, <2>2, <2>3 DEF FaceRecog
<1>14. CASE StopFaces
  <2>1. pc["main"] = "idle"
    BY <1>14, <1>t DEF StopFaces, ThreadsFit
  <2>2. ThreadsFit'
    BY <1>14, <1>r, <1>t DEF StopFaces, ThreadsFit, call
  <2> QED
    BY <1>14, <1>r, <1>c, <2>1, <2>2 DEF StopFaces
<1>15. CASE SetActive
  <2>1. InRange'
    BY <1>15 DEF IInv, InRange, SetActive, call
  <2>2. Mutex' /\ TasksFit' /\ ThreadsFit' /\ Shared'
    BY <1>15 DEF IInv, Mutex, TasksFit, ThreadsFit, Shared, InUseIsOpen, InStep, Awaited, SetActive, call
  <2> QED
    BY <2>1, <2>2 DEF IInv
<1> QED
  BY <1>1, <1>2, <1>3, <1>4, <1>5, <1>6, <1>7, <1>8, <1>9, <1>10, <1>11, <1>12, <1>13, <1>14, <1>15
  DEF FaceThread, CaptureThread, MainGoesOn

-----------------------------------------------------------------------------
(* The steps of the thread that holds the mutex.                           *)

Results == Messages \cup {"ok", "fail"}

\* The places where a command of task t may be.
Fits(place, t) ==
  /\ place \in Using
  /\ place \in {"send", "line"} => t \in {"compare", "photo", "enroll"}
  /\ place = "bytes" => t = "photo"

\* InStep, for the only thread that can be on the connection.
Here(place, t) ==
  /\ place \notin {"ready", "line", "bytes"} => stream = <<>> /\ requests = <<>>
  /\ place = "ready" => Awaited("greeting")
  /\ place = "line" => Awaited(t)
  /\ place = "bytes" => requests = <<>> /\ stream \in {<<>>, <<"bytes">>}

\* All but what the threads share is as it should be when the holder goes on to
\* the next place of its command or returns from it.
LEMMA HolderKeeps ==
  ASSUME IInv, NEW p \in Users, pc[p] \in Using, UNCHANGED threads,
         \/ \E q \in Places : Fits(q, task[p]) /\ Goto(p, q)
         \/ \E r \in Results : Return(p, r)
  PROVE  /\ pc' \in [Users -> Places] /\ task' = task
         /\ result' \in [Users -> Messages \cup {"none", "ok", "fail"}]
         /\ holder' \in Users \cup {Nobody}
         /\ Mutex' /\ TasksFit' /\ ThreadsFit'
         /\ InStep <=> Here(pc[p], task[p])
         /\ InStep' <=> Here(pc[p], task[p])'
         /\ InUseIsOpen' <=> (pc'[p] \in {"ready", "send", "line", "bytes"} => fd')
<1>1. /\ pc \in [Users -> Places] /\ task \in [Users -> Tasks]
      /\ result \in [Users -> Messages \cup {"none", "ok", "fail"}]
      /\ holder \in Users \cup {Nobody}
  BY DEF IInv, InRange, Places
<1>2. holder = p /\ \A q \in Users \ {p} : pc[q] \in {"idle", "lock"}
  BY <1>1 DEF IInv, Mutex, Places
<1>3. /\ pc' \in [Users -> Places] /\ task' = task
      /\ result' \in [Users -> Messages \cup {"none", "ok", "fail"}]
      /\ holder' \in Users \cup {Nobody}
      /\ \A q \in Users \ {p} : pc'[q] = pc[q]
  BY <1>1 DEF Goto, Return, Results, Places
<1>4. \/ pc'[p] \in Using /\ holder' = p /\ Fits(pc'[p], task[p])
      \/ pc'[p] = "idle" /\ holder' = Nobody
  BY <1>1, <1>2 DEF Goto, Return, Fits
<1>5. Mutex'
  BY <1>2, <1>3, <1>4 DEF Mutex
<1>6. TasksFit'
  BY <1>3, <1>4 DEF IInv, TasksFit, Fits
<1>7. ThreadsFit'
  BY <1>3, <1>4 DEF IInv, ThreadsFit, threads
<1>8. InStep <=> Here(pc[p], task[p])
  BY <1>2 DEF InStep, Here
<1>9. InStep' <=> Here(pc[p], task[p])'
  BY <1>2, <1>3 DEF InStep, Here, Awaited
<1>10. InUseIsOpen' <=> (pc'[p] \in {"ready", "send", "line", "bytes"} => fd')
  BY <1>2, <1>3 DEF InUseIsOpen
<1> QED
  BY <1>3, <1>5, <1>6, <1>7, <1>8, <1>9, <1>10

\* What is left to show of a step of the holder.
LEMMA HolderStep ==
  ASSUME IInv, NEW p \in Users, pc[p] \in Using, UNCHANGED threads,
         \/ \E q \in Places : Fits(q, task[p]) /\ Goto(p, q)
         \/ \E r \in Results : Return(p, r),
         fd' \in BOOLEAN, engine' \in {"none", "starting", "up", "dead"},
         requests' \in Seq({"greeting", "compare", "enroll", "photo"}),
         stream' \in Seq(Messages), UNCHANGED <<deaths, stranded>>,
         outOfStep' \in BOOLEAN,
         pc'[p] \in {"ready", "send", "line", "bytes"} => fd',
         engine' # "up" => requests' = <<>>,
         ~outOfStep' => ~outOfStep,
         Here(pc[p], task[p]) /\ ~outOfStep /\ ~outOfStep' => Here(pc[p], task[p])'
  PROVE  IInv'
<1>1. /\ pc' \in [Users -> Places] /\ task' = task
      /\ result' \in [Users -> Messages \cup {"none", "ok", "fail"}]
      /\ holder' \in Users \cup {Nobody}
      /\ Mutex' /\ TasksFit' /\ ThreadsFit'
      /\ InStep <=> Here(pc[p], task[p])
      /\ InStep' <=> Here(pc[p], task[p])'
      /\ InUseIsOpen' <=> (pc'[p] \in {"ready", "send", "line", "bytes"} => fd')
  BY HolderKeeps
<1>2. InRange'
  BY <1>1 DEF IInv, InRange, Places, threads
<1>3. Shared'
  BY <1>1 DEF IInv, Shared
<1> QED
  BY <1>1, <1>2, <1>3 DEF IInv

\* A line leaves messages behind.
LEMMA LinesFit ==
  ASSUME stream \in Seq(Messages), NEW m \in Messages, NEW left, LineIs(m, left)
  PROVE  left \in Seq(Messages)
<1>1. stream # <<>> /\ Len(stream) \in Nat
  BY DEF LineIs
<1>2. Tail(stream) \in Seq(Messages)
  BY <1>1
<1>3. Len(stream) > 1 => Tail(Tail(stream)) \in Seq(Messages)
  <2>1. Len(Tail(stream)) = Len(stream) - 1
    BY <1>1, HeadTailProperties
  <2>2. Tail(stream) = <<>> => Len(Tail(stream)) = 0
    BY EmptySeq
  <2> QED
    BY <1>1, <1>2, <2>1, <2>2, HeadTailProperties
<1>4. <<"rest">> \o Tail(stream) \in Seq(Messages)
  <2>1. <<"rest">> \in Seq(Messages)
    OBVIOUS
  <2> QED
    BY <1>2, <2>1
<1>5. <<>> \in Seq(Messages)
  OBVIOUS
<1> QED
  BY <1>2, <1>3, <1>4, <1>5 DEF LineIs

\* On a connection in step, a line is the whole answer or the line of a photo
\* before its bytes; one that is cut off is nobody's answer.
LEMMA LinesInStep ==
  ASSUME NEW t \in {"compare", "photo", "enroll"}, Awaited(t), NEW m, NEW left, LineIs(m, left)
  PROVE  /\ requests = <<>>
         /\ m \in {t, "error", "junk"}
         /\ left = <<>> \/ (t = "photo" /\ m = "photo" /\ left = <<"bytes">>)
<1>1. stream # <<>>
  BY DEF LineIs
<1>2. requests = <<>>
  BY <1>1 DEF Awaited
<1>3. \/ \E n \in {t, "error", "junk"} : stream = <<n>>
      \/ t = "photo" /\ stream = <<"photo", "bytes">>
  BY <1>1 DEF Awaited, Answers
<1>4. ASSUME NEW n \in {t, "error", "junk"}, stream = <<n>>
      PROVE  m = n /\ left = <<>>
  <2>1. Head(stream) = n /\ Tail(stream) = <<>> /\ n \notin {"bytes", "rest"}
    BY <1>4
  <2> QED
    BY <2>1 DEF LineIs
<1>5. ASSUME stream = <<"photo", "bytes">>
      PROVE  m = "photo" /\ left = <<"bytes">>
  <2>1. Head(stream) = "photo" /\ Tail(stream) = <<"bytes">>
    BY <1>5
  <2> QED
    BY <2>1 DEF LineIs
<1> QED
  BY <1>2, <1>3, <1>4, <1>5

LEMMA CommandKeeps ==
  ASSUME IInv, NEW p \in Users, Command(p)
  PROVE  IInv'
<1> USE DEF outside, history
<1>r. /\ pc \in [Users -> Places] /\ task \in [Users -> Tasks]
      /\ fd \in BOOLEAN /\ engine \in {"none", "starting", "up", "dead"}
      /\ requests \in Seq({"greeting", "compare", "enroll", "photo"}) /\ stream \in Seq(Messages)
      /\ outOfStep \in BOOLEAN
  BY DEF IInv, InRange, Places
<1>u. pc[p] \in Using => task[p] \in {"prepare", "compare", "photo", "enroll"}
  BY DEF IInv, TasksFit
<1>t. /\ pc[p] \in {"send", "line"} => task[p] \in {"compare", "photo", "enroll"}
      /\ pc[p] = "bytes" => task[p] = "photo"
  BY DEF IInv, TasksFit
<1>s. /\ pc[p] \in {"ready", "send", "line", "bytes"} => fd
      /\ engine # "up" => requests = <<>>
  BY DEF IInv, Shared, InUseIsOpen
\* Steps that leave the connection alone stay outside the middle of an answer.
<1>q. ASSUME pc'[p] \notin {"ready", "line", "bytes"}, pc[p] \notin {"ready", "line", "bytes"},
             UNCHANGED <<requests, stream>>
      PROVE  Here(pc[p], task[p]) => Here(pc[p], task[p])'
  BY <1>q DEF Here
\* The engine is there: the command goes on.
<1>p. ASSUME Prepared(p), pc[p] \in Using
      PROVE  /\ \/ \E q \in Places : Fits(q, task[p]) /\ Goto(p, q)
                \/ \E r \in Results : Return(p, r)
             /\ pc'[p] \in {"send", "idle"}
  <2>1. CASE task[p] = "prepare"
    BY <2>1, <1>p, <1>r DEF Prepared, Return, Results
  <2>2. CASE task[p] # "prepare"
    BY <2>2, <1>p, <1>r, <1>u DEF Prepared, Goto, Fits, Places
  <2> QED
    BY <2>1, <2>2
<1>1. CASE Found(p)
  <2>1. CASE fd
    <3>1. Prepared(p) /\ pc[p] = "start"
      BY <1>1, <2>1 DEF Found
    <3> QED
      BY <1>1, <1>p, <1>q, <1>r, <1>s, <2>1, <3>1, HolderStep DEF Found
  <2>2. CASE ~fd
    <3>1. Goto(p, "connect") /\ Fits("connect", task[p]) /\ pc[p] = "start" /\ pc'[p] = "connect"
      BY <1>1, <1>r, <2>2 DEF Found, Goto, Fits, Places
    <3> QED
      BY <1>1, <1>q, <1>r, <1>s, <3>1, HolderStep DEF Found, Places
  <2> QED
    BY <2>1, <2>2
<1>2. CASE StartEngine(p)
  <2>1. CASE fd
    <3>1. Prepared(p) /\ pc[p] = "start"
      BY <1>2, <2>1 DEF StartEngine
    <3> QED
      BY <1>2, <1>p, <1>q, <1>r, <1>s, <2>1, <3>1, HolderStep DEF StartEngine
  <2>2. CASE ~fd
    <3>1. Goto(p, "connect") /\ Fits("connect", task[p]) /\ pc[p] = "start" /\ pc'[p] = "connect"
      BY <1>2, <1>r, <2>2 DEF StartEngine, Goto, Fits, Places
    <3> QED
      BY <1>2, <1>q, <1>r, <1>s, <3>1, HolderStep DEF StartEngine, Places
  <2> QED
    BY <2>1, <2>2
<1>3. CASE ForkFails(p)
  <2>1. Return(p, "fail") /\ pc[p] = "start" /\ pc'[p] = "idle"
    BY <1>3, <1>r DEF ForkFails, Return
  <2> QED
    BY <1>3, <1>q, <1>r, <1>s, <2>1, HolderStep DEF ForkFails, Results
<1>4. CASE Connect(p)
  <2>1. Goto(p, "ready") /\ Fits("ready", task[p]) /\ pc[p] = "connect" /\ pc'[p] = "ready"
    BY <1>4, <1>r DEF Connect, Goto, Fits, Places
  <2>2. requests' = <<"greeting">> /\ fd' /\ engine = "up" /\ UNCHANGED <<stream, outOfStep>>
    BY <1>4 DEF Connect
  <2>3. Here(pc[p], task[p]) => Here(pc[p], task[p])'
    BY <2>1, <2>2 DEF Here, Awaited
  <2>4. requests' \in Seq({"greeting", "compare", "enroll", "photo"})
    BY <2>2
  <2> QED
    BY <1>4, <1>r, <1>s, <2>1, <2>2, <2>3, <2>4, HolderStep DEF Connect, Places
<1>5. CASE ConnectFails(p)
  <2>1. Return(p, "fail") /\ pc[p] = "connect" /\ pc'[p] = "idle"
    BY <1>5, <1>r DEF ConnectFails, Return
  <2> QED
    BY <1>5, <1>q, <1>r, <1>s, <2>1, HolderStep DEF ConnectFails, Results
<1>6. CASE ReadReady(p)
  <2>1. Prepared(p) /\ pc[p] = "ready" /\ pc'[p] \in {"send", "idle"}
    BY <1>6, <1>p DEF ReadReady
  <2>2. stream' \in Seq(Messages)
    BY <1>6, <1>r DEF ReadReady
  <2>3. Here(pc[p], task[p]) => Here(pc[p], task[p])'
    <3>1. SUFFICES ASSUME Awaited("greeting") PROVE stream' = <<>> /\ requests' = <<>>
      BY <2>1 DEF Here
    <3>2. requests' = requests
      BY <1>6 DEF ReadReady
    <3>3. CASE requests = <<"greeting">> /\ stream = <<>>
      <4>1. requests # <<>>
        BY <3>3
      <4> QED
        BY <1>6, <1>s, <3>3, <4>1 DEF ReadReady
    <3>4. CASE requests = <<>> /\ stream \in {<<>>, <<"junk">>, <<"ready">>}
      BY <1>6, <3>2, <3>4 DEF ReadReady
    <3> QED
      BY <3>1, <3>3, <3>4 DEF Awaited, Answers
  <2> QED
    BY <1>6, <1>p, <1>r, <1>s, <2>1, <2>2, <2>3, HolderStep DEF ReadReady
<1>7. CASE Send(p)
  <2>1. CASE engine = "up"
    <3>1. Goto(p, "line") /\ Fits("line", task[p]) /\ pc[p] = "send" /\ pc'[p] = "line"
      BY <1>7, <1>r, <1>t, <2>1 DEF Send, Goto, Fits, Places
    <3>2. requests' = Append(requests, task[p]) /\ UNCHANGED <<fd, engine, stream, outOfStep>>
      BY <1>7, <2>1 DEF Send
    <3>3. requests' \in Seq({"greeting", "compare", "enroll", "photo"})
      BY <1>r, <1>t, <3>1, <3>2
    <3>4. Here(pc[p], task[p]) => Here(pc[p], task[p])'
      <4>1. SUFFICES ASSUME stream = <<>>, requests = <<>> PROVE Awaited(task[p])'
        BY <3>1 DEF Here
      <4>2. requests' = <<task[p]>> /\ task'[p] = task[p]
        BY <3>1, <3>2, <4>1 DEF Goto
      <4> QED
        BY <3>2, <4>1, <4>2 DEF Awaited
    <3> QED
      BY <1>7, <1>r, <1>s, <2>1, <3>1, <3>2, <3>3, <3>4, HolderStep DEF Send, Places
  <2>2. CASE engine # "up"
    <3>1. Return(p, "fail") /\ pc[p] = "send" /\ pc'[p] = "idle" /\ UNCHANGED requests
      BY <1>7, <1>r, <2>2 DEF Send, Return
    <3> QED
      BY <1>7, <1>q, <1>r, <1>s, <3>1, HolderStep DEF Send, Results
  <2> QED
    BY <2>1, <2>2
<1>8. CASE ReadLine(p)
  <2>0. pc[p] = "line" /\ task[p] \in {"compare", "photo", "enroll"}
    BY <1>8, <1>t DEF ReadLine
  <2>1. ASSUME NEW m \in Messages, LineIs(m, stream'),
               \/ task[p] # "photo" /\ Return(p, m)
               \/ task[p] = "photo" /\ m = "photo" /\ Goto(p, "bytes")
               \/ task[p] = "photo" /\ m # "photo" /\ Return(p, "fail")
        PROVE  IInv'
    <3>1. stream' \in Seq(Messages)
      BY <1>r, <2>1, LinesFit
    <3>2. \/ (\E r \in Results : Return(p, r)) /\ pc'[p] = "idle" /\ ~(task[p] = "photo" /\ m = "photo")
          \/ Goto(p, "bytes") /\ Fits("bytes", task[p]) /\ pc'[p] = "bytes"
      BY <1>r, <2>1 DEF Return, Goto, Fits, Results, Places
    <3>3. requests' = requests /\ task'[p] = task[p] /\ UNCHANGED <<threads, fd, engine, deaths, history>>
      BY <1>8, <2>1 DEF ReadLine, Goto, Return
    <3>4. Here(pc[p], task[p]) => Here(pc[p], task[p])'
      <4>1. SUFFICES ASSUME Awaited(task[p]) PROVE Here(pc[p], task[p])'
        BY <2>0 DEF Here
      <4>2. /\ requests = <<>>
            /\ stream' = <<>> \/ (task[p] = "photo" /\ m = "photo" /\ stream' = <<"bytes">>)
        BY <2>0, <2>1, <4>1, LinesInStep
      <4> QED
        BY <3>2, <3>3, <4>2 DEF Here
    <3>5. \/ \E q \in Places : Fits(q, task[p]) /\ Goto(p, q)
          \/ \E r \in Results : Return(p, r)
      BY <3>2 DEF Places
    <3>6. pc'[p] \in {"ready", "send", "line", "bytes"} => fd'
      BY <1>s, <2>0, <3>3
    <3> QED
      BY <1>r, <1>s, <2>0, <3>1, <3>3, <3>4, <3>5, <3>6, HolderStep
  <2>2. CASE stream = <<>> /\ engine # "up" /\ Return(p, "fail") /\ UNCHANGED stream
    <3>1. pc'[p] = "idle" /\ requests = <<>> /\ UNCHANGED requests
      BY <1>8, <1>r, <1>s, <2>2 DEF ReadLine, Return
    <3>2. Here(pc[p], task[p])'
      BY <2>2, <3>1 DEF Here
    <3> QED
      BY <1>8, <1>r, <1>s, <2>0, <2>2, <3>1, <3>2, HolderStep DEF ReadLine, Results
  <2> QED
    BY <1>8, <2>1, <2>2 DEF ReadLine
<1>9. CASE ReadBytes(p)
  <2>0. pc[p] = "bytes" /\ requests' = requests
    BY <1>9 DEF ReadBytes
  <2>1. stream' \in Seq(Messages)
    <3>1. stream # <<>> => Tail(stream) \in Seq(Messages)
      BY <1>r
    <3> QED
      BY <1>9, <1>r, <3>1 DEF ReadBytes
  <2>2. (\E r \in Results : Return(p, r)) /\ pc'[p] = "idle"
    BY <1>9, <1>r DEF ReadBytes, Return, Results
  <2>3. Here(pc[p], task[p]) => Here(pc[p], task[p])'
    <3>1. SUFFICES ASSUME requests = <<>>, stream \in {<<>>, <<"bytes">>} PROVE stream' = <<>>
      BY <2>0, <2>2 DEF Here
    <3>2. Tail(<<"bytes">>) = <<>>
      OBVIOUS
    <3> QED
      BY <1>9, <3>1, <3>2 DEF ReadBytes
  <2> QED
    BY <1>9, <1>r, <1>s, <2>0, <2>1, <2>2, <2>3, HolderStep DEF ReadBytes
<1>10. CASE RefusePhoto(p)
  <2>1. Return(p, "fail") /\ pc[p] = "bytes" /\ pc'[p] = "idle" /\ outOfStep'
    BY <1>10, <1>r DEF RefusePhoto, Return
  <2> QED
    BY <1>10, <1>r, <1>s, <2>1, HolderStep DEF RefusePhoto, Results
<1> QED
  BY <1>1, <1>2, <1>3, <1>4, <1>5, <1>6, <1>7, <1>8, <1>9, <1>10 DEF Command

-----------------------------------------------------------------------------
(* Taking the mutex, and getting rid of the engine.                        *)

LEMMA LockKeeps ==
  ASSUME IInv, NEW p \in Users, Lock(p)
  PROVE  IInv'
<1>1. /\ pc \in [Users -> Places] /\ holder = Nobody /\ pc[p] = "lock" /\ task[p] # "cleanup"
      /\ task \in [Users -> Tasks] /\ task[p] # "none"
      /\ pc' = [pc EXCEPT ![p] = "start"] /\ holder' = p
      /\ UNCHANGED <<threads, task, result, fd, outside, history>>
  BY DEF IInv, InRange, TasksFit, Lock, Places
<1>2. InRange'
  BY <1>1 DEF IInv, InRange, threads, outside, history, Places
<1>3. Mutex' /\ TasksFit' /\ ThreadsFit'
  BY <1>1 DEF IInv, Mutex, TasksFit, ThreadsFit, threads, Places
<1>4. \A q \in Users : pc[q] \notin Using
  BY <1>1 DEF IInv, Mutex
<1>5. Shared'
  BY <1>1, <1>4 DEF IInv, Shared, InUseIsOpen, InStep, Awaited, outside, history, Places
<1> QED
  BY <1>2, <1>3, <1>5 DEF IInv

\* Nobody is in the middle of a command when the connection is closed.
LEMMA CleanupKeeps ==
  ASSUME IInv, NEW p \in Users, Cleanup(p)
  PROVE  IInv'
<1>1. /\ pc \in [Users -> Places] /\ holder = Nobody /\ pc[p] = "lock"
      /\ task \in [Users -> Tasks]
      /\ pc' = [pc EXCEPT ![p] = "idle"] /\ task' = [task EXCEPT ![p] = "none"]
      /\ fd' = FALSE /\ engine' = "none" /\ requests' = <<>> /\ stream' = <<>> /\ outOfStep' = FALSE
      /\ UNCHANGED <<threads, result, holder, deaths, stranded>>
  BY DEF IInv, InRange, Cleanup, Places
<1>2. \A q \in Users : pc'[q] \notin Using
  BY <1>1 DEF IInv, Mutex, Places
<1>3. InRange'
  <2>1. requests' \in Seq({"greeting", "compare", "enroll", "photo"}) /\ stream' \in Seq(Messages)
    BY <1>1
  <2> QED
    BY <1>1, <2>1 DEF IInv, InRange, threads, Places
<1>4. Mutex' /\ TasksFit' /\ ThreadsFit'
  BY <1>1, <1>2 DEF IInv, Mutex, TasksFit, ThreadsFit, threads, Places
<1>5. Shared'
  BY <1>1, <1>2 DEF Shared, InUseIsOpen, InStep
<1> QED
  BY <1>3, <1>4, <1>5 DEF IInv

-----------------------------------------------------------------------------
(* The engine.                                                             *)

LEMMA EngineStartsKeeps == IInv /\ EngineStarts => IInv'
<1> SUFFICES ASSUME IInv, EngineStarts PROVE IInv'
  OBVIOUS
<1> USE DEF threads, call, history
<1>1. InRange'
  BY DEF IInv, InRange, EngineStarts
<1>2. Mutex' /\ TasksFit' /\ ThreadsFit'
  BY DEF IInv, Mutex, TasksFit, ThreadsFit, EngineStarts
<1>3. Shared'
  BY DEF IInv, Shared, InUseIsOpen, InStep, Awaited, EngineStarts
<1> QED
  BY <1>1, <1>2, <1>3 DEF IInv

\* What the engine does to the connection, when it answers and when it dies.
LEMMA EngineOnConnection ==
  ASSUME IInv, UNCHANGED <<threads, call, fd, outOfStep>>,
         stranded' \in BOOLEAN, deaths' \in 0..MaxDeaths,
         engine' \in {"up", "dead"},
         requests # <<>> \/ UNCHANGED <<requests, stream>>,
         requests' \in Seq({"greeting", "compare", "enroll", "photo"}),
         stream' \in Seq(Messages),
         engine' # "up" => requests' = <<>>,
         \A r \in {"greeting", "compare", "enroll", "photo"} : Awaited(r) => Awaited(r)'
  PROVE  IInv'
<1> USE DEF threads, call
<1>1. InRange'
  BY DEF IInv, InRange
<1>2. Mutex' /\ TasksFit' /\ ThreadsFit'
  BY DEF IInv, Mutex, TasksFit, ThreadsFit
<1>3. InStep => InStep'
  <2>1. \A p \in Users : pc[p] = "line" => task[p] \in {"compare", "enroll", "photo"}
    BY DEF IInv, TasksFit
  <2>2. CASE requests # <<>>
    <3>1. SUFFICES ASSUME InStep PROVE InStep'
      OBVIOUS
    <3>2. ~ \A p \in Users : pc[p] \notin {"ready", "line", "bytes"}
      BY <2>2, <3>1 DEF InStep
    <3>3. \A p \in Users : pc[p] # "bytes"
      BY <2>2, <3>1 DEF InStep
    <3>4. \A p \in Users : (pc[p] = "ready" => Awaited("greeting")') /\ (pc[p] = "line" => Awaited(task[p])')
      BY <2>1, <3>1 DEF InStep
    <3>5. \A p \in Users : pc[p] = "line" => Awaited(task[p])'
      BY <3>4
    <3> QED
      BY <3>2, <3>3, <3>4, <3>5 DEF InStep
  <2>3. CASE UNCHANGED <<requests, stream>>
    BY <2>3 DEF InStep, Awaited
  <2> QED
    BY <2>2, <2>3
<1>4. Shared'
  BY <1>3 DEF IInv, Shared, InUseIsOpen
<1> QED
  BY <1>1, <1>2, <1>4 DEF IInv

LEMMA EngineAnswersKeeps == IInv /\ EngineAnswers => IInv'
<1> SUFFICES ASSUME IInv, EngineAnswers PROVE IInv'
  OBVIOUS
<1> DEFINE Commands == {"greeting", "compare", "enroll", "photo"}
<1>1. requests \in Seq(Commands) /\ stream \in Seq(Messages) /\ requests # <<>>
  BY DEF IInv, InRange, EngineAnswers
<1>2. Head(requests) \in Commands /\ Tail(requests) \in Seq(Commands)
  BY <1>1
<1>3. PICK a \in Answers(Head(requests)) : stream' = stream \o a
  BY DEF EngineAnswers
<1>4. a \in Seq(Messages)
  <2>1. /\ <<"ready">> \in Seq(Messages) /\ <<"compare">> \in Seq(Messages)
        /\ <<"enroll">> \in Seq(Messages) /\ <<"error">> \in Seq(Messages)
        /\ <<"photo", "bytes">> \in Seq(Messages)
    OBVIOUS
  <2> QED
    BY <1>2, <1>3, <2>1 DEF Answers
<1>5. stream' \in Seq(Messages)
  BY <1>1, <1>3, <1>4
<1>6. ASSUME NEW r \in Commands, Awaited(r)
      PROVE  Awaited(r)'
  <2>1. requests = <<r>> /\ stream = <<>>
    BY <1>1, <1>6 DEF Awaited
  <2>2. Head(requests) = r /\ Tail(requests) = <<>> /\ stream \o a = a
    BY <1>4, <2>1
  <2>3. requests' = <<>> /\ stream' \in Answers(r)
    BY <1>3, <2>2 DEF EngineAnswers
  <2>4. Answers(r)' = Answers(r)
    BY DEF Answers
  <2> QED
    BY <2>3, <2>4 DEF Awaited
<1>7. /\ UNCHANGED <<threads, call, fd, outOfStep, engine, deaths, stranded>>
      /\ engine = "up" /\ requests' = Tail(requests)
  BY DEF EngineAnswers, history
<1>8. deaths \in 0..MaxDeaths /\ stranded \in BOOLEAN
  BY DEF IInv, InRange
<1> QED
  BY <1>1, <1>2, <1>5, <1>6, <1>7, <1>8, EngineOnConnection

LEMMA EngineDiesKeeps == IInv /\ EngineDies => IInv'
<1> SUFFICES ASSUME IInv, EngineDies PROVE IInv'
  OBVIOUS
<1> DEFINE Commands == {"greeting", "compare", "enroll", "photo"}
<1>1. /\ requests \in Seq(Commands) /\ stream \in Seq(Messages)
      /\ stranded \in BOOLEAN /\ fd \in BOOLEAN /\ deaths \in 0..MaxDeaths
  BY DEF IInv, InRange
<1>2. /\ UNCHANGED <<threads, call, fd, outOfStep>>
      /\ stranded' \in BOOLEAN /\ engine' = "dead" /\ requests' = <<>>
      /\ stream' \in {stream}
                     \cup (IF requests = <<>> THEN {} ELSE {stream \o <<"junk">>})
                     \cup (IF requests # <<>> /\ Head(requests) = "photo"
                           THEN {stream \o <<"photo">>} ELSE {})
  BY <1>1 DEF EngineDies
<1>3. deaths' \in 0..MaxDeaths
  BY <1>1, EngineAssumption DEF EngineDies
<1>4. stream' \in Seq(Messages)
  <2>1. stream \o <<"junk">> \in Seq(Messages) /\ stream \o <<"photo">> \in Seq(Messages)
    BY <1>1
  <2> QED
    BY <1>1, <1>2, <2>1
<1>5. ASSUME NEW r \in Commands, Awaited(r)
      PROVE  Awaited(r)'
  <2>1. Answers(r)' = Answers(r)
    BY DEF Answers
  <2>2. CASE requests = <<r>> /\ stream = <<>>
    <3>1. /\ Head(requests) = r /\ requests # <<>>
          /\ stream \o <<"junk">> = <<"junk">> /\ stream \o <<"photo">> = <<"photo">>
      BY <2>2
    <3> QED
      BY <1>2, <2>1, <2>2, <3>1 DEF Awaited
  <2>3. CASE requests = <<>>
    BY <1>2, <1>5, <2>1, <2>3 DEF Awaited
  <2> QED
    BY <1>5, <2>2, <2>3 DEF Awaited
<1>6. requests # <<>> \/ UNCHANGED <<requests, stream>>
  BY <1>2
<1>7. <<>> \in Seq(Commands)
  OBVIOUS
<1> QED
  BY <1>1, <1>2, <1>3, <1>4, <1>5, <1>6, <1>7, EngineOnConnection

-----------------------------------------------------------------------------

LEMMA NextInv == IInv /\ [Next]_vars => IInv'
<1> SUFFICES ASSUME IInv, [Next]_vars PROVE IInv'
  OBVIOUS
<1>1. CASE UNCHANGED vars
  <2>1. InRange'
    BY <1>1 DEF IInv, InRange, vars, threads, call, outside, history
  <2>2. Mutex' /\ TasksFit' /\ ThreadsFit'
    BY <1>1 DEF IInv, Mutex, TasksFit, ThreadsFit, vars, threads, call
  <2>3. Shared'
    BY <1>1 DEF IInv, Shared, InUseIsOpen, InStep, Awaited, vars, call, outside, history
  <2> QED
    BY <2>1, <2>2, <2>3 DEF IInv
<1>2. CASE \E p \in Users : Lock(p) \/ Cleanup(p) \/ Command(p)
  BY <1>2, LockKeeps, CleanupKeeps, CommandKeeps
<1>3. CASE EngineStarts \/ EngineAnswers \/ EngineDies
  BY <1>3, EngineStartsKeeps, EngineAnswersKeeps, EngineDiesKeeps
<1>4. CASE FaceThread \/ CaptureThread \/ MainGoesOn \/ StartFaces \/ FaceRecog \/ StopFaces \/ SetActive
  BY <1>4, ThreadsKeep
<1> QED
  BY <1>1, <1>2, <1>3, <1>4 DEF Next

\* The invariant holds in every reachable state.
THEOREM Invariance == Spec => []IInv
  BY InitInv, NextInv, PTL DEF Spec

\* Every variable is in its range, and as long as no photo was refused no more
\* than one command is under way on the connection.
THEOREM TypeCorrect == Spec => []TypeOK
<1>1. IInv => TypeOK
  <2> SUFFICES ASSUME IInv PROVE TypeOK
    OBVIOUS
  <2>1. InRange
    BY DEF IInv
  <2>2. outOfStep \/ Len(requests) <= 1
    <3>1. SUFFICES ASSUME InStep PROVE Len(requests) <= 1
      BY <2>1 DEF IInv, Shared, InRange
    <3>2. requests = <<>> \/ \E r : requests = <<r>>
      BY <3>1 DEF InStep, Awaited
    <3> QED
      BY <3>2
  <2> QED
    BY <2>1, <2>2 DEF TypeOK
<1> QED
  BY <1>1, Invariance, PTL

\* The connection is not closed under a thread that is using it.
THEOREM OpenInUse == Spec => []InUseIsOpen
<1>1. IInv => InUseIsOpen
  BY DEF IInv, Shared
<1> QED
  BY <1>1, Invariance, PTL

\* A thread that is about to send a command finds the connection empty.
THEOREM StartsClean == Spec => []CommandsStartClean
<1>1. IInv => CommandsStartClean
  <2> SUFFICES ASSUME IInv, NEW p \in Users, pc[p] = "send", ~outOfStep
               PROVE  stream = <<>> /\ requests = <<>>
    BY DEF CommandsStartClean
  <2>1. \A q \in Users : q # p => pc[q] \notin Using
    BY DEF IInv, Mutex
  <2> QED
    BY <2>1 DEF IInv, Shared, InStep
<1> QED
  BY <1>1, Invariance, PTL

\* What a command returns is an answer to it.
THEOREM OwnAnswers == Spec => AnswersMatch
<1> DEFINE Match ==
      \A p \in Users :
        pc[p] \in {"line", "bytes"} /\ pc'[p] = "idle" /\ result'[p] \in Successes /\ ~outOfStep
        => result'[p] = task[p]
<1>1. IInv /\ [Next]_vars => Match
  <2> SUFFICES ASSUME IInv, [Next]_vars, NEW p \in Users,
                      pc[p] \in {"line", "bytes"}, pc'[p] = "idle",
                      result'[p] \in Successes, ~outOfStep
               PROVE  result'[p] = task[p]
    OBVIOUS
  <2>1. /\ pc \in [Users -> Places] /\ task \in [Users -> Tasks]
        /\ result \in [Users -> Messages \cup {"none", "ok", "fail"}]
    BY DEF IInv, InRange, Places
  <2>2. Command(p)
    <3>1. ASSUME NEW q \in Users \ {p}, Lock(q) \/ Cleanup(q) \/ Command(q)
          PROVE  FALSE
      <4>1. pc'[p] = pc[p]
        BY <2>1, <3>1 DEF Lock, Cleanup, Command, Found, StartEngine, ForkFails, Connect, ConnectFails,
             Prepared, ReadReady, Send, ReadLine, ReadBytes, RefusePhoto, Goto, Return
      <4> QED
        BY <4>1
    <3>2. ~(Lock(p) \/ Cleanup(p))
      BY DEF Lock, Cleanup
    <3>3. ~ UNCHANGED call
      BY DEF call
    <3>4. ~(EngineStarts \/ EngineAnswers \/ EngineDies \/ UNCHANGED vars)
      BY <3>3 DEF EngineStarts, EngineAnswers, EngineDies, vars
    <3>5. \A q \in Users, t \in Tasks : ~Call(q, t) /\ ~Consume(q)
      BY <2>1 DEF Call, Consume
    <3>6. ~(FaceThread \/ CaptureThread \/ MainGoesOn \/ StartFaces \/ FaceRecog \/ StopFaces \/ SetActive)
      BY <3>3, <3>5 DEF FaceThread, FaceTop, FacePrepared, FaceTest, FaceCompared, FaceLast,
           CaptureThread, CapTop, CapPhotographed, CapNamed,
           MainGoesOn, FaceRecogDone, JoinFaces, FacesStopped, StartFaces, FaceRecog, StopFaces, SetActive
    <3> QED
      BY <3>1, <3>2, <3>4, <3>6 DEF Next
  <2>3. ReadLine(p) \/ ReadBytes(p) \/ RefusePhoto(p)
    BY <2>2 DEF Command, Found, StartEngine, ForkFails, Connect, ConnectFails, ReadReady, Send
  <2>4. InStep /\ TasksFit
    BY DEF IInv, Shared
  <2>5. CASE ReadLine(p)
    <3>1. task[p] \in {"compare", "photo", "enroll"} /\ Awaited(task[p])
      BY <2>4, <2>5 DEF ReadLine, InStep, TasksFit
    <3>2. CASE Return(p, "fail")
      BY <2>1, <3>2 DEF Return, Successes
    <3>3. ASSUME NEW m \in Messages, LineIs(m, stream'), task[p] # "photo", Return(p, m)
          PROVE  result'[p] = task[p]
      <4>1. m \in {task[p], "error", "junk"}
        BY <3>1, <3>3, LinesInStep
      <4> QED
        BY <2>1, <3>3, <4>1 DEF Return, Successes
    <3>4. ~Goto(p, "bytes")
      BY <2>1 DEF Goto
    <3> QED
      BY <2>5, <3>2, <3>3, <3>4 DEF ReadLine
  <2>6. CASE ReadBytes(p)
    BY <2>1, <2>4, <2>6 DEF ReadBytes, TasksFit, Return, Successes
  <2>7. CASE RefusePhoto(p)
    BY <2>1, <2>7 DEF RefusePhoto, Return, Successes
  <2> QED
    BY <2>3, <2>5, <2>6, <2>7
<1>2. IInv /\ [Next]_vars => [Match]_vars
  BY <1>1
<1> QED
  BY <1>2, Invariance, PTL DEF Spec, AnswersMatch
=============================================================================

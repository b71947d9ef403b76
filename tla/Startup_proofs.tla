--------------------------- MODULE Startup_proofs ---------------------------
(***************************************************************************)
(* The success of a provisioning is a real one, and no answer is lost or   *)
(* sent twice, for any credentials, any number of writes of the phone and  *)
(* any number of faults.                                                   *)
(***************************************************************************)
EXTENDS Startup, SequenceTheorems, FiniteSetTheorems, TLAPS

\* What a notification in the queue, the flags and the phone say of the join.
SuccessInv ==
  /\ told => joined
  /\ waitLeave => joined
  /\ done => joined
  /\ srv = "ended" => done
  /\ \A i \in DOMAIN outbox : outbox[i] = "connected" => joined

IInv == TypeOK /\ SuccessInv

\* The notifications.
Notes == Statuses \cup {"list", "empty"}

\* The types of the flags, and those of the rest of the state.
Flags == /\ notify \in BOOLEAN /\ listDone \in BOOLEAN /\ bigMtu \in BOOLEAN
         /\ waitLeave \in BOOLEAN /\ done \in BOOLEAN /\ fresh \in BOOLEAN
         /\ online \in BOOLEAN /\ told \in BOOLEAN /\ joined \in BOOLEAN

Data ==
  /\ srv \in {"off", "accept", "session", "ended"}
  /\ peer \in {"none", "up", "lost"}
  /\ at \in {"loop", "list", "scan", "join", "open", "fill", "start", "poll"}
  /\ cred \in {"none"} \cup Creds
  /\ inbox \in Seq(Messages)
  /\ outbox \in Seq(Notes)
  /\ conf \in {"none", "torn"} \cup Creds
  /\ wpa \in {"none", "torn", "scan"} \cup Creds
  /\ writes \in 0 .. MaxWrites /\ faults \in 0 .. MaxFaults
  /\ owed \in Int
  /\ app \in {"down", "check", "start", "poll", "enter", "wait", "run"}
  /\ script \in {"off", "setup", "serve", "orphan"}

\* A process that has gone, but for its flags.
LEMMA OffData ==
  ASSUME ServiceOff
  PROVE  /\ srv' = "off" /\ peer' = "none" /\ at' = "loop" /\ cred' = "none"
         /\ inbox' = <<>> /\ outbox' = <<>> /\ owed' = 0
BY Zenon DEF ServiceOff

LEMMA TypeParts == TypeOK <=> Flags /\ Data
BY DEF TypeOK, Flags, Data, Notes

-----------------------------------------------------------------------------
LEMMA InitIInv == Init => IInv
<1> SUFFICES ASSUME Init PROVE IInv
  OBVIOUS
<1>1. Data
  <2>1. /\ inbox \in Seq(Messages) /\ outbox \in Seq(Notes)
        /\ writes \in 0 .. MaxWrites /\ faults \in 0 .. MaxFaults /\ owed \in Int
    BY ProvisionAssumption DEF Init, Init_ble
  <2> QED
    BY <2>1 DEF Init, Init_ble, Data
<1>3. Flags
  BY DEF Init, Init_ble, Flags
<1>2. SuccessInv
  BY DEF Init, Init_ble, SuccessInv
<1> QED
  BY <1>1, <1>2, <1>3, TypeParts DEF IInv

\* Queueing a notification keeps the queue's type, and promises a success only
\* when that is what is queued.
LEMMA Queued ==
  ASSUME NEW what \in Notes, outbox \in Seq(Notes), Notify(what)
  PROVE  /\ outbox' \in Seq(Notes)
         /\ \A i \in DOMAIN outbox' :
              outbox'[i] = what \/ (i \in DOMAIN outbox /\ outbox'[i] = outbox[i])
<1>1. CASE outbox' = outbox
  BY <1>1
<1>2. CASE outbox' = Append(outbox, what)
  BY <1>2
<1> QED
  BY <1>1, <1>2 DEF Notify

\* A process that has gone promises nothing.
LEMMA OffInv == ASSUME ServiceOff PROVE SuccessInv'
<1>1. ~told' /\ ~waitLeave' /\ ~done'
  BY Zenon DEF ServiceOff
<1> QED
  BY <1>1, OffData DEF SuccessInv

USE ProvisionAssumption
    DEF phone, handler, client, flags, file, network, history, bleVars, startVars

\* Types of a step of the service: notifications by Queued, writes are messages.
LEMMA ServiceTypes == ASSUME Data, Service PROVE Data'
<1> USE DEF Data
<1> UNCHANGED startVars
  BY DEF Service
<1>1. CASE Dispatch
  <2>1. /\ inbox' \in Seq(Messages)
        /\ UNCHANGED <<srv, peer, writes, flags, network, faults, told, joined>>
    BY <1>1 DEF Dispatch
  <2>2. PICK m \in Messages :
          \/ HandleList \/ (m \in Creds /\ HandleJoin(m)) \/ HandleRefused
          \/ HandleUnsubscribe \/ HandleSubscribe \/ HandleMtu \/ HandleBadCcc
    BY <1>1 DEF Dispatch
  <2>3. CASE HandleList \/ HandleUnsubscribe \/ HandleSubscribe \/ HandleMtu
    BY <2>1, <2>3 DEF HandleList, HandleUnsubscribe, HandleSubscribe, HandleMtu
  <2>4. CASE m \in Creds /\ HandleJoin(m)
    <3>1. Answerable \in Int
      BY DEF Answerable
    <3> QED
      BY <2>1, <2>4, <3>1 DEF HandleJoin
  <2>5. CASE HandleRefused
    <3>1. Answerable \in Int
      BY DEF Answerable
    <3>2. outbox' \in Seq(Notes)
      BY <2>5, Queued DEF HandleRefused, Notes, Statuses
    <3> QED
      BY <2>1, <2>5, <3>1, <3>2 DEF HandleRefused
  <2>6. CASE HandleBadCcc
    BY <2>1, <2>6 DEF HandleBadCcc
  <2> QED
    BY <2>2, <2>3, <2>4, <2>5, <2>6
<1>2. CASE SendNotification
  <2>1. outbox' \in Seq(Notes) /\ owed' \in Int
    BY <1>2 DEF SendNotification
  <2> QED
    BY <1>2, <2>1 DEF SendNotification
<1>3. CASE NoticeLeave
  BY <1>3 DEF NoticeLeave, DoneNow
<1>4. CASE ScanSetup
  <2>1. outbox' \in Seq(Notes)
    BY <1>4, Queued DEF ScanSetup, Notes
  <2> QED
    BY <1>4, <2>1 DEF ScanSetup, Supplicant, AfterList
<1>5. CASE ScanEnd
  <2>1. outbox' \in Seq(Notes)
    BY <1>5, Queued DEF ScanEnd, Notes
  <2> QED
    BY <1>5, <2>1 DEF ScanEnd, Supplicant, AfterList
<1>6. CASE AnnounceJoin
  <2>1. outbox' \in Seq(Notes)
    BY <1>6, Queued DEF AnnounceJoin, Notes, Statuses
  <2> QED
    BY <1>6, <2>1 DEF AnnounceJoin
<1>7. CASE OpenConf
  <2>1. outbox' \in Seq(Notes)
    BY <1>7, Queued DEF OpenConf, Finish, Notes, Statuses
  <2> QED
    BY <1>7, <2>1 DEF OpenConf, Finish
<1>8. CASE FillConf
  BY <1>8 DEF FillConf
<1>9. CASE StartJoin
  <2>1. outbox' \in Seq(Notes)
    BY <1>9, Queued DEF StartJoin, Finish, Notes, Statuses
  <2> QED
    BY <1>9, <2>1 DEF StartJoin, Finish, Supplicant
<1>10. CASE JoinReady
  <2>1. outbox' \in Seq(Notes)
    BY <1>10, Queued DEF JoinReady, Finish, Notes, Statuses
  <2> QED
    BY <1>10, <2>1 DEF JoinReady, Finish
<1>11. CASE JoinTimeout
  <2>1. outbox' \in Seq(Notes) /\ faults' \in 0 .. MaxFaults
    BY <1>11, Queued DEF JoinTimeout, Finish, SlowNetwork, Notes, Statuses
  <2> QED
    BY <1>11, <2>1 DEF JoinTimeout, Finish
<1> QED
  BY <1>1, <1>2, <1>3, <1>4, <1>5, <1>6, <1>7, <1>8, <1>9, <1>10, <1>11
     DEF Service, Loop, Handler

LEMMA DataStep == ASSUME Data, [Next]_vars PROVE Data'
<1> USE DEF Data
<1>1. CASE Radio /\ UNCHANGED startVars
  <2>1. CASE Connect \/ PhoneLeaves \/ Associate
    BY <1>1, <2>1 DEF Connect, PhoneLeaves, Associate
  <2>2. ASSUME NEW m \in Messages, PhoneWrites(m) PROVE Data'
    BY <1>1, <2>2 DEF PhoneWrites
  <2>3. CASE LinkLost
    BY <1>1, <2>3 DEF LinkLost
  <2> QED
    BY <1>1, <2>1, <2>2, <2>3 DEF Radio
<1>2. CASE Service
  BY <1>2, ServiceTypes
<1>3. CASE Client
  <2>1. CASE Boot \/ CheckNetwork \/ NetworkReady \/ Serve
    BY <2>1 DEF Boot, CheckNetwork, NetworkReady, Serve
  <2>2. CASE StartSupplicant
    BY <2>2 DEF StartSupplicant, Supplicant
  <2>3. CASE NetworkTimeout
    BY <2>3 DEF NetworkTimeout, SlowNetwork
  <2>4. CASE EnterProvision \/ ServiceEnds
    <3>1. ServiceOff /\ UNCHANGED <<writes, network, faults>>
      BY <2>4, Zenon DEF EnterProvision, ServiceEnds
    <3>2. app' \in {"wait", app, "check"} /\ script' \in {"setup", "off"}
      BY <2>4, Zenon DEF EnterProvision, ServiceEnds
    <3> QED
      BY <3>1, <3>2, OffData
  <2> QED
    BY <1>3, <2>1, <2>2, <2>3, <2>4 DEF Client
<1>4. CASE SetupFails \/ ClientDies
  BY <1>4 DEF SetupFails, ClientDies
<1>5. CASE ServiceDies \/ PowerCut
  <2>1. /\ ServiceOff /\ UNCHANGED writes /\ conf' \in {conf, "none", "torn"} \cup Creds
        /\ wpa' \in {wpa, "none"} /\ faults < MaxFaults /\ faults' = faults + 1
    BY <1>5, Zenon DEF ServiceDies, PowerCut, Supplicant
  <2>2. app' \in {"down", app, "enter"} /\ script' = "off"
    BY <1>5, Zenon DEF ServiceDies, PowerCut
  <2> QED
    BY <2>1, <2>2, OffData
<1>6. CASE Running \/ UNCHANGED vars
  BY <1>6 DEF Running, vars
<1> QED
  BY <1>1, <1>2, <1>3, <1>4, <1>5, <1>6 DEF Next

LEMMA FlagStep == ASSUME Flags, [Next]_vars PROVE Flags'
<1> USE DEF Flags
<1>1. CASE Radio /\ UNCHANGED startVars
  BY <1>1 DEF Radio, Connect, PhoneWrites, PhoneLeaves, Associate, LinkLost
<1>2. CASE Dispatch
  BY <1>2, Zenon DEF Dispatch, HandleList, HandleJoin, HandleRefused, HandleUnsubscribe, HandleSubscribe,
     HandleMtu, HandleBadCcc
<1>3. CASE SendNotification \/ NoticeLeave
  BY <1>3, Zenon DEF SendNotification, NoticeLeave, DoneNow
<1>4. CASE Handler
  <2>1. CASE ScanSetup \/ ScanEnd \/ AnnounceJoin \/ StartJoin
    BY <2>1, Zenon DEF ScanSetup, ScanEnd, AnnounceJoin, StartJoin, Supplicant
  <2>2. CASE OpenConf \/ FillConf
    BY <2>2, Zenon DEF OpenConf, FillConf
  <2>3. CASE JoinReady \/ JoinTimeout
    BY <2>3, Zenon DEF JoinReady, JoinTimeout
  <2> QED
    BY <1>4, <2>1, <2>2, <2>3 DEF Handler
<1>5. CASE Client
  BY <1>5, Zenon DEF Client, Boot, CheckNetwork, NetworkReady, Serve, StartSupplicant, Supplicant,
     NetworkTimeout, EnterProvision, ServiceEnds, ServiceOff
<1>6. CASE SetupFails \/ ClientDies \/ ServiceDies \/ PowerCut
  BY <1>6, Zenon DEF SetupFails, ClientDies, ServiceDies, PowerCut, ServiceOff, Supplicant
<1>7. CASE Running \/ UNCHANGED vars
  BY <1>7, Zenon DEF Running, vars
<1> QED
  BY <1>1, <1>2, <1>3, <1>4, <1>5, <1>6, <1>7 DEF Next, Service, Loop

LEMMA TypeStep == ASSUME TypeOK, [Next]_vars PROVE TypeOK'
BY TypeParts, DataStep, FlagStep DEF TypeOK, Flags, Data, Notes

-----------------------------------------------------------------------------
\* A success is queued, and the flag that lets the service end is set, in the
\* one step that has seen the link; a new process knows of none.
LEMMA SuccessStep == ASSUME TypeOK, SuccessInv, [Next]_vars PROVE SuccessInv'
<1> USE DEF SuccessInv
<1> outbox \in Seq(Notes)
  BY DEF TypeOK, Notes
<1>a. ASSUME UNCHANGED <<outbox, waitLeave, done, joined>>, told' => told,
             srv' = srv \/ srv' # "ended"
      PROVE  SuccessInv'
  BY <1>a
<1>b. ASSUME NEW what \in Notes \ {"connected"}, Notify(what),
             UNCHANGED <<srv, waitLeave, done, told, joined>>
      PROVE  SuccessInv'
  BY <1>b, Queued
<1>1. CASE Radio /\ UNCHANGED startVars
  BY <1>1, <1>a DEF Radio, Connect, PhoneWrites, PhoneLeaves, Associate, LinkLost
<1>2. CASE Loop
  <2>1. CASE Dispatch /\ UNCHANGED outbox
    BY <1>a, <2>1 DEF Dispatch
  <2>2. CASE Dispatch /\ HandleRefused
    BY <1>b, <2>2 DEF Dispatch, HandleRefused, Notes, Statuses
  <2>3. CASE SendNotification
    <3>1. /\ outbox # <<>> /\ outbox' = Tail(outbox)
          /\ told' = (told \/ Head(outbox) = "connected")
          /\ UNCHANGED <<srv, waitLeave, done, joined>>
      BY <2>3 DEF SendNotification
    <3>2. Head(outbox) = "connected" => joined
      BY <3>1
    <3>3. \A i \in DOMAIN outbox' : i + 1 \in DOMAIN outbox /\ outbox'[i] = outbox[i + 1]
      BY <3>1
    <3> QED
      BY <3>1, <3>2, <3>3
  <2>4. CASE NoticeLeave
    <3>1. /\ outbox' = <<>> /\ UNCHANGED <<waitLeave, joined, told>>
          /\ (done' <=> done \/ waitLeave) /\ (srv' = "ended" => done')
      <4>1. done' = (done \/ waitLeave) /\ srv' = IF done' THEN "ended" ELSE "accept"
        BY <2>4 DEF NoticeLeave, DoneNow
      <4> QED
        BY <2>4, <4>1 DEF NoticeLeave, DoneNow
    <3> QED
      BY <3>1
  <2> QED
    BY <1>2, <2>1, <2>2, <2>3, <2>4 DEF Loop, Dispatch, HandleList, HandleJoin,
       HandleUnsubscribe, HandleSubscribe, HandleMtu, HandleBadCcc
<1>3. CASE Handler
  <2>1. CASE ScanSetup
    BY <1>a, <1>b, <2>1 DEF ScanSetup, Notes
  <2>2. CASE ScanEnd
    BY <1>b, <2>2 DEF ScanEnd, Notes
  <2>3. CASE AnnounceJoin
    BY <1>b, <2>3 DEF AnnounceJoin, Notes, Statuses
  <2>4. CASE OpenConf
    BY <1>a, <1>b, <2>4 DEF OpenConf, Finish, Notes, Statuses
  <2>5. CASE FillConf
    BY <1>a, <2>5 DEF FillConf
  <2>6. CASE StartJoin
    BY <1>a, <1>b, <2>6 DEF StartJoin, Finish, Notes, Statuses
  <2>7. CASE JoinReady
    BY <2>7 DEF JoinReady
  <2>8. CASE JoinTimeout
    BY <1>b, <2>8 DEF JoinTimeout, Finish, Notes, Statuses
  <2> QED
    BY <1>3, <2>1, <2>2, <2>3, <2>4, <2>5, <2>6, <2>7, <2>8 DEF Handler
<1>4. CASE Boot \/ CheckNetwork \/ StartSupplicant \/ NetworkReady \/ NetworkTimeout \/ Serve
  BY <1>a, <1>4 DEF Boot, CheckNetwork, StartSupplicant, NetworkReady, NetworkTimeout, Serve
<1>5. CASE EnterProvision \/ ServiceEnds \/ ServiceDies \/ PowerCut
  BY <1>5, OffInv DEF EnterProvision, ServiceEnds, ServiceDies, PowerCut
<1>6. CASE SetupFails \/ ClientDies \/ Running \/ UNCHANGED vars
  BY <1>a, <1>6 DEF SetupFails, ClientDies, Running, vars
<1> QED
  BY <1>1, <1>2, <1>3, <1>4, <1>5, <1>6 DEF Next, Client, Service

-----------------------------------------------------------------------------
THEOREM Invariance == Spec => []IInv
<1>1. IInv /\ [Next]_vars => IInv'
  BY TypeStep, SuccessStep DEF IInv
<1> QED
  BY InitIInv, <1>1, PTL DEF Spec

\* The types of the state.
THEOREM TypeCorrect == Spec => []TypeOK
BY Invariance, PTL DEF IInv

\* The phone is told of a success, and the client is let go, only after the
\* link was seen to be up, whatever is lost, killed or started again.
THEOREM SuccessTheorem == Spec => []SuccessIsReal
<1>1. IInv => SuccessIsReal
  BY DEF IInv, SuccessInv, SuccessIsReal
<1> QED
  BY Invariance, <1>1, PTL

-----------------------------------------------------------------------------
(* What the phone is owed.                                                 *)

\* The final statuses in a queue.
FinalsIn(s) == {i \in DOMAIN s : s[i] \in Finals}

\* One for the credentials in hand, if the answer to them can be sent.
InHand == IF cred # "none" /\ notify /\ bigMtu THEN 1 ELSE 0

\* Every command whose answer can be sent has one final status: it is queued,
\* or a handler is on its way to it.
AnswersBalance == owed = Cardinality(FinalsIn(outbox)) + InHand

\* Who joins has credentials, and keeps them until the status is queued.
AccountInv ==
  /\ at = "loop" => cred = "none"
  /\ at \in {"join", "open", "fill", "start", "poll"} => cred # "none"
  /\ AnswersBalance

LEMMA FinalsAreFinite ==
  ASSUME NEW s \in Seq(Notes)
  PROVE  IsFiniteSet(FinalsIn(s)) /\ Cardinality(FinalsIn(s)) \in Nat
<1>1. Len(s) \in Nat /\ DOMAIN s = 1 .. Len(s)
  OBVIOUS
<1>2. IsFiniteSet(1 .. Len(s))
  BY <1>1, FS_Interval
<1>3. FinalsIn(s) \in SUBSET (1 .. Len(s))
  BY <1>1 DEF FinalsIn
<1> QED
  BY <1>2, <1>3, FS_Subset, FS_CardinalityType

LEMMA FinalsNone == Cardinality(FinalsIn(<<>>)) = 0
<1>1. FinalsIn(<<>>) = {}
  BY DEF FinalsIn
<1> QED
  BY <1>1, FS_EmptySet

LEMMA FinalsAppend ==
  ASSUME NEW s \in Seq(Notes), NEW x \in Notes
  PROVE  Cardinality(FinalsIn(Append(s, x))) =
           Cardinality(FinalsIn(s)) + IF x \in Finals THEN 1 ELSE 0
<1>1. PICK n \in Nat : n = Len(s)
  OBVIOUS
<1>2. PICK t : t = Append(s, x)
  OBVIOUS
<1>3. /\ DOMAIN s = 1 .. n /\ DOMAIN t = 1 .. n + 1 /\ t[n + 1] = x
      /\ \A i \in 1 .. n : t[i] = s[i]
  BY <1>1, <1>2
<1>4. \A i : i \in 1 .. n + 1 <=> i \in 1 .. n \/ i = n + 1
  OBVIOUS
<1>5. n + 1 \notin FinalsIn(s)
  BY <1>3 DEF FinalsIn
<1>6. IsFiniteSet(FinalsIn(s)) /\ Cardinality(FinalsIn(s)) \in Nat
  BY FinalsAreFinite
<1>7. CASE x \in Finals
  <2>1. FinalsIn(t) = FinalsIn(s) \cup {n + 1}
    BY <1>3, <1>4, <1>7 DEF FinalsIn
  <2>2. Cardinality(FinalsIn(t)) = Cardinality(FinalsIn(s)) + 1
    BY <1>5, <1>6, <2>1, FS_AddElement
  <2> QED
    BY <1>2, <1>7, <2>2
<1>8. CASE x \notin Finals
  <2>1. FinalsIn(t) = FinalsIn(s)
    BY <1>3, <1>4, <1>8 DEF FinalsIn
  <2> QED
    BY <1>2, <1>6, <1>8, <2>1
<1> QED
  BY <1>7, <1>8

LEMMA FinalsTail ==
  ASSUME NEW s \in Seq(Notes), s # <<>>
  PROVE  Cardinality(FinalsIn(s)) =
           Cardinality(FinalsIn(Tail(s))) + IF Head(s) \in Finals THEN 1 ELSE 0
<1>1. PICK n \in Nat : n = Len(s) /\ n >= 1
  BY EmptySeq
<1>2. PICK t : t = Tail(s)
  OBVIOUS
<1>3. /\ DOMAIN s = 1 .. n /\ DOMAIN t = 1 .. n - 1 /\ Head(s) = s[1] /\ t \in Seq(Notes)
      /\ \A i \in 1 .. n - 1 : t[i] = s[i + 1]
  BY <1>1, <1>2
<1>4. IsFiniteSet(FinalsIn(s)) /\ Cardinality(FinalsIn(s)) \in Nat
      /\ IsFiniteSet(FinalsIn(t)) /\ Cardinality(FinalsIn(t)) \in Nat
  BY <1>3, FinalsAreFinite
<1> DEFINE S == FinalsIn(t)
           T == FinalsIn(s) \ {1}
           f == [i \in S |-> i + 1]
<1>5. \A i \in S : i \in 1 .. n - 1 /\ i \in Nat /\ i + 1 \in T
  <2>1. ASSUME NEW i \in S PROVE i \in 1 .. n - 1 /\ i \in Nat /\ i + 1 \in T
    <3>1. i \in 1 .. n - 1 /\ t[i] \in Finals
      BY <1>3 DEF FinalsIn
    <3>2. i \in Nat /\ i + 1 \in 1 .. n /\ i + 1 # 1
      BY <3>1
    <3>3. s[i + 1] \in Finals
      BY <1>3, <3>1
    <3> QED
      BY <1>3, <3>1, <3>2, <3>3 DEF FinalsIn
  <2> QED
    BY <2>1
<1>6. \A j \in T : j - 1 \in S /\ (j - 1) + 1 = j
  <2>1. ASSUME NEW j \in T PROVE j - 1 \in S /\ (j - 1) + 1 = j
    <3>1. j \in 1 .. n /\ j # 1 /\ s[j] \in Finals
      BY <1>3 DEF FinalsIn
    <3>2. j - 1 \in 1 .. n - 1 /\ (j - 1) + 1 = j
      BY <3>1
    <3>3. t[j - 1] \in Finals
      BY <1>3, <3>1, <3>2
    <3> QED
      BY <1>3, <3>2, <3>3 DEF FinalsIn
  <2> QED
    BY <2>1
<1>7. f \in Bijection(S, T)
  <2>1. f \in [S -> T]
    BY <1>5
  <2>2. ASSUME NEW a \in S, NEW b \in S, f[a] = f[b] PROVE a = b
    <3>1. a \in Nat /\ b \in Nat /\ a + 1 = b + 1
      BY <1>5, <2>2
    <3> QED
      BY <3>1
  <2>3. ASSUME NEW j \in T PROVE \E i \in S : f[i] = j
    <3>1. j - 1 \in S /\ f[j - 1] = j
      BY <1>6
    <3> QED
      BY <3>1
  <2>4. f \in Injection(S, T)
    BY <2>1, <2>2 DEF Injection, IsInjective
  <2>5. f \in Surjection(S, T)
    BY <2>1, <2>3 DEF Surjection
  <2> QED
    BY <2>4, <2>5 DEF Bijection
<1>8. Cardinality(T) = Cardinality(S)
  <2>1. ExistsBijection(S, T)
    BY <1>7 DEF ExistsBijection
  <2> QED
    BY <1>4, <2>1, FS_Bijection
<1>9. 1 \in FinalsIn(s) <=> Head(s) \in Finals
  BY <1>1, <1>3 DEF FinalsIn
<1>10. Cardinality(T) = IF 1 \in FinalsIn(s) THEN Cardinality(FinalsIn(s)) - 1
                        ELSE Cardinality(FinalsIn(s))
  BY <1>4, FS_RemoveElement
<1>11. Cardinality(FinalsIn(s)) = Cardinality(S) + IF Head(s) \in Finals THEN 1 ELSE 0
  BY <1>4, <1>8, <1>9, <1>10
<1> QED
  BY <1>2, <1>11

\* A queued notification counts if it is a final status and can be sent.
LEMMA CountQueued ==
  ASSUME NEW what \in Notes, outbox \in Seq(Notes), Notify(what)
  PROVE  /\ Cardinality(FinalsIn(outbox)) \in Nat
         /\ what \notin Finals => Cardinality(FinalsIn(outbox')) = Cardinality(FinalsIn(outbox))
         /\ what \in Finals =>
              Cardinality(FinalsIn(outbox')) =
                Cardinality(FinalsIn(outbox)) + IF notify /\ bigMtu THEN 1 ELSE 0
<1>1. Cardinality(FinalsIn(outbox)) \in Nat
  BY FinalsAreFinite
<1>2. what \in Finals => (Fits(what) <=> bigMtu)
  BY DEF Fits, Finals, Statuses
<1>3. CASE notify /\ Fits(what)
  <2>1. outbox' = Append(outbox, what)
    BY <1>3 DEF Notify
  <2>2. Cardinality(FinalsIn(outbox')) =
          Cardinality(FinalsIn(outbox)) + IF what \in Finals THEN 1 ELSE 0
    BY <2>1, FinalsAppend
  <2> QED
    BY <1>1, <1>2, <1>3, <2>2
<1>4. CASE ~(notify /\ Fits(what))
  <2>1. outbox' = outbox
    BY <1>4 DEF Notify
  <2> QED
    BY <1>1, <1>2, <1>4, <2>1
<1> QED
  BY <1>3, <1>4

\* A process that has gone owes nothing.
LEMMA OffAccount == ASSUME ServiceOff PROVE AccountInv'
<1>1. at' = "loop" /\ cred' = "none" /\ outbox' = <<>> /\ owed' = 0
  BY OffData
<1>2. InHand' = 0
  BY <1>1 DEF InHand
<1>3. Cardinality(FinalsIn(outbox')) = 0
  BY <1>1, FinalsNone
<1> QED
  BY <1>1, <1>2, <1>3 DEF AccountInv, AnswersBalance

LEMMA AccountStep == ASSUME TypeOK, AccountInv, [Next]_vars PROVE AccountInv'
<1> USE DEF AccountInv, AnswersBalance
<1>0. /\ outbox \in Seq(Notes) /\ owed \in Int /\ notify \in BOOLEAN /\ bigMtu \in BOOLEAN
      /\ Cardinality(FinalsIn(outbox)) \in Nat
  BY FinalsAreFinite DEF TypeOK, Notes
<1>a. ASSUME UNCHANGED <<at, cred, notify, bigMtu, outbox, owed>> PROVE AccountInv'
  BY <1>a DEF InHand
<1>b. ASSUME NEW what \in Notes \ Finals, Notify(what), UNCHANGED <<cred, notify, bigMtu, owed>>,
             at' = "loop" => cred = "none",
             at' \in {"join", "open", "fill", "start", "poll"} => cred # "none"
      PROVE  AccountInv'
  BY <1>0, <1>b, CountQueued DEF InHand
<1>c. ASSUME NEW what \in Finals, Finish(what), UNCHANGED <<notify, bigMtu, owed>>, cred # "none"
      PROVE  AccountInv'
  <2>1. what \in Notes /\ Notify(what) /\ at' = "loop" /\ cred' = "none"
    BY <1>c DEF Finish, Finals, Notes
  <2>2. Cardinality(FinalsIn(outbox')) =
          Cardinality(FinalsIn(outbox)) + IF notify /\ bigMtu THEN 1 ELSE 0
    BY <1>0, <2>1, CountQueued
  <2>3. InHand = (IF notify /\ bigMtu THEN 1 ELSE 0) /\ InHand' = 0
    BY <1>c, <2>1 DEF InHand
  <2> QED
    BY <1>0, <1>c, <2>1, <2>2, <2>3
<1>d. ASSUME UNCHANGED <<cred, notify, bigMtu, owed, outbox>>,
             at' = "loop" => cred = "none",
             at' \in {"join", "open", "fill", "start", "poll"} => cred # "none"
      PROVE  AccountInv'
  BY <1>d DEF InHand
<1>1. CASE Radio /\ UNCHANGED startVars
  BY <1>1, <1>a DEF Radio, Connect, PhoneWrites, PhoneLeaves, Associate, LinkLost
<1>2. CASE Dispatch
  <2>1. at = "loop" /\ cred = "none" /\ InHand = 0
    BY <1>2 DEF Dispatch, InLoop, InHand
  <2>2. PICK m \in Messages :
          \/ HandleList \/ (m \in Creds /\ HandleJoin(m)) \/ HandleRefused
          \/ HandleUnsubscribe \/ HandleSubscribe \/ HandleMtu \/ HandleBadCcc
    <3>1. inbox \in Seq(Messages) /\ inbox # <<>>
      BY <1>2 DEF Dispatch, TypeOK
    <3>2. Head(inbox) \in Messages
      BY <3>1
    <3> QED
      BY <1>2, <3>2 DEF Dispatch
  <2>3. CASE HandleList \/ HandleUnsubscribe \/ HandleSubscribe \/ HandleMtu \/ HandleBadCcc
    <3>1. UNCHANGED <<cred, outbox, owed>> /\ at' \in {"loop", "list"}
      BY <2>1, <2>3 DEF HandleList, HandleUnsubscribe, HandleSubscribe, HandleMtu, HandleBadCcc
    <3>2. InHand' = 0
      BY <2>1, <3>1 DEF InHand
    <3> QED
      BY <2>1, <3>1, <3>2
  <2>4. CASE m \in Creds /\ HandleJoin(m)
    <3>1. /\ cred' = m /\ m # "none" /\ at' \in {"join", "list"}
          /\ UNCHANGED <<notify, bigMtu, outbox>>
          /\ owed' = IF notify /\ bigMtu THEN owed + 1 ELSE owed
      BY <2>4 DEF HandleJoin, Answerable
    <3>2. InHand' = IF notify /\ bigMtu THEN 1 ELSE 0
      BY <3>1 DEF InHand
    <3> QED
      BY <1>0, <2>1, <3>1, <3>2
  <2>5. CASE HandleRefused
    <3>1. /\ Notify("refused") /\ UNCHANGED <<at, cred, notify, bigMtu>>
          /\ owed' = IF notify /\ bigMtu THEN owed + 1 ELSE owed
      BY <2>5 DEF HandleRefused, Answerable
    <3>2. "refused" \in Finals /\ "refused" \in Notes
      BY DEF Finals, Statuses, Notes
    <3>3. Cardinality(FinalsIn(outbox')) =
            Cardinality(FinalsIn(outbox)) + IF notify /\ bigMtu THEN 1 ELSE 0
      BY <1>0, <3>1, <3>2, CountQueued
    <3>4. InHand' = 0
      BY <2>1, <3>1 DEF InHand
    <3> QED
      BY <1>0, <2>1, <3>1, <3>3, <3>4
  <2> QED
    BY <2>2, <2>3, <2>4, <2>5
<1>3. CASE SendNotification
  <2>1. /\ outbox # <<>> /\ outbox' = Tail(outbox)
        /\ owed' = IF Head(outbox) \in Finals THEN owed - 1 ELSE owed
        /\ UNCHANGED <<at, cred, notify, bigMtu>>
    BY <1>3 DEF SendNotification
  <2>2. Cardinality(FinalsIn(outbox)) =
          Cardinality(FinalsIn(outbox')) + IF Head(outbox) \in Finals THEN 1 ELSE 0
    BY <1>0, <2>1, FinalsTail
  <2>3. Cardinality(FinalsIn(outbox')) \in Nat
    <3>1. outbox' \in Seq(Notes)
      BY <1>0, <2>1
    <3> QED
      BY <3>1, FinalsAreFinite
  <2>4. InHand' = InHand
    BY <2>1 DEF InHand
  <2>5. InHand \in Int
    BY DEF InHand
  <2> QED
    BY <1>0, <2>1, <2>2, <2>3, <2>4, <2>5
<1>4. CASE NoticeLeave
  <2>1. at = "loop" /\ cred = "none" /\ UNCHANGED <<at, cred>> /\ outbox' = <<>> /\ owed' = 0
    BY <1>4, Zenon DEF NoticeLeave, InLoop, AccountInv
  <2>2. InHand' = 0
    BY <2>1 DEF InHand
  <2>3. Cardinality(FinalsIn(outbox')) = 0
    BY <2>1, FinalsNone
  <2> QED
    BY <2>1, <2>2, <2>3
<1>5. CASE Handler
  <2>1. CASE ScanSetup
    BY <1>b, <1>d, <2>1 DEF ScanSetup, AfterList, Notes, Finals, Statuses
  <2>2. CASE ScanEnd
    BY <1>b, <2>2 DEF ScanEnd, AfterList, Notes, Finals, Statuses
  <2>3. CASE AnnounceJoin
    BY <1>b, <2>3 DEF AnnounceJoin, Notes, Finals, Statuses
  <2>4. CASE OpenConf
    BY <1>c, <1>d, <2>4 DEF OpenConf, Finals, Statuses
  <2>5. CASE FillConf
    BY <1>d, <2>5 DEF FillConf
  <2>6. CASE StartJoin
    BY <1>c, <1>d, <2>6 DEF StartJoin, Finals, Statuses
  <2>7. CASE JoinReady
    BY <1>c, <2>7 DEF JoinReady, Finals, Statuses
  <2>8. CASE JoinTimeout
    BY <1>c, <2>8 DEF JoinTimeout, Finals, Statuses
  <2> QED
    BY <1>5, <2>1, <2>2, <2>3, <2>4, <2>5, <2>6, <2>7, <2>8 DEF Handler
<1>6. CASE Boot \/ CheckNetwork \/ StartSupplicant \/ NetworkReady \/ NetworkTimeout \/ Serve
  BY <1>a, <1>6 DEF Boot, CheckNetwork, StartSupplicant, NetworkReady, NetworkTimeout, Serve
<1>7. CASE EnterProvision \/ ServiceEnds \/ ServiceDies \/ PowerCut
  BY <1>7, OffAccount DEF EnterProvision, ServiceEnds, ServiceDies, PowerCut
<1>8. CASE SetupFails \/ ClientDies \/ Running \/ UNCHANGED vars
  BY <1>a, <1>8 DEF SetupFails, ClientDies, Running, vars
<1> QED
  BY <1>1, <1>2, <1>3, <1>4, <1>5, <1>6, <1>7, <1>8 DEF Next, Client, Service, Loop

LEMMA AccountTheorem == Spec => []AccountInv
<1>1. Init => AccountInv
  <2> SUFFICES ASSUME Init PROVE AccountInv
    OBVIOUS
  <2>1. at = "loop" /\ cred = "none" /\ outbox = <<>> /\ owed = 0
    BY DEF Init, Init_ble
  <2>2. InHand = 0
    BY <2>1 DEF InHand
  <2> QED
    BY <2>1, <2>2, FinalsNone DEF AccountInv, AnswersBalance
<1>2. TypeOK /\ AccountInv /\ [Next]_vars => AccountInv'
  BY AccountStep
<1> QED
  BY <1>1, <1>2, TypeCorrect, PTL DEF Spec

\* No command of a phone is answered twice and none loses its answer: what the
\* phone is owed is what is queued, and the answer to the credentials in hand.
THEOREM BalanceTheorem == Spec => []AnswersBalance
<1>1. AccountInv => AnswersBalance
  BY DEF AccountInv
<1> QED
  BY <1>1, AccountTheorem, PTL

-----------------------------------------------------------------------------
(* Who waits for whom.                                                     *)

\* The client waits for a script that runs, and for no other; a script that
\* serves has its service, and no service is without a script.
Served ==
  /\ app = "wait" <=> script \in {"setup", "serve"}
  /\ srv = "off" <=> script \in {"off", "setup"}

\* A phone that has connected has the service's session, whose main loop no
\* handler holds when there is none.
Attended ==
  /\ peer = "none" <=> srv # "session"
  /\ at # "loop" => srv = "session"

\* Outside a session nothing is left of the last one.
LeftClean ==
  srv # "session" => /\ inbox = <<>> /\ outbox = <<>> /\ owed = 0
                     /\ ~notify /\ ~listDone /\ ~bigMtu

LifeInv == Served /\ Attended /\ LeftClean

\* A process that has gone leaves nothing, whatever the client does.
LEMMA OffLife ==
  ASSUME ServiceOff
  PROVE  Attended' /\ LeftClean' /\ (Served' <=> /\ app' = "wait" <=> script' \in {"setup", "serve"}
                                                 /\ script' \in {"off", "setup"})
<1>1. /\ srv' = "off" /\ peer' = "none" /\ at' = "loop" /\ inbox' = <<>> /\ outbox' = <<>>
      /\ owed' = 0 /\ notify' = FALSE /\ listDone' = FALSE /\ bigMtu' = FALSE
  BY Zenon DEF ServiceOff
<1> QED
  BY <1>1 DEF Served, Attended, LeftClean

\* The main loop's steps and the handlers' are taken in a session, and only the
\* end of the link ends it.
LEMMA SessionLife == ASSUME LifeInv, Service PROVE LifeInv'
<1>1. CASE Dispatch \/ SendNotification \/ Handler
  <2>1. srv = "session" /\ UNCHANGED <<srv, peer, app, script>>
    <3>1. CASE Dispatch \/ SendNotification
      BY <3>1 DEF Service, Dispatch, SendNotification, InLoop
    <3>2. CASE Handler
      <4>1. at # "loop" /\ UNCHANGED <<srv, peer>>
        BY <3>2 DEF Handler, ScanSetup, ScanEnd, AnnounceJoin, OpenConf, FillConf, StartJoin,
           JoinReady, JoinTimeout
      <4> QED
        BY <4>1 DEF Service, LifeInv, Attended
    <3> QED
      BY <1>1, <3>1, <3>2
  <2> QED
    BY <2>1 DEF LifeInv, Served, Attended, LeftClean
<1>2. CASE NoticeLeave
  <2>1. /\ srv = "session" /\ at = "loop" /\ at' = "loop" /\ UNCHANGED <<app, script>>
        /\ srv' \in {"ended", "accept"} /\ peer' = "none" /\ inbox' = <<>> /\ outbox' = <<>>
        /\ owed' = 0 /\ notify' = FALSE /\ listDone' = FALSE /\ bigMtu' = FALSE
    BY <1>2, Zenon DEF Service, NoticeLeave, InLoop
  <2> QED
    BY <2>1 DEF LifeInv, Served, Attended, LeftClean
<1> QED
  BY <1>1, <1>2 DEF Service, Loop

LEMMA RadioLife == ASSUME LifeInv, Radio /\ UNCHANGED startVars PROVE LifeInv'
<1>1. CASE Connect
  BY <1>1 DEF Connect, LifeInv, Served, Attended, LeftClean
<1>2. CASE (\E m \in Messages : PhoneWrites(m)) \/ PhoneLeaves
  <2>1. /\ peer # "none" /\ peer' # "none" /\ UNCHANGED <<srv, at, app, script>>
    BY <1>2 DEF PhoneWrites, PhoneLeaves
  <2> QED
    BY <2>1 DEF LifeInv, Served, Attended, LeftClean
<1>3. CASE Associate \/ LinkLost
  BY <1>3 DEF Associate, LinkLost, LifeInv, Served, Attended, LeftClean
<1> QED
  BY <1>1, <1>2, <1>3 DEF Radio

\* What client and script do to the service they do to it as a whole.
LEMMA StartLife ==
  ASSUME LifeInv, Client \/ SetupFails \/ ServiceDies \/ ClientDies \/ PowerCut
  PROVE  LifeInv'
<1>1. CASE Boot \/ CheckNetwork \/ StartSupplicant \/ NetworkReady \/ NetworkTimeout
  <2>1. /\ app # "wait" /\ app' # "wait"
        /\ UNCHANGED <<script, srv, peer, at, inbox, outbox, owed, notify, listDone, bigMtu>>
    <3>1. CASE Boot \/ StartSupplicant \/ NetworkReady \/ NetworkTimeout
      BY <3>1 DEF Boot, StartSupplicant, NetworkReady, NetworkTimeout
    <3>2. CASE CheckNetwork
      <4>1. app = "check" /\ app' \in {"run", "enter", "start"}
        BY <3>2, Zenon DEF CheckNetwork
      <4> QED
        BY <3>2, <4>1 DEF CheckNetwork
    <3> QED
      BY <1>1, <3>1, <3>2
  <2> QED
    BY <2>1 DEF LifeInv, Served, Attended, LeftClean
<1>2. CASE EnterProvision \/ ServiceEnds \/ ServiceDies \/ PowerCut
  <2>1. ServiceOff
    BY <1>2 DEF EnterProvision, ServiceEnds, ServiceDies, PowerCut
  <2>2. CASE EnterProvision \/ PowerCut
    BY <2>1, <2>2, OffLife DEF EnterProvision, PowerCut, LifeInv
  <2>3. CASE ServiceEnds \/ ServiceDies
    <3>1. /\ srv # "off" /\ script' = "off"
          /\ IF script = "orphan" THEN app' = app ELSE app' \in {"check", "enter"}
      BY <2>3 DEF ServiceEnds, ServiceDies
    <3>2. script = "orphan" => app # "wait"
      BY DEF LifeInv, Served
    <3> QED
      BY <2>1, <3>1, <3>2, OffLife DEF LifeInv
  <2> QED
    BY <1>2, <2>2, <2>3
<1>3. CASE Serve
  <2>1. srv = "off"
    BY <1>3 DEF Serve, LifeInv, Served
  <2> QED
    BY <1>3, <2>1 DEF Serve, LifeInv, Served, Attended, LeftClean
<1>4. CASE SetupFails \/ ClientDies
  BY <1>4 DEF SetupFails, ClientDies, LifeInv, Served, Attended, LeftClean
<1> QED
  BY <1>1, <1>2, <1>3, <1>4 DEF Client

\* Whatever fails, the client waits for nobody who has gone, no handler runs
\* without a session, and nothing of one is left for the next.
THEOREM LifeTheorem == Spec => []LifeInv
<1>1. Init => LifeInv
  BY DEF Init, Init_ble, LifeInv, Served, Attended, LeftClean
<1>2. LifeInv /\ [Next]_vars => LifeInv'
  <2> SUFFICES ASSUME LifeInv, [Next]_vars PROVE LifeInv'
    OBVIOUS
  <2>1. CASE Running \/ UNCHANGED vars
    BY <2>1 DEF Running, vars, LifeInv, Served, Attended, LeftClean
  <2> QED
    BY <2>1, RadioLife, SessionLife, StartLife DEF Next
<1> QED
  BY <1>1, <1>2, PTL DEF Spec

\* A status that is due is in the queue of a session, or a handler that is on
\* its way will queue it.
StatusIsOnItsWay ==
  owed > 0 => srv = "session" /\ (outbox # <<>> \/ (at # "loop" /\ cred # "none"))

\* Nobody forgets a command: what is missing from the delivery of a status is
\* only that its handler, or the main loop, runs.
THEOREM OnItsWayTheorem == Spec => []StatusIsOnItsWay
<1>1. TypeOK /\ AccountInv /\ LifeInv => StatusIsOnItsWay
  <2> SUFFICES ASSUME TypeOK, AccountInv, LifeInv, owed > 0, outbox = <<>>
               PROVE  srv = "session" /\ at # "loop" /\ cred # "none"
    <3>1. TypeOK /\ LifeInv /\ owed > 0 => srv = "session"
      BY DEF TypeOK, LifeInv, LeftClean
    <3> QED
      BY <3>1 DEF StatusIsOnItsWay
  <2>1. srv = "session"
    BY DEF LifeInv, LeftClean
  <2>2. owed = InHand
    <3>1. owed \in Int /\ owed = Cardinality(FinalsIn(outbox)) + InHand
      BY DEF TypeOK, AccountInv, AnswersBalance
    <3>2. Cardinality(FinalsIn(outbox)) = 0
      BY FinalsNone
    <3>3. InHand \in Int
      BY DEF InHand
    <3> QED
      BY <3>1, <3>2, <3>3
  <2>3. cred # "none"
    BY <2>2 DEF InHand
  <2> QED
    BY <2>1, <2>3 DEF AccountInv
<1>2. Spec => []AccountInv
  BY AccountTheorem
<1> QED
  BY <1>1, <1>2, TypeCorrect, LifeTheorem, PTL
=============================================================================

------------------------------ MODULE Startup ------------------------------
(***************************************************************************)
(* From power-on to the running application: zh_app_start looks for a      *)
(* network (wifi_bootstrap.c) and, without one, forks the script that runs *)
(* the BLE service and waits for it (ble_provision.c,                      *)
(* scripts/ble/start_ble_provision.sh).  The supervisor of                 *)
(* scripts/self_start/start_zh_client.sh starts the client again whenever  *)
(* it ends; the script and the service outlive it.                         *)
(***************************************************************************)
EXTENDS WifiProvision, Integers

VARIABLES
  app,         \* where the client is: "down", "check", "start", "poll", "enter",
               \* "wait" (for the script) or "run" (zh_app_run).  force_ble_retry
               \* is the difference between going back to "enter" or to "check".
  script       \* the script: "off", "setup", "serve", or "orphan" when it serves
               \* and the client that forked it has gone

startVars == <<app, script>>
vars == <<bleVars, startVars>>

Init ==
  /\ Init_ble
  /\ conf \in {"none"} \cup Creds
  /\ app = "down" /\ script = "off"

-----------------------------------------------------------------------------
(* The client.                                                             *)

Boot ==
  /\ app = "down"
  /\ app' = "check"
  /\ UNCHANGED <<bleVars, script>>

\* Mutant: without a configuration the check is made again.
CheckAgain ==
  /\ app = "check"
  /\ app' = CASE LinkReady     -> "run"
              [] conf = "none" -> "check"
              [] OTHER         -> "start"
  /\ UNCHANGED <<bleVars, script>>

\* zh_wifi_ensure_connected up to the start of wpa_supplicant.
CheckNetwork ==
  /\ app = "check"
  /\ app' = CASE LinkReady     -> "run"
              [] conf = "none" -> "enter"
              [] OTHER         -> "start"
  /\ UNCHANGED <<bleVars, script>>

StartSupplicant ==
  /\ app = "start"
  /\ \/ Supplicant(conf) /\ app' = "poll" /\ UNCHANGED faults
     \/ /\ faults < MaxFaults /\ faults' = faults + 1
        /\ Supplicant("none") /\ app' = "enter"
  /\ UNCHANGED <<srv, phone, handler, client, flags, outbox, file, history, script>>

NetworkReady ==
  /\ app = "poll" /\ LinkReady
  /\ app' = "run"
  /\ UNCHANGED <<bleVars, script>>

NetworkTimeout ==
  /\ app = "poll" /\ ~LinkReady
  /\ SlowNetwork
  /\ app' = "enter"
  /\ UNCHANGED <<srv, phone, handler, client, flags, outbox, network, history, script>>

\* The service is off: its process has gone and with it all it kept.
ServiceOff ==
  /\ srv' = "off"
  /\ peer' = "none"
  /\ at' = "loop" /\ cred' = "none" /\ inbox' = <<>> /\ outbox' = <<>>
  /\ notify' = FALSE /\ listDone' = FALSE /\ bigMtu' = FALSE
  /\ waitLeave' = FALSE /\ done' = FALSE
  /\ owed' = 0 /\ told' = FALSE /\ joined' = FALSE

\* zh_ble_provision_enter forks the script, whose first step kills a service
\* that is still there.
EnterProvision ==
  /\ app = "enter"
  /\ app' = "wait" /\ script' = "setup"
  /\ ServiceOff
  /\ UNCHANGED <<writes, network, faults>>

\* The adapter is up and advertises; the service listens.
Serve ==
  /\ app = "wait" /\ script = "setup"
  /\ script' = "serve" /\ srv' = "accept"
  /\ UNCHANGED <<phone, handler, client, flags, outbox, network, faults, history, app>>

\* A tool is missing or the adapter does not come up: the script exits with 1
\* and the client runs it again, without another look at the network.
SetupFails ==
  /\ app = "wait" /\ script = "setup" /\ faults < MaxFaults
  /\ faults' = faults + 1
  /\ script' = "off" /\ app' = "enter"
  /\ UNCHANGED <<srv, phone, handler, client, flags, outbox, network, history>>

\* The service ends with 0, the script with it, and the client checks again.
ServiceEnds ==
  /\ srv = "ended"
  /\ script' = "off"
  /\ IF script = "orphan" THEN UNCHANGED app
                          ELSE app' = "check"
  /\ ServiceOff
  /\ UNCHANGED <<writes, network, faults>>

-----------------------------------------------------------------------------
(* Faults.                                                                 *)

\* The service dies; the script passes its status on.
ServiceDies ==
  /\ srv \in {"accept", "session"} /\ faults < MaxFaults
  /\ faults' = faults + 1
  /\ script' = "off"
  /\ IF script = "orphan" THEN UNCHANGED app
                          ELSE app' = "enter"
  /\ ServiceOff
  /\ UNCHANGED <<writes, network>>

\* The client dies, or is restarted by hand, with a service running or none
\* (not in the seconds in which the script sets the adapter up).
ClientDies ==
  /\ app # "down" /\ script # "setup" /\ faults < MaxFaults
  /\ faults' = faults + 1
  /\ app' = "down"
  /\ script' = IF script = "serve" THEN "orphan" ELSE script
  /\ UNCHANGED <<srv, phone, handler, client, flags, outbox, network, history>>

\* A file that was not synchronised may be torn, or an earlier one.
PowerCut ==
  /\ faults < MaxFaults
  /\ faults' = faults + 1
  /\ app' = "down" /\ script' = "off"
  /\ ServiceOff /\ Supplicant("none")
  /\ conf' \in IF fresh THEN {conf, "none", "torn"} \cup Creds ELSE {conf}
  /\ fresh' = FALSE
  /\ UNCHANGED writes

\* zh_app_run: the sessions of VisionUpload and AudioUplink.
Running ==
  /\ app = "run"
  /\ UNCHANGED vars

-----------------------------------------------------------------------------
Client == Boot \/ CheckNetwork \/ StartSupplicant \/ NetworkReady \/ NetworkTimeout
          \/ EnterProvision \/ Serve \/ ServiceEnds

Service == (Loop \/ Handler) /\ UNCHANGED startVars

Next ==
  \/ Radio /\ UNCHANGED startVars
  \/ Service
  \/ Client
  \/ Running
  \/ SetupFails \/ ServiceDies \/ ClientDies \/ PowerCut

Spec == Init /\ [][Next]_vars

\* Threads are scheduled, the supplicant joins a network that accepts it.
FairSpec ==
  /\ Spec
  /\ WF_vars(Client)
  /\ WF_vars(Service)
  /\ WF_vars(Associate /\ UNCHANGED startVars)

-----------------------------------------------------------------------------
(* Properties.                                                             *)

TypeOK ==
  /\ srv \in {"off", "accept", "session", "ended"}
  /\ peer \in {"none", "up", "lost"}
  /\ at \in {"loop", "list", "scan", "join", "open", "fill", "start", "poll"}
  /\ cred \in {"none"} \cup Creds
  /\ notify \in BOOLEAN /\ listDone \in BOOLEAN /\ bigMtu \in BOOLEAN
  /\ waitLeave \in BOOLEAN /\ done \in BOOLEAN
  /\ inbox \in Seq(Messages)
  /\ outbox \in Seq(Statuses \cup {"list", "empty"})
  /\ conf \in {"none", "torn"} \cup Creds
  /\ wpa \in {"none", "torn", "scan"} \cup Creds
  /\ fresh \in BOOLEAN /\ online \in BOOLEAN
  /\ writes \in 0 .. MaxWrites /\ faults \in 0 .. MaxFaults
  /\ owed \in Int
  /\ told \in BOOLEAN /\ joined \in BOOLEAN
  /\ app \in {"down", "check", "start", "poll", "enter", "wait", "run"}
  /\ script \in {"off", "setup", "serve", "orphan"}

\* Neither the phone nor the client is told of a success there was not.
SuccessIsReal == told \/ srv = "ended" => joined

\* Every command whose answer can be sent has its final status delivered,
\* whatever fails on the way, unless the phone goes away.
StatusIsDelivered == owed > 0 ~> owed = 0

\* Whatever fails, the client runs or a phone can connect, again and again.
NeverStuck == []<>(app = "run" \/ srv \in {"accept", "session"})

\* A phone that has given good credentials and leaves gets a running client,
\* when nothing else goes wrong.
ProvisionedStarts ==
  (/\ script = "serve" /\ waitLeave /\ peer = "lost" /\ at = "loop" /\ inbox = <<>>
   /\ conf \in Good /\ faults = MaxFaults)
     ~> app = "run"

\* "WiFi recovery" (README.md): a device that has the credentials of a network
\* in reach gets to run on it.
KnownNetworkIsUsed ==
  conf \in Good /\ faults = MaxFaults ~> app = "run" \/ conf \notin Good
=============================================================================

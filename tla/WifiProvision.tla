--------------------------- MODULE WifiProvision ---------------------------
(***************************************************************************)
(* The BLE service of src/ble_sdk/btgatt-server.c, through which a phone   *)
(* gives the device its WiFi credentials.  One thread runs a main loop; a  *)
(* handler that scans or joins holds it for seconds, in which the phone's  *)
(* writes, its disconnection and the service's own notifications wait.     *)
(* Frames are commands here: WifiFrames models how they are cut from the   *)
(* writes.  The application that starts this process is in Startup.        *)
(***************************************************************************)
EXTENDS Naturals, Sequences

CONSTANTS
  Creds,       \* credentials: a network name and a password
  Good,        \* those that a network in reach accepts
  MaxWrites,   \* bound on the writes of the phones
  MaxFaults    \* bound on what goes wrong

ASSUME ProvisionAssumption ==
  /\ Good \subseteq Creds
  /\ {"none", "torn", "scan"} \cap Creds = {}
  /\ MaxWrites \in Nat /\ MaxFaults \in Nat

VARIABLES
  srv,         \* the process: "off", "accept", "session", "ended" (exit 0)
  peer,        \* the BLE link: "none", "up", "lost" and not yet noticed
  at,          \* where its thread is: "loop" or inside a handler
  cred,        \* the credentials the handler is joining with
  notify,      \* wifi_chngd_enabled
  listDone,    \* wifi_list_phase_done
  bigMtu,      \* the MTU is more than the default 23
  waitLeave,   \* g_wait_disconnect_after_success
  done,        \* g_provision_done
  inbox,       \* writes that the main loop has not read
  outbox,      \* notifications that it has not sent
  \* shared with the application
  conf,        \* /etc/wpa_supplicant.conf: "none", "torn" or credentials
  fresh,       \* it was written since the power came on, and nothing synchronised
  wpa,         \* what wpa_supplicant runs with: "none", "scan" or the file
  online,      \* the supplicant has joined and wlan0 has an address
  \* bounds and history
  writes, faults,
  owed,        \* final statuses due to the phone and not delivered
  told,        \* the phone has read a success
  joined       \* this process has seen the link ready after a command

phone   == <<peer, inbox, writes>>
handler == <<at, cred>>
client  == <<notify, listDone, bigMtu>>
flags   == <<waitLeave, done>>
file    == <<conf, fresh>>
network == <<file, wpa, online>>
history == <<owed, told, joined>>
bleVars == <<srv, phone, handler, client, flags, outbox, network, faults, history>>

Statuses == {"connecting", "connected", "refused", "failed"}   \* 1, 0, 2, 4
Finals   == Statuses \ {"connecting"}

Messages == {"subscribe", "unsubscribe", "badccc", "mtu", "list", "badjoin", "unknown"}
            \cup Creds

Init_ble ==
  /\ srv = "off" /\ peer = "none" /\ at = "loop" /\ cred = "none"
  /\ notify = FALSE /\ listDone = FALSE /\ bigMtu = FALSE
  /\ waitLeave = FALSE /\ done = FALSE /\ inbox = <<>> /\ outbox = <<>>
  /\ fresh = FALSE /\ wpa = "none" /\ online = FALSE
  /\ writes = 0 /\ faults = 0
  /\ owed = 0 /\ told = FALSE /\ joined = FALSE

-----------------------------------------------------------------------------
(* The phone and the radio.                                                *)

\* A phone connects; the struct server it meets is new.
Connect ==
  /\ srv = "accept"
  /\ srv' = "session" /\ peer' = "up"
  /\ told' = FALSE
  /\ UNCHANGED <<inbox, writes, handler, client, flags, outbox, network, faults, owed, joined>>

PhoneWrites(m) ==
  /\ peer = "up" /\ writes < MaxWrites
  /\ writes' = writes + 1
  /\ inbox' = Append(inbox, m)
  /\ UNCHANGED <<srv, peer, handler, client, flags, outbox, network, faults, history>>

\* It disconnects, or goes out of reach.
PhoneLeaves ==
  /\ peer = "up"
  /\ peer' = "lost"
  /\ UNCHANGED <<srv, inbox, writes, handler, client, flags, outbox, network, faults, history>>

\* The supplicant joins the network of its configuration, and gets an address.
Associate ==
  /\ wpa \in Good /\ ~online
  /\ online' = TRUE
  /\ UNCHANGED <<srv, phone, handler, client, flags, outbox, file, wpa, faults, history>>

LinkLost ==
  /\ online /\ faults < MaxFaults
  /\ online' = FALSE /\ faults' = faults + 1
  /\ UNCHANGED <<srv, phone, handler, client, flags, outbox, file, wpa, history>>

-----------------------------------------------------------------------------
(* What a handler does on its way.                                         *)

\* A notification needs a subscription, and its frame has to fit the MTU: a
\* status (21 bytes) and a list do not fit into 20, an empty list does.
Fits(what)   == bigMtu \/ what = "empty"
Notify(what) == outbox' = IF notify /\ Fits(what) THEN Append(outbox, what) ELSE outbox

\* wpa_supplicant is killed, and possibly started with another configuration.
Supplicant(config) == wpa' = config /\ online' = FALSE

\* After a list a handler that has credentials goes on to join.
AfterList == IF cred = "none" THEN "loop" ELSE "join"

\* A handler ends, with a final status if it was a command with an answer.
Finish(status) ==
  /\ Notify(status)
  /\ at' = "loop" /\ cred' = "none"

-----------------------------------------------------------------------------
(* The main loop, in a session and outside a handler.                      *)

InLoop == srv = "session" /\ at = "loop"

\* handle_wifi_cmd and wifi_chngd_ccc_write_cb up to the first wait.
HandleList ==
  /\ listDone' = TRUE
  /\ at' = "list"
  /\ UNCHANGED <<cred, notify, bigMtu, outbox, owed>>

Answerable == IF notify /\ bigMtu THEN owed + 1 ELSE owed

HandleJoin(c) ==
  /\ cred' = c
  /\ at' = IF listDone THEN "join" ELSE "list"
  /\ listDone' = TRUE
  /\ owed' = Answerable
  /\ UNCHANGED <<notify, bigMtu, outbox>>

HandleRefused ==
  /\ Notify("refused")
  /\ owed' = Answerable
  /\ UNCHANGED <<handler, client>>

HandleUnsubscribe ==
  /\ notify' = FALSE /\ listDone' = FALSE
  /\ UNCHANGED <<handler, bigMtu, outbox, owed>>

HandleSubscribe ==
  /\ notify' = TRUE /\ listDone' = TRUE
  /\ at' = "list"
  /\ UNCHANGED <<cred, bigMtu, outbox, owed>>

HandleMtu ==
  /\ bigMtu' = TRUE
  /\ UNCHANGED <<handler, notify, listDone, outbox, owed>>

\* An undefined value is refused, but a subscriber is sent the list all the same.
HandleBadCcc ==
  /\ IF notify THEN at' = "list" /\ listDone' = TRUE ELSE UNCHANGED <<at, listDone>>
  /\ UNCHANGED <<cred, notify, bigMtu, outbox, owed>>

Dispatch ==
  /\ InLoop /\ inbox # <<>>
  /\ LET m == Head(inbox) IN
       \/ m = "list" /\ HandleList
       \/ m \in Creds /\ HandleJoin(m)
       \/ m \in {"badjoin", "unknown"} /\ HandleRefused
       \/ m = "unsubscribe" /\ HandleUnsubscribe
       \/ m = "subscribe" /\ HandleSubscribe
       \/ m = "mtu" /\ HandleMtu
       \/ m = "badccc" /\ HandleBadCcc
  /\ inbox' = Tail(inbox)
  /\ UNCHANGED <<srv, peer, writes, flags, network, faults, told, joined>>

\* The loop writes out what the handlers have queued.
SendNotification ==
  /\ InLoop /\ peer = "up" /\ outbox # <<>>
  /\ outbox' = Tail(outbox)
  /\ owed' = IF Head(outbox) \in Finals THEN owed - 1 ELSE owed
  /\ told' = (told \/ Head(outbox) = "connected")
  /\ UNCHANGED <<srv, phone, handler, client, flags, network, faults, joined>>

\* att_disconnect_cb.
DoneNow == done \/ waitLeave

\* Mutant: the disconnection is not taken for the end of the provisioning.
NoticeLeaveOnly ==
  /\ InLoop /\ peer = "lost"
  /\ srv' = "accept"
  /\ peer' = "none" /\ inbox' = <<>> /\ outbox' = <<>> /\ owed' = 0
  /\ notify' = FALSE /\ listDone' = FALSE /\ bigMtu' = FALSE
  /\ UNCHANGED <<writes, handler, flags, network, faults, told, joined>>

\* The main loop ends, and main goes on to the next connection or is done.
NoticeLeave ==
  /\ InLoop /\ peer = "lost"
  /\ done' = DoneNow
  /\ srv' = IF done' THEN "ended" ELSE "accept"
  /\ peer' = "none" /\ inbox' = <<>> /\ outbox' = <<>> /\ owed' = 0
  /\ notify' = FALSE /\ listDone' = FALSE /\ bigMtu' = FALSE
  /\ UNCHANGED <<writes, handler, waitLeave, network, faults, told, joined>>

-----------------------------------------------------------------------------
(* send_demo_wifi_list.                                                    *)

\* The scan cannot be set up, or the supplicant is started for it.
ScanSetup ==
  /\ at = "list"
  /\ \/ Notify("empty") /\ at' = AfterList /\ UNCHANGED <<wpa, online>>
     \/ Notify("empty") /\ at' = AfterList /\ Supplicant("none")
     \/ Supplicant("scan") /\ at' = "scan" /\ UNCHANGED outbox
  /\ UNCHANGED <<srv, phone, cred, client, flags, file, faults, history>>

\* The supplicant is killed again.  What does not fit is not listed, so with
\* the default MTU the list is empty.
ScanEnd ==
  /\ at = "scan"
  /\ Supplicant("none")
  /\ \E what \in {"list", "empty"} : Fits(what) /\ Notify(what)
  /\ at' = AfterList
  /\ UNCHANGED <<srv, phone, cred, client, flags, file, faults, history>>

-----------------------------------------------------------------------------
(* Command 0x1001 with credentials: run_wifi_connect_flow.                 *)

AnnounceJoin ==
  /\ at = "join"
  /\ Notify("connecting")
  /\ at' = "open"
  /\ UNCHANGED <<srv, phone, cred, client, flags, network, faults, history>>

\* Opening the file for writing empties it.
OpenConf ==
  /\ at = "open"
  /\ \/ Finish("refused") /\ UNCHANGED file
     \/ conf' = "torn" /\ fresh' = TRUE /\ at' = "fill" /\ UNCHANGED <<cred, outbox>>
  /\ UNCHANGED <<srv, phone, client, flags, wpa, online, faults, history>>

\* Neither the write nor the fclose is checked: on a full flash the file stays
\* torn and the handler goes on.
FillConf ==
  /\ at = "fill"
  /\ \/ conf' = cred /\ UNCHANGED faults
     \/ faults < MaxFaults /\ faults' = faults + 1 /\ UNCHANGED conf
  /\ at' = "start"
  /\ UNCHANGED <<srv, phone, cred, client, flags, outbox, fresh, wpa, online, history>>

\* wlan0 has an address, and the supplicant says COMPLETED.
LinkReady == online

\* Three commands are tried.
StartJoin ==
  /\ at = "start"
  /\ \/ Supplicant("none") /\ Finish("refused")
     \/ Supplicant(conf) /\ at' = "poll" /\ UNCHANGED <<cred, outbox>>
  /\ UNCHANGED <<srv, phone, client, flags, file, faults, history>>

\* The link is looked at twenty times; the success is notified three times.
JoinReady ==
  /\ at = "poll" /\ LinkReady
  /\ Finish("connected")
  /\ waitLeave' = TRUE
  /\ joined' = TRUE
  /\ UNCHANGED <<srv, phone, client, done, network, faults, owed, told>>

\* A network in reach that takes longer than the ten seconds is a fault.
SlowNetwork == IF wpa \in Good
               THEN faults < MaxFaults /\ faults' = faults + 1
               ELSE UNCHANGED faults

\* Mutant: the flag is set whatever came of the attempt.
JoinTimeoutFlagged ==
  /\ at = "poll" /\ ~LinkReady
  /\ SlowNetwork
  /\ Finish("failed")
  /\ waitLeave' = TRUE
  /\ UNCHANGED <<srv, phone, client, done, network, history>>

\* Mutant: the link is looked at for ever.
JoinPollsOn == at = "poll" /\ ~LinkReady /\ UNCHANGED bleVars

JoinTimeout ==
  /\ at = "poll" /\ ~LinkReady
  /\ SlowNetwork
  /\ Finish("failed")
  /\ UNCHANGED <<srv, phone, client, flags, network, history>>

-----------------------------------------------------------------------------
Handler == ScanSetup \/ ScanEnd \/ AnnounceJoin \/ OpenConf \/ FillConf
           \/ StartJoin \/ JoinReady \/ JoinTimeout

Radio == Connect \/ (\E m \in Messages : PhoneWrites(m)) \/ PhoneLeaves
         \/ Associate \/ LinkLost

Loop == Dispatch \/ SendNotification \/ NoticeLeave
=============================================================================

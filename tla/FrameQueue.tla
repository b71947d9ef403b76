----------------------------- MODULE FrameQueue -----------------------------
(***************************************************************************)
(* What the WiFi characteristic of src/ble_sdk/btgatt-server.c owes a      *)
(* phone: the commands of a connection are handled in the order they were  *)
(* sent, each at most once, and all of them as long as every frame on the  *)
(* connection arrived whole and sound.                                     *)
(***************************************************************************)
EXTENDS Naturals, Sequences

CONSTANT Frames      \* the frames a phone may send on a connection

VARIABLES queue,     \* frames sent and not yet handled, in order
          out,       \* frames handled on this connection
          damaged    \* something on this connection did not arrive as sent

qvars == <<queue, out, damaged>>

QInit == queue = <<>> /\ out = <<>> /\ damaged = FALSE

Send == \E f \in Frames : /\ queue' = Append(queue, f)
                          /\ UNCHANGED <<out, damaged>>

\* The next frame is handled; after damage some of those before it may be lost.
Deliver == \E k \in DOMAIN queue :
             /\ k > 1 => damaged
             /\ out' = Append(out, queue[k])
             /\ queue' = SubSeq(queue, k + 1, Len(queue))
             /\ UNCHANGED damaged

Damage == damaged' = TRUE /\ UNCHANGED <<queue, out>>

Renew == queue' = <<>> /\ out' = <<>> /\ damaged' = FALSE

QNext == Send \/ Deliver \/ Damage \/ Renew

QSpec == QInit /\ [][QNext]_qvars
=============================================================================

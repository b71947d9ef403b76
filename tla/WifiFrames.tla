----------------------------- MODULE WifiFrames -----------------------------
(***************************************************************************)
(* How src/ble_sdk/btgatt-server.c cuts the writes of a phone into frames. *)
(* A frame is 4A 4C, a length, a command and its JSON, a CRC-16 and FF; a  *)
(* phone sends it in as many ATT writes as the MTU asks for.  The server   *)
(* appends each write to wifi_rx_buf and takes the frames off its front.   *)
(*                                                                         *)
(* A cell stands for one byte, or for the two bytes of the length, of the  *)
(* command and of the checksum (a write that ends between these two only   *)
(* makes the code wait, as one that ends before them does).  The checksum  *)
(* is a perfect one: it matches the content it was computed from, no other. *)
(***************************************************************************)
EXTENDS Naturals, Sequences

CONSTANTS
  BufMax,      \* WIFI_RX_BUF_MAX, in cells
  ChunkMax,    \* the longest write
  Bodies,      \* the JSON texts a phone may send, each a sequence of cells
  MaxSent,     \* bound on the sound frames of a connection
  MaxSpoilt    \* bound on the damaged ones

ASSUME FramesAssumption ==
  /\ BufMax \in Nat /\ ChunkMax \in Nat /\ MaxSent \in Nat /\ MaxSpoilt \in Nat
  /\ BufMax > 5
  /\ ChunkMax < BufMax    \* an attribute value has at most 512 bytes

J      == <<"J", 0>>        \* 4A
L      == <<"L", 0>>        \* 4C
End    == <<"end", 0>>      \* FF
Text   == <<"text", 0>>     \* a byte of JSON
Length(n)    == <<"len", n>>
Command(id)  == <<"cmd", id>>
Crc(content) == <<"crc", content>>   \* crc16_xmodem over length, command and JSON

VARIABLES
  buf,         \* wifi_rx_buf[0 .. wifi_rx_len)
  parsing,     \* inside wifi_process_frames
  \* the phone
  air,         \* what is left of each frame it is sending, in order
  sent,        \* sound frames sent on this connection
  spoilt,      \* damaged frames, and writes at an offset, on this connection
  \* history
  waiting,     \* sound frames neither handled nor passed over
  handled,     \* frames handled on this connection
  since        \* sound frames sent after the last damage

vars == <<buf, parsing, air, sent, spoilt, waiting, handled, since>>

Init ==
  /\ buf = <<>> /\ parsing = FALSE
  /\ air = <<>> /\ sent = 0 /\ spoilt = 0
  /\ waiting = <<>> /\ handled = <<>> /\ since = 0

-----------------------------------------------------------------------------
(* The phone.                                                              *)

Frame(id, body) ==
  LET content == <<Length(Len(body) + 1), Command(id)>> \o body
  IN  <<J, L>> \o content \o <<Crc(content), End>>

\* Every byte of a text is like one of these, and its frame fits into the buffer:
\* handle_wifi_cmd reads 511 bytes of a text (line 658).
ASSUME BodiesAssumption ==
  \A b \in Bodies : b \in Seq({J, L, End, Text}) /\ Len(Frame(0, b)) <= BufMax

SendFrame(body) ==
  /\ sent < MaxSent
  /\ sent' = sent + 1
  /\ since' = since + 1
  /\ air' = Append(air, Frame(sent', body))
  /\ waiting' = Append(waiting, sent')
  /\ UNCHANGED <<buf, parsing, spoilt, handled>>

\* A frame the phone gives up half-way, or builds wrongly: the last cells
\* missing, the length, the checksum or the end another one.
DamagedFrames ==
  UNION { LET f == Frame(0, b) IN
            { SubSeq(f, 1, k) : k \in 1 .. Len(f) - 1 }
            \cup { [f EXCEPT ![3] = Length(n)] : n \in (0 .. BufMax) \ {Len(b) + 1} }
            \cup { [f EXCEPT ![Len(f) - 1] = Crc(<<>>)], [f EXCEPT ![Len(f)] = Text] }
          : b \in Bodies }

SendDamaged ==
  /\ spoilt < MaxSpoilt
  /\ \E f \in DamagedFrames : air' = Append(air, f)
  /\ spoilt' = spoilt + 1
  /\ since' = 0
  /\ UNCHANGED <<buf, parsing, sent, waiting, handled>>

-----------------------------------------------------------------------------
(* The server: wifi_write_cb and the loop of wifi_process_frames.          *)

\* The length two bytes claim for their frame.  Two bytes that are no length
\* (JSON text, "JL", a command) are a number that exceeds the buffer.
Claimed(cell) == IF cell[1] = "len" THEN cell[2] + 5 ELSE BufMax + 1

AtHeader == Len(buf) >= 2 /\ buf[1] = J /\ buf[2] = L

Complete ==
  /\ AtHeader
  /\ Len(buf) >= 3
  /\ Claimed(buf[3]) <= BufMax
  /\ Len(buf) >= Claimed(buf[3])

\* A write holds cells of one frame.
TakeChunk(n) ==
  /\ air # <<>>
  /\ n <= Len(Head(air))
  /\ air' = IF n = Len(Head(air)) THEN Tail(air)
            ELSE <<SubSeq(Head(air), n + 1, Len(Head(air)))>> \o Tail(air)

\* Mutant: the test for room is missing.
WriteWithoutRoom ==
  /\ ~parsing
  /\ \E n \in 1 .. ChunkMax :
       /\ TakeChunk(n)
       /\ buf' = buf \o SubSeq(Head(air), 1, n)
       /\ parsing' = TRUE
  /\ UNCHANGED <<sent, spoilt, waiting, handled, since>>

\* Mutant: a write that does not fit is dropped and the buffer stays as it is.
WriteOrDrop ==
  /\ ~parsing
  /\ \E n \in 1 .. ChunkMax :
       /\ TakeChunk(n)
       /\ IF Len(buf) + n <= BufMax
          THEN buf' = buf \o SubSeq(Head(air), 1, n) /\ parsing' = TRUE
          ELSE UNCHANGED <<buf, parsing>>
  /\ UNCHANGED <<sent, spoilt, waiting, handled, since>>

Write ==
  /\ ~parsing
  /\ \E n \in 1 .. ChunkMax :
       /\ TakeChunk(n)
       /\ IF Len(buf) + n <= BufMax
          THEN buf' = buf \o SubSeq(Head(air), 1, n) /\ parsing' = TRUE
          ELSE buf' = <<>> /\ UNCHANGED parsing
  /\ UNCHANGED <<sent, spoilt, waiting, handled, since>>

\* A long write is delivered in parts, the later ones at an offset.
WriteAtOffset ==
  /\ ~parsing
  /\ spoilt < MaxSpoilt
  /\ \E n \in 1 .. ChunkMax : TakeChunk(n)
  /\ buf' = <<>>
  /\ spoilt' = spoilt + 1
  /\ since' = 0
  /\ UNCHANGED <<parsing, sent, waiting, handled>>

\* Mutant: a frame that has just become complete is still waited for.
NeedOneMore ==
  /\ parsing
  /\ \/ Len(buf) < 2
     \/ AtHeader /\ Len(buf) < 3
     \/ AtHeader /\ Len(buf) >= 3 /\ Claimed(buf[3]) \in Len(buf) .. BufMax
  /\ parsing' = FALSE
  /\ UNCHANGED <<buf, air, sent, spoilt, waiting, handled, since>>

\* Nothing to do until more arrives.
NeedMore ==
  /\ parsing
  /\ \/ Len(buf) < 2
     \/ AtHeader /\ Len(buf) < 3
     \/ AtHeader /\ Len(buf) >= 3 /\ Claimed(buf[3]) \in Len(buf) + 1 .. BufMax
  /\ parsing' = FALSE
  /\ UNCHANGED <<buf, air, sent, spoilt, waiting, handled, since>>

SkipByte ==
  /\ parsing
  /\ Len(buf) >= 2
  /\ ~AtHeader
  /\ buf' = Tail(buf)
  /\ UNCHANGED <<parsing, air, sent, spoilt, waiting, handled, since>>

ClearOversized ==
  /\ parsing
  /\ AtHeader
  /\ Len(buf) >= 3
  /\ Claimed(buf[3]) > BufMax
  /\ buf' = <<>>
  /\ parsing' = FALSE
  /\ UNCHANGED <<air, sent, spoilt, waiting, handled, since>>

\* Its end is FF and its checksum that of what lies between.
Sound(f) == /\ f[Len(f)] = End
            /\ f[Len(f) - 1] = Crc(SubSeq(f, 3, Len(f) - 2))

Rest == SubSeq(buf, Claimed(buf[3]) + 1, Len(buf))

DropBad ==
  /\ parsing
  /\ Complete
  /\ ~Sound(SubSeq(buf, 1, Claimed(buf[3])))
  /\ buf' = Rest
  /\ UNCHANGED <<parsing, air, sent, spoilt, waiting, handled, since>>

\* Mutant: the frame is not taken off.
HandleAndKeep ==
  /\ parsing
  /\ Complete
  /\ Sound(SubSeq(buf, 1, Claimed(buf[3])))
  /\ handled' = Append(handled, buf[4][2])
  /\ parsing' = FALSE
  /\ UNCHANGED <<buf, air, sent, spoilt, waiting, since>>

\* handle_wifi_cmd runs before the frame is taken off; it holds the main loop,
\* so no write is appended meanwhile.
HandleFrame ==
  /\ parsing
  /\ Complete
  /\ Sound(SubSeq(buf, 1, Claimed(buf[3])))
  /\ LET id == buf[4][2] IN
       /\ handled' = Append(handled, id)
       /\ \/ \E k \in DOMAIN waiting :
                 waiting[k] = id /\ waiting' = SubSeq(waiting, k + 1, Len(waiting))
          \/ (\A k \in DOMAIN waiting : waiting[k] # id) /\ UNCHANGED waiting
  /\ buf' = Rest
  /\ UNCHANGED <<parsing, air, sent, spoilt, since>>

ProcessFrames == NeedMore \/ SkipByte \/ ClearOversized \/ DropBad \/ HandleFrame

\* The phone disconnects; the next one meets a server made anew.
Reconnect ==
  /\ ~parsing
  /\ buf' = <<>>
  /\ air' = <<>> /\ sent' = 0 /\ spoilt' = 0
  /\ waiting' = <<>> /\ handled' = <<>> /\ since' = 0
  /\ UNCHANGED parsing

-----------------------------------------------------------------------------
Next ==
  \/ \E b \in Bodies : SendFrame(b)
  \/ SendDamaged
  \/ Write
  \/ WriteAtOffset
  \/ NeedMore
  \/ SkipByte
  \/ ClearOversized
  \/ DropBad
  \/ HandleFrame
  \/ Reconnect

Spec == Init /\ [][Next]_vars

\* The main loop delivers what has arrived and wifi_process_frames returns.
FairSpec == Spec /\ WF_vars(Write) /\ WF_vars(ProcessFrames)

-----------------------------------------------------------------------------
(* Properties.                                                             *)

Plain == ({"J", "L", "end", "text"} \X {0}) \cup ({"len", "cmd"} \X Nat)
Cell  == Plain \cup ({"crc"} \X Seq(Plain))

\* No write leaves more in the receive buffer than it holds.
TypeOK ==
  /\ buf \in Seq(Cell) /\ Len(buf) <= BufMax
  /\ parsing \in BOOLEAN
  /\ air \in Seq(Seq(Cell))
  /\ sent \in 0 .. MaxSent
  /\ spoilt \in 0 .. MaxSpoilt
  /\ since \in 0 .. sent
  /\ waiting \in Seq(1 .. MaxSent)
  /\ handled \in Seq(Nat)

\* A damaged frame is dropped by the length it claims, and a text with "JL" in
\* it is then taken for a header.  What this costs is bounded: of the sound
\* frames behind it at most as many are lost as fit into the buffer behind a
\* header that waits for more, and the one that makes it overflow; then the
\* service answers again.
ResyncIsBounded ==
  ~parsing /\ air = <<>> /\ since > (BufMax - 4) \div Len(Frame(0, <<>>)) + 1
     => \A k \in DOMAIN waiting : waiting[k] # sent

\* Commands are handled in the order they were sent, each once, none that was
\* not sent; and none is passed over on a connection without damage.
Queue == INSTANCE FrameQueue WITH
           Frames  <- 1 .. MaxSent,
           queue   <- waiting,
           out     <- handled,
           damaged <- spoilt > 0
ImplementsFrameQueue == Queue!QSpec

\* On a connection without damage every frame is handled, however it is cut
\* into writes, unless the phone leaves first.
FramesAreHandled == waiting # <<>> ~> waiting = <<>> \/ spoilt > 0
=============================================================================

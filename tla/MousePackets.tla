---------------------------- MODULE MousePackets ----------------------------
(***************************************************************************)
(* The bytes of the mouse and the packets update_mouse makes of them:      *)
(* mouse_ih, sync and parse (proj/src/drivers/mouse/mouse.c) and           *)
(* update_mouse (proj/src/model/model.c).                                  *)
(*                                                                         *)
(* A packet is three bytes, one interrupt each.  Only the first has bit 3  *)
(* always set; in the others it is part of a movement.  mouse_ih returns   *)
(* nothing: when it could not read a byte, sync() takes the byte of the    *)
(* call before once more and the driver is out of step with the mouse.     *)
(*                                                                         *)
(* What matters of a byte is where it comes from, so a byte is the number  *)
(* of its packet, its place in the packet and its bit 3.                   *)
(***************************************************************************)
EXTENDS Integers

CONSTANTS
  MaxPackets,  \* bound on the packets the mouse sends
  MaxFaults    \* bound on the reads that fail and the answers read

ASSUME MouseAssumption == MaxPackets \in Nat /\ MaxFaults \in Nat

VARIABLES
  packet,         \* number of the packet the mouse is sending
  next,           \* place of the byte it sends next
  ob,             \* the controller's output buffer
  byte_received,  \* the byte mouse_ih read last
  bytes_read,     \* bytes of a packet sync has stored
  pp_bytes,       \* those bytes
  pp,             \* the packet parse made last
  faults,         \* history: reads that failed, and answers read for data
  calm,           \* history: of the packet being read every byte was read, and
                  \* none after the first had bit 3 set
  trusted         \* history: since the last fault a calm packet was read

vars == <<packet, next, ob, byte_received, bytes_read, pp_bytes, pp, faults, calm, trusted>>

Places == 0..2

\* A byte of the mouse, the zero the variables hold at first, and an answer of
\* the mouse to a command (0xFA or 0xFE), which has bit 3 set.
Byte   == [packet : Nat, place : Places, bit3 : BOOLEAN]
NoByte == [packet |-> 0, place |-> 3, bit3 |-> FALSE]
Answer == [packet |-> 0, place |-> 3, bit3 |-> TRUE]
Bytes  == Byte \cup {NoByte, Answer}

Init ==
  /\ packet = 1 /\ next = 0 /\ ob = NoByte
  /\ byte_received = NoByte /\ bytes_read = 0
  /\ pp_bytes = [i \in Places |-> NoByte] /\ pp = [i \in Places |-> NoByte]
  /\ faults = 0 /\ calm = FALSE /\ trusted = TRUE

\* The mouse puts its next byte in the output buffer, when that is free.
MouseSends(bit3) ==
  /\ ob = NoByte /\ packet <= MaxPackets
  /\ next = 0 => bit3
  /\ ob' = [packet |-> packet, place |-> next, bit3 |-> bit3]
  /\ next' = (next + 1) % 3
  /\ packet' = IF next = 2 THEN packet + 1 ELSE packet
  /\ UNCHANGED <<byte_received, bytes_read, pp_bytes, pp, faults, calm, trusted>>

\* sync() of the byte b, and parse() when the packet is complete.  The first
\* byte of a packet is one with bit 3 set; any byte may follow it.
SyncWithoutReset(b) ==
  LET taken  == bytes_read # 0 \/ b.bit3
      stored == IF taken THEN [pp_bytes EXCEPT ![bytes_read] = b] ELSE pp_bytes
  IN  /\ pp_bytes' = stored
      /\ bytes_read' = IF taken THEN bytes_read + 1 ELSE bytes_read
      /\ pp' = IF bytes_read = 2 THEN stored ELSE pp
SyncAnyFirst(b) ==
  LET stored == [pp_bytes EXCEPT ![bytes_read] = b]
  IN  /\ pp_bytes' = stored
      /\ bytes_read' = (bytes_read + 1) % 3
      /\ pp' = IF bytes_read = 2 THEN stored ELSE pp
Sync(b) ==
  LET taken  == bytes_read # 0 \/ b.bit3
      stored == IF taken THEN [pp_bytes EXCEPT ![bytes_read] = b] ELSE pp_bytes
  IN  /\ pp_bytes' = stored
      /\ bytes_read' = IF taken THEN (bytes_read + 1) % 3 ELSE bytes_read
      /\ pp' = IF bytes_read = 2 THEN stored ELSE pp

\* update_mouse, the byte read.
ReadByte ==
  /\ ob # NoByte
  /\ byte_received' = ob /\ ob' = NoByte
  /\ Sync(ob)
  /\ calm' = (ob.place = 0 \/ (calm /\ ~ob.bit3))
  /\ trusted' = (trusted \/ (ob.place = 2 /\ calm'))
  /\ UNCHANGED <<packet, next, faults>>

\* update_mouse, no byte read: a status with an error, or no byte of the mouse
\* in the buffer.  The byte stays for the next interrupt or is gone.
ReadFails ==
  /\ ob # NoByte /\ faults < MaxFaults
  /\ faults' = faults + 1
  /\ ob' \in {ob, NoByte}
  /\ Sync(byte_received)
  /\ calm' = FALSE /\ trusted' = FALSE
  /\ UNCHANGED <<packet, next, byte_received>>

\* update_mouse reads an answer that mouse_command, taking another byte for it,
\* has left to the interrupt handler.
ReadAnswer ==
  /\ ob = NoByte /\ faults < MaxFaults
  /\ faults' = faults + 1
  /\ byte_received' = Answer
  /\ Sync(Answer)
  /\ calm' = FALSE /\ trusted' = FALSE
  /\ UNCHANGED <<packet, next, ob>>

Next ==
  \/ \E bit3 \in BOOLEAN : MouseSends(bit3)
  \/ ReadByte
  \/ ReadFails
  \/ ReadAnswer

Spec == Init /\ [][Next]_vars

----------------------------------------------------------------------------
(* Properties                                                              *)

TypeOK ==
  /\ packet \in Nat /\ next \in Places /\ ob \in Byte \cup {NoByte}
  /\ byte_received \in Bytes /\ bytes_read \in Places
  /\ pp_bytes \in [Places -> Bytes] /\ pp \in [Places -> Bytes]
  /\ faults \in Nat /\ calm \in BOOLEAN /\ trusted \in BOOLEAN

\* The driver is back in step after the last byte of a packet whose movement
\* bytes have bit 3 clear, however far out of step it was.
Resynchronised ==
  calm /\ byte_received.place = 2 => bytes_read = 0

IsWhole(p) ==
  \A i \in Places : p[i].place = i /\ p[i].packet = p[0].packet

\* From then on, until the next fault, checkActions only ever sees packets
\* that the mouse sent as such, never one put together from two.
WholePackets ==
  [][trusted' /\ pp' # pp => IsWhole(pp')]_vars

\* mouse.h on mouse_ih: "if there was some error, the byte read from the OB is
\* discarded".
ErrorIsDiscarded ==
  [][ReadFails => UNCHANGED <<bytes_read, pp_bytes, pp>>]_vars

=============================================================================

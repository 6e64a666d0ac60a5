------------------------- MODULE MousePacketsProofs -------------------------
(***************************************************************************)
(* MousePackets for any number of packets, of failed reads and of answers  *)
(* read for data: the driver comes back into step with the mouse, and then *)
(* its packets are packets of the mouse.                                   *)
(***************************************************************************)
EXTENDS MousePackets, TLAPS

\* Place and packet of the byte that the driver reads next.
DuePlace  == IF ob = NoByte THEN next ELSE ob.place
DuePacket == IF ob = NoByte THEN packet ELSE ob.packet

\* What the mouse sends after the byte in the buffer.
MouseInv ==
  ob # NoByte => /\ next = (ob.place + 1) % 3
                 /\ packet = IF ob.place = 2 THEN ob.packet + 1 ELSE ob.packet
                 /\ ob.place = 0 => ob.bit3

\* While a packet is read without trouble, the driver has at its second byte
\* either been in step all the time or waits for a first byte.
CalmInv ==
  calm => /\ byte_received \in Byte
          /\ DuePlace = (byte_received.place + 1) % 3
          /\ byte_received.place = 1 => bytes_read \in {0, 2}
          /\ byte_received.place = 2 => bytes_read = 0

\* A driver in step holds the bytes of the packet that is being read.
StepInv ==
  /\ trusted => bytes_read = DuePlace
  /\ (calm \/ trusted) /\ bytes_read = DuePlace =>
       \A i \in Places : i < bytes_read =>
         pp_bytes[i].place = i /\ pp_bytes[i].packet = DuePacket

IInv == TypeOK /\ MouseInv /\ CalmInv /\ StepInv

\* bytes_read and the bytes stored keep their types when sync and parse run.
LEMMA SyncTypes ==
  ASSUME TypeOK, NEW b \in Bytes, Sync(b)
  PROVE  /\ bytes_read' \in Places
         /\ pp_bytes' \in [Places -> Bytes]
         /\ pp' \in [Places -> Bytes]
BY DEF TypeOK, Sync, Places

\* TypeOK is kept by every step of update_mouse and of the mouse.
LEMMA TypeStep ==
  ASSUME TypeOK, [Next]_vars
  PROVE  TypeOK'
<1>1. ASSUME NEW bit3 \in BOOLEAN, MouseSends(bit3) PROVE TypeOK'
  <2>1. ob' \in Byte
    BY <1>1 DEF TypeOK, MouseSends, Byte
  <2>2. next' \in Places /\ packet' \in Nat
    BY <1>1 DEF TypeOK, MouseSends, Places
  <2> QED BY <1>1, <2>1, <2>2 DEF TypeOK, MouseSends
<1>2. CASE ReadByte
  <2>1. ob \in Bytes /\ Sync(ob)
    BY <1>2 DEF TypeOK, ReadByte, Bytes
  <2>2. calm' \in BOOLEAN /\ trusted' \in BOOLEAN
    BY <1>2 DEF TypeOK, ReadByte
  <2> QED BY <1>2, <2>1, <2>2, SyncTypes DEF TypeOK, ReadByte
<1>3. CASE ReadFails
  <2>1. byte_received \in Bytes /\ Sync(byte_received)
    BY <1>3 DEF TypeOK, ReadFails
  <2>2. /\ bytes_read' \in Places
        /\ pp_bytes' \in [Places -> Bytes]
        /\ pp' \in [Places -> Bytes]
    BY <2>1, SyncTypes, Zenon DEF TypeOK
  <2>3. ob' \in Byte \cup {NoByte} /\ faults' \in Nat
    BY <1>3 DEF TypeOK, ReadFails
  <2>4. calm' \in BOOLEAN /\ trusted' \in BOOLEAN
    BY <1>3, Zenon DEF ReadFails
  <2> QED BY <1>3, <2>2, <2>3, <2>4 DEF TypeOK, ReadFails
<1>4. CASE ReadAnswer
  <2>1. Answer \in Bytes /\ Sync(Answer)
    BY <1>4 DEF ReadAnswer, Bytes
  <2>2. /\ bytes_read' \in Places
        /\ pp_bytes' \in [Places -> Bytes]
        /\ pp' \in [Places -> Bytes]
    BY <2>1, SyncTypes, Zenon DEF TypeOK
  <2>3. faults' \in Nat
    BY <1>4 DEF TypeOK, ReadAnswer
  <2>4. calm' \in BOOLEAN /\ trusted' \in BOOLEAN
    BY <1>4, Zenon DEF ReadAnswer
  <2> QED BY <1>4, <2>1, <2>2, <2>3, <2>4 DEF TypeOK, ReadAnswer
<1>5. CASE UNCHANGED vars
  BY <1>5 DEF TypeOK, vars
<1> QED BY <1>1, <1>2, <1>3, <1>4, <1>5 DEF Next

\* A byte read moves what is due to what the mouse sends next.
LEMMA DueAfterRead ==
  ASSUME TypeOK, MouseInv, ReadByte
  PROVE  /\ ob \in Byte /\ DuePlace = ob.place /\ DuePacket = ob.packet
         /\ DuePlace' = (ob.place + 1) % 3
         /\ DuePacket' = IF ob.place = 2 THEN ob.packet + 1 ELSE ob.packet
         /\ ob.place \in Places /\ ob.packet \in Nat
         /\ ob.place = 0 => ob.bit3
BY DEF TypeOK, MouseInv, ReadByte, DuePlace, DuePacket, Byte

\* What calm and trusted say after a byte was read.
LEMMA HistoryAfterRead ==
  ASSUME ReadByte
  PROVE  /\ calm' => ob.place = 0 \/ (calm /\ ~ob.bit3)
         /\ trusted' => trusted \/ (ob.place = 2 /\ calm')
BY Zenon DEF ReadByte

\* A byte read keeps a driver in step, and brings it into step at the end of a
\* calm packet.
LEMMA ReadStep ==
  ASSUME IInv, ReadByte
  PROVE  MouseInv' /\ CalmInv' /\ StepInv'
<1> USE DEF IInv
<1>1. MouseInv'
  BY DEF ReadByte, MouseInv
<1>2. CalmInv'
  <2> SUFFICES ASSUME calm' PROVE CalmInv!2'
    BY DEF CalmInv
  <2>1. byte_received' = ob /\ ob \in Byte /\ DuePlace' = (ob.place + 1) % 3
    BY DueAfterRead DEF ReadByte
  <2>2. ob.place = 1 => bytes_read' \in {0, 2}
    BY HistoryAfterRead DEF ReadByte, Sync, TypeOK, Places
  <2>3. ob.place = 2 => bytes_read' = 0
    <3> SUFFICES ASSUME ob.place = 2 PROVE bytes_read' = 0
      OBVIOUS
    <3>1. calm /\ ~ob.bit3
      BY HistoryAfterRead
    <3>2. byte_received.place \in Places /\ (byte_received.place + 1) % 3 = 2
      BY <3>1, DueAfterRead DEF CalmInv, Byte
    <3>3. byte_received.place = 1
      BY <3>2 DEF Places
    <3> QED BY <3>1, <3>3 DEF CalmInv, ReadByte, Sync
  <2> QED BY <2>1, <2>2, <2>3
<1>3. trusted' => bytes_read' = DuePlace'
  <2>1. CASE trusted
    BY <2>1, DueAfterRead DEF StepInv, ReadByte, Sync
  <2>2. CASE ~trusted /\ trusted'
    <3>1. ob.place = 2 /\ calm' /\ byte_received' = ob
      BY <2>2 DEF ReadByte
    <3> QED BY <1>2, <3>1, DueAfterRead DEF CalmInv
  <2> QED BY <2>1, <2>2
<1>4. ASSUME calm' \/ trusted', bytes_read' = DuePlace', NEW i \in Places, i < bytes_read'
      PROVE  pp_bytes'[i].place = i /\ pp_bytes'[i].packet = DuePacket'
  <2>1. bytes_read' = (ob.place + 1) % 3 /\ bytes_read' # 0 /\ ob.place \in {0, 1}
    BY <1>4, DueAfterRead DEF Places
  <2>2. bytes_read = ob.place
    BY <2>1 DEF ReadByte, Sync, TypeOK, Places
  <2>3. pp_bytes' = [pp_bytes EXCEPT ![bytes_read] = ob]
    BY <2>1, <2>2, DueAfterRead DEF ReadByte, Sync
  <2>4. CASE i = bytes_read
    BY <2>1, <2>2, <2>3, <2>4, DueAfterRead DEF TypeOK
  <2>5. CASE i < bytes_read
    <3>1. ob.place = 1
      BY <2>1, <2>2, <2>5 DEF Places
    <3>2. calm \/ trusted
      BY <1>4, <3>1, HistoryAfterRead
    <3> QED BY <2>1, <2>2, <2>3, <2>5, <3>1, <3>2, DueAfterRead DEF StepInv, TypeOK
  <2> QED BY <1>4, <2>1, <2>2, <2>4, <2>5 DEF Places
<1> QED BY <1>1, <1>2, <1>3, <1>4 DEF StepInv

\* The inductive invariant is kept.
LEMMA InvStep ==
  ASSUME IInv, [Next]_vars
  PROVE  IInv'
<1>1. TypeOK'
  BY TypeStep DEF IInv
<1>2. ASSUME NEW bit3 \in BOOLEAN, MouseSends(bit3) PROVE MouseInv' /\ CalmInv' /\ StepInv'
  <2>1. ob' # NoByte /\ ob'.place = next /\ ob'.packet = packet /\ ob'.bit3 = bit3
    BY <1>2 DEF MouseSends, NoByte, IInv, TypeOK, Places
  <2>2. DuePlace' = DuePlace /\ DuePacket' = DuePacket
    BY <1>2, <2>1 DEF DuePlace, DuePacket, MouseSends
  <2>3. MouseInv'
    BY <1>2, <2>1 DEF MouseInv, MouseSends
  <2> QED BY <1>2, <2>2, <2>3 DEF IInv, CalmInv, StepInv, MouseSends
<1>3. CASE ReadByte
  BY <1>1, <1>3, ReadStep DEF IInv
<1>4. CASE ReadFails
  <2>1. ~calm' /\ ~trusted'
    BY <1>4 DEF ReadFails
  <2>2. MouseInv'
    BY <1>4 DEF ReadFails, IInv, MouseInv
  <2> QED BY <1>1, <2>1, <2>2 DEF IInv, CalmInv, StepInv
<1>5. CASE ReadAnswer
  <2>1. ~calm' /\ ~trusted'
    BY <1>5 DEF ReadAnswer
  <2>2. MouseInv'
    BY <1>5 DEF ReadAnswer, IInv, MouseInv
  <2> QED BY <1>1, <2>1, <2>2 DEF IInv, CalmInv, StepInv
<1>6. CASE UNCHANGED vars
  <2>1. DuePlace' = DuePlace /\ DuePacket' = DuePacket
    BY <1>6 DEF vars, DuePlace, DuePacket
  <2>2. MouseInv'
    BY <1>6 DEF vars, IInv, MouseInv
  <2> QED BY <1>1, <1>6, <2>1, <2>2 DEF vars, IInv, CalmInv, StepInv
<1> QED BY <1>1, <1>2, <1>3, <1>4, <1>5, <1>6 DEF Next, IInv

\* Before the first byte the driver is in step.
LEMMA InvInit == Init => IInv
<1> SUFFICES ASSUME Init PROVE IInv
  OBVIOUS
<1>1. TypeOK
  <2>1. /\ packet \in Nat /\ next \in Places /\ bytes_read \in Places /\ faults \in Nat
        /\ ob = NoByte /\ byte_received = NoByte
        /\ pp_bytes \in [Places -> Bytes]
        /\ pp \in [Places -> Bytes]
    BY DEF Init, Places, Bytes
  <2>2. calm \in BOOLEAN /\ trusted \in BOOLEAN
    BY Zenon DEF Init
  <2> QED BY <2>1, <2>2 DEF TypeOK, Bytes
<1>2. MouseInv /\ CalmInv
  BY DEF Init, MouseInv, CalmInv
<1>3. StepInv
  BY DEF Init, StepInv, DuePlace, Places
<1> QED BY <1>1, <1>2, <1>3 DEF IInv

\* The inductive invariant holds always.
THEOREM Invariant == Spec => []IInv
BY InvInit, InvStep, PTL DEF Spec

\* The variables of the driver keep their types; bytes_read never exceeds two
\* between two calls of update_mouse.
THEOREM TypeCorrect == Spec => []TypeOK
<1>1. IInv => TypeOK
  BY DEF IInv
<1> QED BY <1>1, Invariant, PTL

\* However many reads failed, after a packet whose movement bytes have bit 3
\* clear sync waits for a first byte when a first byte is what comes next.
THEOREM BackInStep == Spec => []Resynchronised
<1>1. IInv => Resynchronised
  BY DEF IInv, CalmInv, Resynchronised
<1> QED BY <1>1, Invariant, PTL

\* A driver that is in step hands only packets of the mouse to checkActions.
THEOREM PacketsWhole == Spec => WholePackets
<1>1. ASSUME IInv, [Next]_vars, trusted', pp' # pp
      PROVE  IsWhole(pp')
  <2>1. ReadByte
    BY <1>1 DEF Next, MouseSends, ReadFails, ReadAnswer, vars
  <2>2. bytes_read = 2 /\ pp' = [pp_bytes EXCEPT ![2] = ob]
    <3>1. Sync(ob)
      BY <2>1 DEF ReadByte
    <3>2. bytes_read = 2
      BY <1>1, <3>1 DEF Sync
    <3> QED BY <3>1, <3>2 DEF Sync
  <2>3. ob.place = 2 /\ (calm \/ trusted)
    <3>1. CASE trusted
      BY <1>1, <2>1, <2>2, <3>1, DueAfterRead DEF IInv, StepInv
    <3>2. CASE ~trusted
      <4>1. ob.place = 2 /\ calm'
        BY <1>1, <2>1, <3>2 DEF ReadByte
      <4> QED BY <2>1, <4>1, HistoryAfterRead
    <3> QED BY <3>1, <3>2
  <2>4. DuePlace = 2 /\ DuePacket = ob.packet
    BY <1>1, <2>1, <2>3, DueAfterRead DEF IInv
  <2>5. \A i \in Places : i < 2 => pp_bytes[i].place = i /\ pp_bytes[i].packet = ob.packet
    BY <1>1, <2>2, <2>3, <2>4 DEF IInv, StepInv
  <2>6. pp' \in [Places -> Bytes] /\ pp_bytes \in [Places -> Bytes]
    BY <1>1, TypeStep DEF IInv, TypeOK
  <2> QED BY <2>2, <2>3, <2>5, <2>6 DEF IsWhole, Places
<1>2. IInv /\ [Next]_vars => [trusted' /\ pp' # pp => IsWhole(pp')]_vars
  BY <1>1
<1> QED BY <1>2, Invariant, PTL DEF Spec, WholePackets

=============================================================================

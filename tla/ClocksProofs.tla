---------------------------- MODULE ClocksProofs ----------------------------
(***************************************************************************)
(* Proofs about Clocks: what timer_set_frequency leaves in the chip        *)
(* (ChipInv) and what a reading of the real-time clock in progress is      *)
(* (ReadingInv), and the properties of the two drivers from them.          *)
(***************************************************************************)
EXTENDS Clocks, TLAPS

----------------------------------------------------------------------------
(* The timer                                                               *)

\* A quotient, and what is lost in it.
LEMMA Quotient ==
  ASSUME NEW n \in Nat, NEW f \in Nat \ {0}
  PROVE  /\ n \div f \in Nat
         /\ (n \div f) * f <= n /\ n < ((n \div f) + 1) * f
OBVIOUS

\* The quotient of a frequency that is not refused fits in sixteen bits.
LEMMA QuotientFits ==
  ASSUME NEW f \in Nat, f >= 19
  PROVE  (TIMER_FREQ \div f) % 65536 = TIMER_FREQ \div f
<1> DEFINE q == TIMER_FREQ \div f
<1>1. q \in Nat /\ q * f <= TIMER_FREQ
  BY Quotient DEF TIMER_FREQ
<1> HIDE DEF q
<1>2. q * 19 <= q * f
  BY <1>1
<1>3. q < 65536
  BY <1>1, <1>2 DEF TIMER_FREQ
<1>4. q % 65536 = q
  BY <1>1, <1>3
<1> QED  BY <1>4 DEF q

\* What is known of the chip at each port call of timer_set_frequency: the status
\* read has the mode in it, and unless the control word was lost the two bytes go
\* where they belong.
ChipInv ==
  /\ mode = mode0
  /\ pc # "ready" \/ result = 0 => freq >= 19
  /\ pc = "control" => st % 16 = mode
  /\ ~skipped =>
       /\ pc = "lsb" => access = 3 /\ half = -1
       /\ pc = "msb" => access = 3 /\ half = CounterValue % 256
       /\ pc = "ready" /\ result = 0 => count = CounterValue

\* The types of the timer, in integers.
LEMMA TimerTypes ==
  ASSUME TimerTypeOK
  PROVE  /\ access \in 1..3 /\ mode \in 0..15 /\ half \in -1..255 /\ count \in Nat /\ count < 65536
         /\ freq \in Nat /\ timer \in 0..255 /\ st \in 0..255 /\ calls \in Nat /\ timerFaults \in Nat
BY TimerAssumption DEF TimerTypeOK

\* The bytes that are written are bytes.
LEMMA CounterBytes ==
  ASSUME freq \in Nat, freq >= 19
  PROVE  /\ CounterValue = TIMER_FREQ \div freq /\ CounterValue \in Nat /\ CounterValue < 65536
         /\ CounterValue % 256 \in 0..255 /\ CounterValue \div 256 \in 0..255
         /\ CounterValue = 256 * (CounterValue \div 256) + (CounterValue % 256)
<1>1. CounterValue = TIMER_FREQ \div freq /\ CounterValue \in Nat
  BY QuotientFits, Quotient DEF CounterValue, TIMER_FREQ
<1>2. CounterValue = CounterValue % 65536
  BY <1>1, QuotientFits
<1> HIDE DEF CounterValue
<1>3. CounterValue \in Nat /\ CounterValue < 65536
  BY <1>1, <1>2
<1> QED  BY <1>1, <1>3

\* A byte written to the counter keeps the types.
LEMMA ByteType ==
  ASSUME TimerTypeOK, NEW b \in 0..255, CounterByte(b)
  PROVE  /\ access' = access /\ mode' = mode
         /\ half' \in -1..255 /\ count' \in Nat /\ count' < 65536
BY TimerTypes DEF CounterByte

\* The initial state of the timer.
LEMMA TimerInitially == TimerInit => TimerTypeOK /\ ChipInv
<1> SUFFICES ASSUME TimerInit  PROVE TimerTypeOK /\ ChipInv
  OBVIOUS
<1>0. skipped \in BOOLEAN
  BY Zenon DEF TimerInit
<1>1. /\ freq \in Freqs \cup {0} /\ timer \in Timers /\ result \in {-1, 0, 1}
      /\ pc \in {"ready", "read-back", "control", "lsb", "msb"} /\ mode \in Modes /\ mode0 \in Modes
  BY SMT DEF TimerInit
<1>2. /\ access \in 1..3 /\ half \in -1..255 /\ count \in Nat /\ count < 65536 /\ st \in 0..255
      /\ calls \in 0..MaxCalls /\ timerFaults \in 0..MaxTimerFaults
  BY TimerAssumption, SMT DEF TimerInit
<1>3. ChipInv
  BY SMT DEF TimerInit, ChipInv
<1> QED  BY <1>0, <1>1, <1>2, <1>3, SMT DEF TimerTypeOK

\* Every port call keeps the types and what is known of the chip.
LEMMA TimerStep ==
  ASSUME TimerTypeOK, ChipInv, TimerNext
  PROVE  TimerTypeOK' /\ ChipInv'
<1>t. /\ access \in 1..3 /\ mode \in 0..15 /\ half \in -1..255 /\ count \in Nat /\ count < 65536
      /\ freq \in Nat /\ timer \in 0..255 /\ st \in 0..255 /\ calls \in Nat /\ timerFaults \in Nat
  BY TimerTypes
<1>1. ASSUME NEW f \in Freqs, CallSetFrequency(f)  PROVE TimerTypeOK' /\ ChipInv'
  <2>1. f \in Nat /\ (~Refuses(f) => f >= 19)
    BY TimerAssumption DEF Refuses
  <2>2. calls' \in 0..MaxCalls
    BY <1>1, <1>t, TimerAssumption DEF CallSetFrequency
  <2>3. TimerTypeOK'
    <3>1. skipped' \in BOOLEAN
      BY <1>1, Zenon DEF CallSetFrequency
    <3>2. result' \in {-1, 0, 1} /\ pc' \in {"ready", "read-back"}
      BY <1>1, SMT DEF CallSetFrequency
    <3> QED  BY <1>1, <2>2, <3>1, <3>2, SMT DEF CallSetFrequency, TimerTypeOK, chipVars
  <2>4. ChipInv'
    BY <1>1, <2>1 DEF CallSetFrequency, ChipInv, chipVars
  <2> QED  BY <2>3, <2>4
<1>2. CASE ReadBack
  <2>1. PICK flags \in 0..3 : st' = 64 * flags + 16 * access + mode
    BY <1>2 DEF ReadBack, Status
  <2>2. st' \in 0..255 /\ st' % 16 = mode
    BY <1>t, <2>1
  <2>3. TimerTypeOK'
    BY <1>2, <2>2 DEF ReadBack, TimerTypeOK, chipVars
  <2>4. ChipInv'
    BY <1>2, <2>2 DEF ReadBack, ChipInv, chipVars
  <2> QED  BY <2>3, <2>4
<1>3. CASE WriteControl
  <2>1. /\ access' = (NewControl \div 16) % 4 /\ mode' = NewControl % 16
        /\ half' = -1 /\ count' = count /\ st % 16 = mode
    BY <1>3 DEF WriteControl, ControlWord, ChipInv
  <2>2. NewControl = mode + 48 + 64 * timer
    BY <2>1 DEF NewControl
  <2>3. access' = 3 /\ mode' = mode
    BY <1>t, <2>1, <2>2
  <2>4. TimerTypeOK'
    BY <1>3, <2>1, <2>3 DEF WriteControl, TimerTypeOK
  <2>5. ChipInv'
    BY <1>3, <2>1, <2>3 DEF WriteControl, ChipInv
  <2> QED  BY <2>4, <2>5
<1>4. CASE WriteControlFails
  <2>1. timerFaults' \in 0..MaxTimerFaults
    BY <1>4, <1>t, TimerAssumption DEF WriteControlFails, PortFault
  <2>2. TimerTypeOK'
    BY <1>4, <2>1 DEF WriteControlFails, TimerTypeOK, chipVars
  <2>3. ChipInv'
    BY <1>4 DEF WriteControlFails, ChipInv, chipVars
  <2> QED  BY <2>2, <2>3
<1>5. CASE WriteLSB
  <2>1. freq >= 19 /\ CounterByte(CounterValue % 256)
    BY <1>5 DEF WriteLSB, ChipInv
  <2>2. CounterValue % 256 \in 0..255 /\ CounterValue' = CounterValue
    BY <1>5, <1>t, <2>1, CounterBytes DEF WriteLSB, CounterValue
  <2>3. /\ access' = access /\ mode' = mode
        /\ half' \in -1..255 /\ count' \in Nat /\ count' < 65536
    BY <2>1, <2>2, ByteType
  <2>4. access = 3 /\ half = -1 => half' = CounterValue % 256
    BY <2>1 DEF CounterByte
  <2>5. TimerTypeOK'
    BY <1>5, <2>3 DEF WriteLSB, TimerTypeOK
  <2>6. ChipInv'
    BY <1>5, <2>2, <2>3, <2>4 DEF WriteLSB, ChipInv
  <2> QED  BY <2>5, <2>6
<1>6. CASE WriteMSB
  <2>1. freq >= 19 /\ CounterByte(CounterValue \div 256)
    BY <1>6 DEF WriteMSB, ChipInv
  <2>2. /\ CounterValue \div 256 \in 0..255 /\ CounterValue' = CounterValue
        /\ CounterValue % 256 # -1
        /\ CounterValue = 256 * (CounterValue \div 256) + (CounterValue % 256)
    BY <1>6, <1>t, <2>1, CounterBytes DEF WriteMSB, CounterValue
  <2>3. /\ access' = access /\ mode' = mode
        /\ half' \in -1..255 /\ count' \in Nat /\ count' < 65536
    BY <2>1, <2>2, ByteType
  <2>4. access = 3 /\ half = CounterValue % 256 => count' = CounterValue
    BY <2>1, <2>2 DEF CounterByte
  <2>5. TimerTypeOK'
    BY <1>6, <2>3 DEF WriteMSB, TimerTypeOK
  <2>6. ChipInv'
    BY <1>6, <2>1, <2>2, <2>3, <2>4 DEF WriteMSB, ChipInv
  <2> QED  BY <2>5, <2>6
<1>7. CASE PortCallFails
  <2>1. timerFaults' \in 0..MaxTimerFaults
    BY <1>7, <1>t, TimerAssumption DEF PortCallFails, PortFault
  <2>2. TimerTypeOK'
    BY <1>7, <2>1 DEF PortCallFails, TimerTypeOK, chipVars
  <2>3. ChipInv'
    BY <1>7 DEF PortCallFails, ChipInv, chipVars
  <2> QED  BY <2>2, <2>3
<1> QED  BY <1>1, <1>2, <1>3, <1>4, <1>5, <1>6, <1>7 DEF TimerNext

\* What is known of the chip gives the frequency.
LEMMA ChipGivesFrequency ==
  ASSUME TimerTypeOK, ChipInv
  PROVE  SetsFrequency
<1> SUFFICES ASSUME pc = "ready", result = 0, ~skipped
             PROVE  count * freq <= TIMER_FREQ /\ TIMER_FREQ < (count + 1) * freq
  BY DEF SetsFrequency, ChipInv
<1>1. freq \in Nat /\ freq >= 19 /\ count = CounterValue
  BY TimerTypes DEF ChipInv
<1>2. count = TIMER_FREQ \div freq
  BY <1>1, CounterBytes
<1>3. TIMER_FREQ \in Nat
  BY DEF TIMER_FREQ
<1> QED  BY <1>1, <1>2, <1>3, Quotient

----------------------------------------------------------------------------
(* The real-time clock                                                     *)

\* A time of the clock is a value in range for each field.
LEMMA TimesOfFields ==
  ASSUME NEW t \in ClockTimes
  PROVE  /\ t \in [Fields -> 0..99]
         /\ \A i \in Fields : First[i] <= t[i] /\ t[i] <= Last[i]
<1>1. PICK a \in Range(1), b \in Range(2), c \in Range(3), d \in Range(4), e \in Range(5), f \in Range(6) :
        t = <<a, b, c, d, e, f>>
  BY DEF ClockTimes
<1>2. \A i \in Fields : Range(i) \subseteq 0..99 /\ \A v \in Range(i) : First[i] <= v /\ v <= Last[i]
  BY RtcAssumption DEF Range, Fields
<1>3. \A i \in Fields : t[i] \in Range(i)
  BY <1>1 DEF Fields
<1>4. t \in [Fields -> 0..99]
  BY <1>1, <1>2, <1>3 DEF Fields
<1> QED  BY <1>2, <1>3, <1>4

LEMMA FieldsMakeTime ==
  ASSUME NEW t \in [Fields -> Nat], \A i \in Fields : First[i] <= t[i] /\ t[i] <= Last[i]
  PROVE  t \in ClockTimes
<1>1. t = <<t[1], t[2], t[3], t[4], t[5], t[6]>>
  BY DEF Fields
<1>2. \A i \in Fields : t[i] \in Range(i)
  BY RtcAssumption DEF Range, Fields
<1>3. /\ t[1] \in Range(1) /\ t[2] \in Range(2) /\ t[3] \in Range(3)
      /\ t[4] \in Range(4) /\ t[5] \in Range(5) /\ t[6] \in Range(6)
  BY <1>2 DEF Fields
<1> QED  BY <1>1, <1>3 DEF ClockTimes

\* The next second of a time that is not the last: the field that takes the carry
\* goes up by one, the fields before it start again and the others stay.
LEMMA Carry ==
  ASSUME NEW t \in ClockTimes, t # Last
  PROVE  /\ NextSecond(t) \in ClockTimes
         /\ \E k \in Fields :
              /\ NextSecond(t)[k] = t[k] + 1
              /\ \A i \in Fields : i > k => NextSecond(t)[i] = t[i]
<1> DEFINE Ends(k) == t[k] < Last[k] /\ \A i \in Fields : i < k => t[i] = Last[i]
           k == CHOOSE k \in Fields : Ends(k)
           n == [i \in Fields |-> IF i < k THEN First[i] ELSE IF i = k THEN t[i] + 1 ELSE t[i]]
<1>t. /\ t \in [Fields -> 0..99] /\ Last \in [Fields -> 0..99] /\ First \in [Fields -> Nat]
      /\ \A i \in Fields : First[i] <= t[i] /\ t[i] <= Last[i] /\ First[i] <= Last[i]
  BY TimesOfFields, RtcAssumption
<1>1. \E j \in Fields : Ends(j)
  <2>1. \E i \in Fields : t[i] # Last[i]
    BY <1>t
  <2>2. PICK i \in Fields : t[i] # Last[i] /\ \A j \in Fields : j < i => t[j] = Last[j]
    BY <2>1 DEF Fields
  <2>3. t[i] \in Nat /\ Last[i] \in Nat /\ t[i] <= Last[i]
    BY <1>t
  <2>4. Ends(i)
    BY <2>2, <2>3
  <2> QED  BY <2>4
<1>2. k \in Fields /\ Ends(k)
  BY <1>1
<1>3. NextSecond(t) = n
  BY DEF NextSecond
<1> HIDE DEF k
<1>4. \A i \in Fields : n[i] = IF i < k THEN First[i] ELSE IF i = k THEN t[i] + 1 ELSE t[i]
  OBVIOUS
<1>5. n \in [Fields -> Nat]
  BY <1>t, <1>2 DEF Fields
<1> HIDE DEF n
<1>6. \A i \in Fields : First[i] <= n[i] /\ n[i] <= Last[i]
  <2> SUFFICES ASSUME NEW i \in Fields  PROVE First[i] <= n[i] /\ n[i] <= Last[i]
    OBVIOUS
  <2>1. /\ t[i] \in Nat /\ Last[i] \in Nat /\ First[i] \in Nat
        /\ First[i] <= t[i] /\ t[i] <= Last[i] /\ First[i] <= Last[i] /\ (i = k => t[i] < Last[i])
    BY <1>t, <1>2
  <2> QED  BY <1>4, <2>1
<1>7. n \in ClockTimes
  BY <1>5, <1>6, FieldsMakeTime
<1>8. n[k] = t[k] + 1 /\ \A i \in Fields : i > k => n[i] = t[i]
  BY <1>2, <1>4 DEF Fields
<1> QED  BY <1>2, <1>3, <1>7, <1>8

\* What a register holds is converted back to the field's value.
LEMMA TwoDigitsBack ==
  ASSUME NEW n \in 0..99
  PROVE  /\ 16 * (n \div 10) + (n % 10) \in 0..255
         /\ bcd_to_bin(16 * (n \div 10) + (n % 10)) = n
<1> DEFINE q == n \div 10
           r == n % 10
<1>1. q \in 0..9 /\ r \in 0..9 /\ n = 10 * q + r
  OBVIOUS
<1> HIDE DEF q, r
<1>2. (16 * q + r) \div 16 = q /\ (16 * q + r) % 16 = r
  BY <1>1
<1>3. 16 * q + r \in 0..255 /\ bcd_to_bin(16 * q + r) = n
  BY <1>1, <1>2 DEF bcd_to_bin
<1> QED  BY <1>3 DEF q, r

LEMMA HeldIsValue ==
  ASSUME clock \in ClockTimes, NEW i \in Fields
  PROVE  Held(i) \in 0..255 /\ clock[i] \in 0..99 /\ bcd_to_bin(Held(i)) = clock[i]
BY TimesOfFields, TwoDigitsBack DEF Held

\* A byte is converted to a byte.
LEMMA ByteConverted ==
  ASSUME NEW b \in 0..255
  PROVE  bcd_to_bin(b) \in 0..255
BY DEF bcd_to_bin

\* The time the reading comes to if the clock stands still from now on.
Seen(i) == IF i < field THEN time_info[i] ELSE clock[i]

\* It is not before the time of the call.
LateInv == field >= 1 /\ missed = {} => \A i \in Fields :
  start[i] > Seen(i) => \E j \in Fields : j > i /\ start[j] < Seen(j)

SameMinute == \A i \in Fields : i > 1 => clock[i] = start[i]
LaterMinute == \E j \in Fields : j > 1 /\ start[j] < clock[j] /\ \A i \in Fields : i > j => clock[i] = start[i]

\* As long as the minute is that of the call, the fields read are those of one
\* time the clock has shown; a minute that has passed does not come back.
MixInv == field >= 1 /\ missed = {} =>
  /\ clock \in shown
  /\ SameMinute \/ LaterMinute
  /\ SameMinute =>
       /\ \A i \in Fields : 1 < i /\ i < field => time_info[i] = start[i]
       /\ field > 1 => \E c \in shown : c[1] = time_info[1] /\ \A i \in Fields : i > 1 => c[i] = start[i]

\* From the first field on the byte read last is a register's.
DigitInv == 1 \notin missed /\ field > 1 =>
  bcd_to_bin(temp) <= 99 /\ \A i \in Fields : i < field => time_info[i] <= 99

ReadingInv == LateInv /\ MixInv /\ DigitInv

LEMMA RtcInitially == RtcInit => RtcTypeOK /\ ReadingInv
<1> SUFFICES ASSUME RtcInit  PROVE RtcTypeOK /\ ReadingInv
  OBVIOUS
<1>1. First \in ClockTimes
  BY RtcAssumption, FieldsMakeTime DEF Fields
<1>2. RtcTypeOK
  BY <1>1, RtcAssumption DEF RtcInit, RtcTypeOK, Fields
<1>3. ReadingInv
  BY DEF RtcInit, ReadingInv, LateInv, MixInv, DigitInv
<1> QED  BY <1>2, <1>3

\* The types of the fields, in integers.
LEMMA RtcTypes ==
  ASSUME RtcTypeOK
  PROVE  /\ clock \in [Fields -> Nat] /\ start \in [Fields -> Nat] /\ time_info \in [Fields -> Nat]
         /\ field \in Nat /\ field <= 7
         /\ \A c \in shown : c \in [Fields -> Nat]
<1>1. \A c \in ClockTimes : c \in [Fields -> Nat]
  <2> TAKE c \in ClockTimes
  <2>1. c \in [Fields -> 0..99]
    BY TimesOfFields
  <2> QED  BY <2>1
<1> QED  BY <1>1 DEF RtcTypeOK

LEMMA CallStep ==
  ASSUME RtcTypeOK, NEW now \in ClockTimes, CallReadTime(now)
  PROVE  RtcTypeOK' /\ ReadingInv'
<1>1. RtcTypeOK'
  BY DEF CallReadTime, RtcTypeOK
<1>2. /\ clock' = now /\ start' = now /\ field' = 1 /\ shown' = {now}
  BY DEF CallReadTime
<1>3. now \in [Fields -> Nat]
  BY <1>1, <1>2, TimesOfFields
<1>4. LateInv'
  <2>1. \A i \in Fields : Seen(i)' = now[i]
    BY <1>2 DEF Seen, Fields
  <2> QED  BY <1>2, <1>3, <2>1 DEF LateInv
<1>5. MixInv'
  BY <1>2, <1>3 DEF MixInv, SameMinute, Fields
<1>6. DigitInv'
  BY <1>2 DEF DigitInv
<1> QED  BY <1>1, <1>4, <1>5, <1>6 DEF ReadingInv

LEMMA SecondStep ==
  ASSUME RtcTypeOK, ReadingInv, SecondPasses
  PROVE  RtcTypeOK' /\ ReadingInv'
<1>t. /\ clock \in [Fields -> Nat] /\ start \in [Fields -> Nat] /\ time_info \in [Fields -> Nat]
      /\ field \in Nat /\ field <= 7
  BY RtcTypes
<1>0. /\ field \in Fields /\ clock # Last /\ clock' = NextSecond(clock) /\ shown' = shown \cup {clock'}
      /\ register' = register /\ temp' = temp /\ field' = field /\ time_info' = time_info
      /\ start' = start /\ missed' = missed
  BY DEF SecondPasses
<1>1. clock \in ClockTimes
  BY DEF RtcTypeOK
<1>2. clock' \in ClockTimes
  BY <1>0, <1>1, Carry
<1>3. PICK k \in Fields : /\ clock'[k] = clock[k] + 1
                          /\ \A i \in Fields : i > k => clock'[i] = clock[i]
  BY <1>0, <1>1, Carry
<1>4. RtcTypeOK'
  BY <1>0, <1>2 DEF RtcTypeOK
<1>5. clock' \in [Fields -> Nat]
  BY <1>4, <1>2, TimesOfFields
<1>6. LateInv'
  <2> SUFFICES ASSUME field >= 1, missed = {}, NEW i \in Fields, start[i] > Seen(i)'
               PROVE  \E j \in Fields : j > i /\ start[j] < Seen(j)'
    BY <1>0 DEF LateInv
  <2>0. /\ \A j \in Fields : start[j] \in Nat /\ Seen(j) \in Nat /\ Seen(j)' \in Nat
        /\ \A j \in Fields : start[j] > Seen(j) => \E l \in Fields : l > j /\ start[l] < Seen(l)
    BY <1>t, <1>0, <1>5 DEF Seen, LateInv, ReadingInv
  <2>1. CASE k < field
    <3>1. \A j \in Fields : Seen(j)' = Seen(j)
      BY <1>0, <1>3, <1>t, <2>1 DEF Seen, Fields
    <3> QED  BY <2>0, <3>1
  <2>2. CASE k >= field
    <3>1. Seen(k)' = Seen(k) + 1 /\ \A j \in Fields : j > k => Seen(j)' = Seen(j)
      BY <1>0, <1>3, <1>t, <2>2 DEF Seen, Fields
    <3>2. CASE i > k
      <4>1. Seen(i)' = Seen(i)
        BY <3>1, <3>2
      <4>2. PICK l \in Fields : l > i /\ start[l] < Seen(l)
        BY <2>0, <4>1
      <4>3. Seen(l)' = Seen(l)
        BY <3>1, <3>2, <4>2 DEF Fields
      <4> QED  BY <4>2, <4>3
    <3>3. CASE i <= k /\ start[k] > Seen(k)
      <4>1. PICK l \in Fields : l > k /\ start[l] < Seen(l)
        BY <2>0, <3>3
      <4>2. Seen(l)' = Seen(l)
        BY <3>1, <4>1
      <4> QED  BY <3>3, <4>1, <4>2 DEF Fields
    <3>4. CASE i < k /\ ~(start[k] > Seen(k))
      <4>1. start[k] < Seen(k)'
        BY <2>0, <3>1, <3>4
      <4> QED  BY <3>4, <4>1
    <3>5. CASE i = k /\ ~(start[k] > Seen(k))
      BY <2>0, <3>1, <3>5
    <3> QED  BY <3>2, <3>3, <3>4, <3>5 DEF Fields
  <2> QED  BY <2>1, <2>2, <1>t DEF Fields
<1>7. MixInv'
  <2> SUFFICES ASSUME field >= 1, missed = {}
               PROVE  /\ (SameMinute \/ LaterMinute)'
                      /\ SameMinute' =>
                           /\ \A i \in Fields : 1 < i /\ i < field => time_info[i] = start[i]
                           /\ field > 1 => \E c \in shown \cup {clock'} :
                                c[1] = time_info[1] /\ \A i \in Fields : i > 1 => c[i] = start[i]
    BY <1>0 DEF MixInv
  <2>1. CASE LaterMinute
    <3>1. PICK j \in Fields : j > 1 /\ start[j] < clock[j] /\ \A i \in Fields : i > j => clock[i] = start[i]
      BY <2>1 DEF LaterMinute
    <3>2. CASE k > j
      <4>1. start[k] < clock'[k] /\ \A i \in Fields : i > k => clock'[i] = start[i]
        BY <1>3, <1>t, <3>1, <3>2 DEF Fields
      <4>2. LaterMinute' /\ ~SameMinute'
        BY <1>0, <1>t, <1>5, <3>1, <3>2, <4>1 DEF LaterMinute, SameMinute, Fields
      <4> QED  BY <4>2
    <3>3. CASE k <= j
      <4>1. start[j] < clock'[j] /\ \A i \in Fields : i > j => clock'[i] = start[i]
        BY <1>3, <1>t, <3>1, <3>3 DEF Fields
      <4>2. LaterMinute' /\ ~SameMinute'
        BY <1>0, <1>t, <1>5, <3>1, <4>1 DEF LaterMinute, SameMinute, Fields
      <4> QED  BY <4>2
    <3> QED  BY <3>2, <3>3 DEF Fields
  <2>2. CASE SameMinute /\ k = 1
    <3>1. SameMinute'
      BY <1>0, <1>3, <2>2 DEF SameMinute
    <3> QED  BY <2>2, <3>1 DEF ReadingInv, MixInv
  <2>3. CASE SameMinute /\ k # 1
    <3>1. k > 1 /\ start[k] < clock'[k] /\ \A i \in Fields : i > k => clock'[i] = start[i]
      BY <1>3, <1>t, <2>3 DEF SameMinute, Fields
    <3>2. LaterMinute' /\ ~SameMinute'
      BY <1>0, <1>t, <1>5, <3>1 DEF LaterMinute, SameMinute
    <3> QED  BY <3>2
  <2> QED  BY <2>1, <2>2, <2>3 DEF ReadingInv, MixInv
<1>8. DigitInv'
  BY <1>0 DEF DigitInv, ReadingInv
<1> QED  BY <1>4, <1>6, <1>7, <1>8 DEF ReadingInv

\* The value stored for a field.
LEMMA Stored ==
  ASSUME RtcTypeOK, NEW f \in Fields, temp' \in 0..255, Store(f)
  PROVE  /\ time_info' \in [Fields -> 0..255] /\ time_info'[f] = bcd_to_bin(temp')
         /\ \A i \in Fields : i # f => time_info'[i] = time_info[i]
<1>1. bcd_to_bin(temp') \in 0..255
  BY ByteConverted
<1> QED  BY <1>1 DEF RtcTypeOK, Store

LEMMA ReadStep ==
  ASSUME RtcTypeOK, ReadingInv, ReadField
  PROVE  RtcTypeOK' /\ ReadingInv'
<1>t. /\ clock \in [Fields -> Nat] /\ start \in [Fields -> Nat] /\ time_info \in [Fields -> Nat]
      /\ field \in Nat /\ field <= 7
  BY RtcTypes
<1>0. /\ field \in Fields /\ register' = field /\ temp' = Held(field) /\ Store(field)
      /\ field' = field + 1 /\ clock' = clock /\ shown' = shown /\ start' = start /\ missed' = missed
  BY DEF ReadField
<1>1. temp' \in 0..255 /\ bcd_to_bin(temp') = clock[field] /\ clock[field] \in 0..99
  BY <1>0, HeldIsValue DEF RtcTypeOK
<1>2. /\ time_info' \in [Fields -> 0..255] /\ time_info'[field] = clock[field]
      /\ \A i \in Fields : i # field => time_info'[i] = time_info[i]
  BY <1>0, <1>1, Stored
<1>3. RtcTypeOK'
  BY <1>0, <1>1, <1>2 DEF RtcTypeOK, Fields
<1>4. LateInv'
  <2>1. \A i \in Fields : Seen(i)' = Seen(i)
    BY <1>t, <1>0, <1>2 DEF Seen, Fields
  <2> QED  BY <1>0, <2>1 DEF LateInv, ReadingInv, Fields
<1>5. MixInv'
  <2> SUFFICES ASSUME missed = {}
               PROVE  /\ clock \in shown
                      /\ SameMinute \/ LaterMinute
                      /\ SameMinute =>
                           /\ \A i \in Fields : 1 < i /\ i < field + 1 => time_info'[i] = start[i]
                           /\ \E c \in shown :
                                c[1] = time_info'[1] /\ \A i \in Fields : i > 1 => c[i] = start[i]
    BY <1>0 DEF MixInv, SameMinute, LaterMinute
  <2>1. /\ clock \in shown
        /\ SameMinute \/ LaterMinute
        /\ SameMinute =>
             /\ \A i \in Fields : 1 < i /\ i < field => time_info[i] = start[i]
             /\ field > 1 => \E c \in shown : c[1] = time_info[1] /\ \A i \in Fields : i > 1 => c[i] = start[i]
    BY <1>0 DEF MixInv, ReadingInv, Fields
  <2> SUFFICES ASSUME SameMinute
               PROVE  /\ \A i \in Fields : 1 < i /\ i < field + 1 => time_info'[i] = start[i]
                      /\ \E c \in shown :
                           c[1] = time_info'[1] /\ \A i \in Fields : i > 1 => c[i] = start[i]
    BY <2>1
  <2>2. \A i \in Fields : 1 < i /\ i < field + 1 => time_info'[i] = start[i]
    BY <1>0, <1>2, <2>1 DEF SameMinute, Fields
  <2>3. CASE field = 1
    <3>1. clock[1] = time_info'[1] /\ \A i \in Fields : i > 1 => clock[i] = start[i]
      BY <1>2, <2>3 DEF SameMinute
    <3> QED  BY <2>1, <2>2, <3>1
  <2>4. CASE field # 1
    <3>1. field > 1 /\ time_info'[1] = time_info[1]
      BY <1>0, <1>2, <2>4 DEF Fields
    <3> QED  BY <2>1, <2>2, <3>1
  <2> QED  BY <2>2, <2>3, <2>4
<1>6. DigitInv'
  <2> SUFFICES ASSUME 1 \notin missed
               PROVE  bcd_to_bin(temp') <= 99 /\ \A i \in Fields : i < field + 1 => time_info'[i] <= 99
    BY <1>0 DEF DigitInv
  <2>1. \A i \in Fields : i < field => time_info[i] <= 99
    BY <1>0 DEF DigitInv, ReadingInv, Fields
  <2> QED  BY <1>0, <1>1, <1>2, <2>1 DEF Fields
<1> QED  BY <1>3, <1>4, <1>5, <1>6 DEF ReadingInv

LEMMA ReadFailsStep ==
  ASSUME RtcTypeOK, ReadingInv, ReadFieldFails
  PROVE  RtcTypeOK' /\ ReadingInv'
<1>0. /\ field \in Fields /\ Store(field) /\ field' = field + 1 /\ missed' = missed \cup {field}
      /\ clock' = clock /\ shown' = shown /\ start' = start
      /\ \/ register' = register /\ temp' = Held(register)
         \/ register' = field /\ temp' = temp
  BY DEF ReadFieldFails
<1>1. /\ register' \in Fields /\ temp' \in 0..255
      /\ temp' = temp \/ bcd_to_bin(temp') <= 99
  <2>1. CASE temp' = Held(register) /\ register' = register
    <3>1. register \in Fields /\ clock \in ClockTimes
      BY DEF RtcTypeOK
    <3>2. Held(register) \in 0..255 /\ bcd_to_bin(Held(register)) <= 99
      BY <3>1, HeldIsValue
    <3> QED  BY <2>1, <3>1, <3>2
  <2>2. CASE temp' = temp /\ register' = field
    BY <1>0, <2>2 DEF RtcTypeOK
  <2> QED  BY <1>0, <2>1, <2>2
<1>2. /\ time_info' \in [Fields -> 0..255] /\ time_info'[field] = bcd_to_bin(temp')
      /\ \A i \in Fields : i # field => time_info'[i] = time_info[i]
  BY <1>0, <1>1, Stored
<1>3. RtcTypeOK'
  BY <1>0, <1>1, <1>2 DEF RtcTypeOK, Fields
<1>4. missed' # {}
  BY <1>0
<1>5. LateInv' /\ MixInv'
  BY <1>4 DEF LateInv, MixInv
<1>6. DigitInv'
  <2> SUFFICES ASSUME 1 \notin missed, field # 1
               PROVE  bcd_to_bin(temp') <= 99 /\ \A i \in Fields : i < field + 1 => time_info'[i] <= 99
    BY <1>0 DEF DigitInv
  <2>1. bcd_to_bin(temp) <= 99 /\ \A i \in Fields : i < field => time_info[i] <= 99
    BY <1>0 DEF DigitInv, ReadingInv, Fields
  <2>2. bcd_to_bin(temp') <= 99
    BY <1>1, <2>1
  <2> QED  BY <1>0, <1>2, <2>1, <2>2 DEF Fields
<1> QED  BY <1>3, <1>5, <1>6 DEF ReadingInv

\* What is known of the reading gives the properties at its end.
LEMMA ReadingGives ==
  ASSUME RtcTypeOK, ReadingInv
  PROVE  NeverBehind /\ MixedOnlyByCarry /\ TwoDigits
<1>t. /\ clock \in [Fields -> Nat] /\ start \in [Fields -> Nat] /\ time_info \in [Fields -> Nat]
      /\ \A c \in shown : c \in [Fields -> Nat]
  BY RtcTypes
<1>1. NeverBehind
  <2> SUFFICES ASSUME field = 7, missed = {}  PROVE NotAfter(start, time_info)
    BY DEF NeverBehind
  <2>1. \A i \in Fields : Seen(i) = time_info[i]
    BY DEF Seen, Fields
  <2> QED  BY <2>1 DEF NotAfter, ReadingInv, LateInv
<1>2. MixedOnlyByCarry
  <2> SUFFICES ASSUME field = 7, missed = {}, SameMinute  PROVE time_info \in shown
    BY DEF MixedOnlyByCarry, SameMinute
  <2>1. PICK c \in shown : c[1] = time_info[1] /\ \A i \in Fields : i > 1 => c[i] = start[i]
    BY DEF ReadingInv, MixInv
  <2>2. \A i \in Fields : i > 1 => time_info[i] = start[i]
    BY DEF ReadingInv, MixInv, Fields
  <2>3. \A i \in Fields : time_info[i] = c[i]
    BY <2>1, <2>2 DEF Fields
  <2>4. time_info = c
    BY <1>t, <2>3
  <2> QED  BY <2>4
<1>3. TwoDigits
  BY DEF TwoDigits, ReadingInv, DigitInv, Fields
<1> QED  BY <1>1, <1>2, <1>3

----------------------------------------------------------------------------
(* Both clocks                                                             *)

ClocksInv == TypeOK /\ ChipInv /\ ReadingInv

\* A step of either driver keeps what is known of both.
LEMMA ClocksStep == ClocksInv /\ [Next]_vars => ClocksInv'
<1> SUFFICES ASSUME ClocksInv, [Next]_vars  PROVE ClocksInv'
  OBVIOUS
<1>0. TimerTypeOK /\ RtcTypeOK /\ ChipInv /\ ReadingInv
  BY DEF ClocksInv, TypeOK
<1>r. ASSUME UNCHANGED rtcVars  PROVE RtcTypeOK' /\ ReadingInv'
  <2>1. RtcTypeOK'
    BY <1>0, <1>r DEF rtcVars, RtcTypeOK
  <2>2. LateInv'
    BY <1>0, <1>r DEF rtcVars, ReadingInv, LateInv, Seen
  <2>3. MixInv'
    BY <1>0, <1>r DEF rtcVars, ReadingInv, MixInv, SameMinute, LaterMinute
  <2>4. DigitInv'
    BY <1>0, <1>r DEF rtcVars, ReadingInv, DigitInv
  <2> QED  BY <2>1, <2>2, <2>3, <2>4 DEF ReadingInv
<1>t. ASSUME UNCHANGED timerVars  PROVE TimerTypeOK' /\ ChipInv'
  <2>1. TimerTypeOK'
    BY <1>0, <1>t, SMT DEF timerVars, chipVars, callVars, TimerTypeOK
  <2>2. CounterValue' = CounterValue
    BY <1>t, SMT DEF timerVars, callVars, CounterValue
  <2>3. ChipInv'
    BY <1>0, <1>t, <2>2, SMT DEF timerVars, chipVars, callVars, ChipInv
  <2> QED  BY <2>1, <2>3
<1>1. CASE TimerNext /\ UNCHANGED rtcVars
  <2>1. TimerTypeOK' /\ ChipInv'
    BY <1>0, <1>1, TimerStep
  <2>2. RtcTypeOK' /\ ReadingInv'
    BY <1>1, <1>r
  <2> QED  BY <2>1, <2>2 DEF ClocksInv, TypeOK
<1>2. CASE RtcNext /\ UNCHANGED timerVars
  <2>1. TimerTypeOK' /\ ChipInv'
    BY <1>2, <1>t
  <2>2. RtcTypeOK' /\ ReadingInv'
    BY <1>0, <1>2, CallStep, SecondStep, ReadStep, ReadFailsStep DEF RtcNext
  <2> QED  BY <2>1, <2>2 DEF ClocksInv, TypeOK
<1>3. CASE UNCHANGED vars
  <2>1. UNCHANGED rtcVars /\ UNCHANGED timerVars
    BY <1>3 DEF vars
  <2> QED  BY <2>1, <1>r, <1>t DEF ClocksInv, TypeOK
<1> QED  BY <1>1, <1>2, <1>3 DEF Next

LEMMA ClocksInvariant == Spec => []ClocksInv
<1>1. Init => ClocksInv
  BY TimerInitially, RtcInitially DEF Init, ClocksInv, TypeOK
<1> QED  BY <1>1, ClocksStep, PTL DEF Spec

\* The types of the two drivers: among them that a byte is a byte and that a
\* converted field fits in its uint8_t.
THEOREM ClocksTypeCorrect == Spec => []TypeOK
<1>1. ClocksInv => TypeOK
  BY DEF ClocksInv
<1> QED  BY <1>1, ClocksInvariant, PTL

\* timer_set_frequency: a call that returned 0 and whose control word arrived has
\* set the divisor of the frequency it was given, for every frequency, every mode
\* of the counter and every failure of an earlier call; the mode is never changed.
THEOREM TimerSetsFrequency == Spec => []SetsFrequency
<1>1. ClocksInv => SetsFrequency
  BY ChipGivesFrequency DEF ClocksInv, TypeOK
<1> QED  BY <1>1, ClocksInvariant, PTL

\* rtc_read_time: however many seconds pass between the six reads, the time put
\* together from them is not before the time of the call.
THEOREM TimeIsNeverBehind == Spec => []NeverBehind
<1>1. ClocksInv => NeverBehind
  BY ReadingGives DEF ClocksInv, TypeOK
<1> QED  BY <1>1, ClocksInvariant, PTL

\* rtc_read_time: within one minute of the clock the time read is one it showed.
THEOREM TimeMixedOnlyByCarry == Spec => []MixedOnlyByCarry
<1>1. ClocksInv => MixedOnlyByCarry
  BY ReadingGives DEF ClocksInv, TypeOK
<1> QED  BY <1>1, ClocksInvariant, PTL

\* rtc_read_time: no field needs a third digit, whichever port calls fail, if the
\* read of the seconds does not.
THEOREM TimeHasTwoDigits == Spec => []TwoDigits
<1>1. ClocksInv => TwoDigits
  BY ReadingGives DEF ClocksInv, TypeOK
<1> QED  BY <1>1, ClocksInvariant, PTL

=============================================================================

-------------------------------- MODULE Rtc ---------------------------------
(***************************************************************************)
(* rtc_read_time (proj/src/drivers/rtc/rtc.c): the six registers of the    *)
(* real-time clock are selected and read one after the other, seconds      *)
(* first and the year last, while the clock runs.                          *)
(*                                                                         *)
(* Nothing looks whether an update is in progress, and the results of      *)
(* sys_outb and sys_inb are ignored: after a failure the register selected *)
(* before is read, or the value read before is used once more.             *)
(*                                                                         *)
(* The clock keeps its registers in BCD and in 24-hour mode, and shows the *)
(* old or the new value of a register at any time.                         *)
(***************************************************************************)
EXTENDS Integers, FiniteSets

CONSTANTS
  First,         \* least value of each field
  Last,          \* and its greatest
  Garbage,       \* values an uninitialized byte may have
  MaxSeconds,    \* bound on the seconds that pass during a reading
  MaxPortFaults  \* bound on the port calls that fail

\* The fields in the order in which they are read: seconds, minutes, hours, day,
\* month, year.  The carry of the clock takes the same way.
Fields == 1..6

ASSUME RtcAssumption ==
  /\ First \in [Fields -> Nat] /\ Last \in [Fields -> 0..99]
  /\ \A i \in Fields : First[i] <= Last[i]
  /\ Garbage \subseteq 0..255
  /\ MaxSeconds \in Nat /\ MaxPortFaults \in Nat

VARIABLES
  clock,      \* the time the clock shows
  register,   \* the register that is selected
  temp,       \* the value sys_inb gave last
  field,      \* the field to be read next, 0 before the call and 7 after it
  time_info,  \* the time read
  shown,      \* history: the times the clock has shown since the call
  start,      \* history: the first of them
  missed      \* history: the fields whose port calls failed

rtcVars == <<clock, register, temp, field, time_info, shown, start, missed>>

RtcInit ==
  /\ clock = First /\ register = 1 /\ temp \in Garbage /\ field = 0
  /\ time_info = [i \in Fields |-> 0]
  /\ shown = {} /\ start = First /\ missed = {}

----------------------------------------------------------------------------
(* The clock                                                               *)

Range(i) == First[i]..Last[i]
ClockTimes == {<<seconds, minutes, hours, day, month, year>> :
                 seconds \in Range(1), minutes \in Range(2), hours \in Range(3),
                 day \in Range(4), month \in Range(5), year \in Range(6)}

\* Fields at their end start again, up to the first that is not.
NextSecond(t) ==
  LET k == CHOOSE k \in Fields : t[k] < Last[k] /\ \A i \in Fields : i < k => t[i] = Last[i]
  IN  [i \in Fields |-> IF i < k THEN First[i] ELSE IF i = k THEN t[i] + 1 ELSE t[i]]

SecondPasses ==
  /\ field \in Fields /\ clock # Last
  /\ Cardinality(shown) <= MaxSeconds
  /\ clock' = NextSecond(clock) /\ shown' = shown \cup {clock'}
  /\ UNCHANGED <<register, temp, field, time_info, start, missed>>

\* A register holds two decimal digits, of four bits each.
Held(i) == 16 * (clock[i] \div 10) + (clock[i] % 10)

----------------------------------------------------------------------------
(* rtc_read_time                                                           *)

bcd_not_converted(b) == b
bcd_to_bin(b) == (b \div 16) * 10 + (b % 16)

CallReadTime(now) ==
  /\ field = 0
  /\ clock' = now /\ start' = now /\ shown' = {now}
  /\ field' = 1
  /\ UNCHANGED <<register, temp, time_info, missed>>

Store(i) == time_info' = [time_info EXCEPT ![i] = bcd_to_bin(temp')]

ReadFieldYearFirst ==
  /\ field \in Fields
  /\ register' = 7 - field /\ temp' = Held(7 - field) /\ Store(7 - field)
  /\ field' = field + 1
  /\ UNCHANGED <<clock, shown, start, missed>>
ReadField ==
  /\ field \in Fields
  /\ register' = field /\ temp' = Held(field) /\ Store(field)
  /\ field' = field + 1
  /\ UNCHANGED <<clock, shown, start, missed>>

ReadFieldFailsFresh ==
  /\ field \in Fields /\ Cardinality(missed) < MaxPortFaults
  /\ \/ register' = register /\ temp' = Held(register)
     \/ register' = field /\ temp' \in Garbage
  /\ Store(field)
  /\ field' = field + 1 /\ missed' = missed \cup {field}
  /\ UNCHANGED <<clock, shown, start>>
\* sys_outb fails and the register is another, or sys_inb fails.
ReadFieldFails ==
  /\ field \in Fields /\ Cardinality(missed) < MaxPortFaults
  /\ \/ register' = register /\ temp' = Held(register)
     \/ register' = field /\ temp' = temp
  /\ Store(field)
  /\ field' = field + 1 /\ missed' = missed \cup {field}
  /\ UNCHANGED <<clock, shown, start>>

RtcNext ==
  \/ \E now \in ClockTimes : CallReadTime(now)
  \/ SecondPasses
  \/ ReadField
  \/ ReadFieldFails

----------------------------------------------------------------------------
(* Properties                                                              *)

RtcTypeOK ==
  /\ clock \in ClockTimes /\ register \in Fields /\ temp \in 0..255 /\ field \in 0..7
  /\ time_info \in [Fields -> 0..255]
  /\ shown \subseteq ClockTimes /\ start \in ClockTimes /\ missed \subseteq Fields

\* The time s is t or comes before it.
NotAfter(s, t) ==
  \A i \in Fields : s[i] > t[i] => \E j \in Fields : j > i /\ s[j] < t[j]

\* The time read is never before the time of the call: the lower fields are read
\* first, so a carry in between makes it late and not early.
NeverBehind == field = 7 /\ missed = {} => NotAfter(start, time_info)

\* If the minute has not changed during the reading the time read is one the
\* clock has shown; it is a mixture of two only around a carry.
MixedOnlyByCarry ==
  field = 7 /\ missed = {} /\ (\A i \in Fields : i > 1 => clock[i] = start[i])
    => time_info \in shown

\* Every field has at most two digits, for which the buffers of the texts made
\* of a time are large enough, also when port calls failed: the value left over
\* is then a register's.  Only when the first call fails it is not.
TwoDigits == field = 7 /\ 1 \notin missed => \A i \in Fields : time_info[i] <= 99

=============================================================================

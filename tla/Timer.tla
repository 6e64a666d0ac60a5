------------------------------- MODULE Timer --------------------------------
(***************************************************************************)
(* timer_set_frequency and timer_get_conf of proj/src/drivers/timer/       *)
(* timer.c, with util_get_LSB and util_get_MSB of drivers/utils.c, port    *)
(* call by port call on one counter of an i8254 timer.                     *)
(*                                                                         *)
(* The counter is loaded through one port, byte by byte, in the way its    *)
(* control word says: low byte only (1), high byte only (2), or low and    *)
(* high (3).  A call that fails halfway leaves it waiting for the high     *)
(* byte.                                                                   *)
(***************************************************************************)
EXTENDS Integers

CONSTANTS
  Timers,         \* the timers timer_set_frequency may be called with
  Freqs,          \* and the frequencies
  Modes,          \* counting modes: the four low bits of a control word
  MaxCalls,       \* bound on the calls
  MaxTimerFaults  \* bound on the port calls that fail

ASSUME TimerAssumption ==
  /\ Timers \subseteq 0..255 /\ Freqs \subseteq Nat /\ Modes \subseteq 0..15
  /\ MaxCalls \in Nat /\ MaxTimerFaults \in Nat

TIMER_FREQ == 1193182

VARIABLES
  access,       \* how the counter is loaded
  mode,         \* how it counts
  half,         \* the low byte it has received, or -1
  count,        \* what it counts down from
  pc,           \* the next port call, or "ready"
  freq,         \* the frequency asked for
  timer,        \* and the timer, the same in all calls
  st,           \* the status read
  result,       \* what the last call has returned
  mode0,        \* history: how the counter counted before the first call
  skipped,      \* history: the control word of the last call did not arrive
  calls,        \* calls so far
  timerFaults   \* port calls that failed so far

chipVars  == <<access, mode, half, count>>
callVars  == <<pc, freq, timer, st, result, skipped>>
timerVars == <<chipVars, callVars, mode0, calls, timerFaults>>

TimerInit ==
  /\ access \in 1..3 /\ mode \in Modes /\ half = -1 /\ count = 0
  /\ pc = "ready" /\ freq = 0 /\ timer \in Timers /\ st = 0 /\ result = -1 /\ skipped = FALSE
  /\ mode0 = mode /\ calls = 0 /\ timerFaults = 0

PortFault == timerFaults < MaxTimerFaults /\ timerFaults' = timerFaults + 1

----------------------------------------------------------------------------
(* The chip                                                                *)

\* A status: the output and the null-count flag, the access and the mode.
Status(flags) == 64 * flags + 16 * access + mode

ControlWord(word) ==
  /\ access' = (word \div 16) % 4 /\ mode' = word % 16
  /\ half' = -1 /\ UNCHANGED count

CounterByte(b) ==
  /\ \/ access = 1 /\ count' = b /\ UNCHANGED half
     \/ access = 2 /\ count' = 256 * b /\ UNCHANGED half
     \/ access = 3 /\ half = -1 /\ half' = b /\ UNCHANGED count
     \/ access = 3 /\ half # -1 /\ count' = 256 * b + half /\ half' = -1
  /\ UNCHANGED <<access, mode>>

----------------------------------------------------------------------------
(* timer_set_frequency                                                     *)

RefusesFast(f) == f > TIMER_FREQ \/ timer > 2
Refuses(f) == f > TIMER_FREQ \/ f < 19 \/ timer > 2

CallSetFrequency(f) ==
  /\ pc = "ready" /\ calls < MaxCalls
  /\ freq' = f /\ calls' = calls + 1 /\ skipped' = FALSE
  /\ IF Refuses(f) THEN result' = 1 /\ pc' = "ready" ELSE result' = -1 /\ pc' = "read-back"
  /\ UNCHANGED <<chipVars, timer, st, mode0, timerFaults>>

\* timer_get_conf: the read-back command and the status.
ReadBack ==
  /\ pc = "read-back"
  /\ pc' = "control" /\ \E flags \in 0..3 : st' = Status(flags)
  /\ UNCHANGED <<chipVars, freq, timer, result, skipped, mode0, calls, timerFaults>>

\* The mode is kept, the access becomes low and high byte.
NewControlWithoutAccess == (st % 16) + 64 * timer
NewControl == (st % 16) + 48 + 64 * timer

WriteControl ==
  /\ pc = "control"
  /\ pc' = "lsb"
  /\ ControlWord(NewControl)
  /\ UNCHANGED <<freq, timer, st, result, skipped, mode0, calls, timerFaults>>

\* A failure here is not noticed.
WriteControlFails ==
  /\ pc = "control" /\ PortFault
  /\ pc' = "lsb" /\ skipped' = TRUE
  /\ UNCHANGED <<chipVars, freq, timer, st, result, mode0, calls>>

CounterValue == (TIMER_FREQ \div freq) % 65536

WriteLSB ==
  /\ pc = "lsb"
  /\ pc' = "msb"
  /\ CounterByte(CounterValue % 256)
  /\ UNCHANGED <<freq, timer, st, result, skipped, mode0, calls, timerFaults>>

WriteMSB ==
  /\ pc = "msb"
  /\ pc' = "ready" /\ result' = 0
  /\ CounterByte(CounterValue \div 256)
  /\ UNCHANGED <<freq, timer, st, skipped, mode0, calls, timerFaults>>

PortCallFails ==
  /\ pc \in {"read-back", "lsb", "msb"} /\ PortFault
  /\ pc' = "ready" /\ result' = 1
  /\ UNCHANGED <<chipVars, freq, timer, st, skipped, mode0, calls>>

TimerNext ==
  \/ \E f \in Freqs : CallSetFrequency(f)
  \/ ReadBack \/ WriteControl \/ WriteControlFails \/ WriteLSB \/ WriteMSB \/ PortCallFails

----------------------------------------------------------------------------
(* Properties                                                              *)

TimerTypeOK ==
  /\ access \in 1..3 /\ mode \in Modes /\ half \in -1..255 /\ count \in Nat /\ count < 65536
  /\ pc \in {"ready", "read-back", "control", "lsb", "msb"}
  /\ freq \in Freqs \cup {0} /\ timer \in Timers /\ st \in 0..255
  /\ result \in {-1, 0, 1} /\ skipped \in BOOLEAN
  /\ mode0 \in Modes /\ calls \in 0..MaxCalls /\ timerFaults \in 0..MaxTimerFaults

\* After a call that returned 0 the counter divides the clock to the frequency
\* asked for, within one count and with nothing lost in sixteen bits or between
\* the two bytes, whatever state earlier calls have left the chip in; and at no
\* time is the way of counting another.
SetsFrequency ==
  /\ mode = mode0
  /\ pc = "ready" /\ result = 0 /\ ~skipped =>
       count * freq <= TIMER_FREQ /\ TIMER_FREQ < (count + 1) * freq

=============================================================================

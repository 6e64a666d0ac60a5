------------------------------- MODULE Clocks -------------------------------
(***************************************************************************)
(* The two clocks of the program: setup() sets the frequency of the timer, *)
(* and once this has succeeded the loop reads the time of day.             *)
(***************************************************************************)
EXTENDS Rtc, Timer

vars == <<rtcVars, timerVars>>

\* The one call of setup(), on a timer as the system leaves it.  The drivers share
\* no state, so one way into the loop is enough.
AsSetup == timer = 0 /\ freq = 60 /\ calls = 1 /\ timerFaults = 0 /\ mode0 = 6 /\ st = 16 * 3 + 6

Init == RtcInit /\ TimerInit

Next ==
  \/ field = 0 /\ TimerNext /\ UNCHANGED rtcVars
  \/ pc = "ready" /\ result = 0 /\ AsSetup /\ RtcNext /\ UNCHANGED timerVars

Spec == Init /\ [][Next]_vars

TypeOK == RtcTypeOK /\ TimerTypeOK

=============================================================================

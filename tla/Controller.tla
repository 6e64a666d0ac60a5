----------------------------- MODULE Controller -----------------------------
(***************************************************************************)
(* The i8042 controller that keyboard and mouse share, as the drivers use  *)
(* it: kbc_ih (proj/src/drivers/keyboard/keyboard.c), mouse_ih, ibf_empty  *)
(* and mouse_command (proj/src/drivers/mouse/mouse.c).                     *)
(*                                                                         *)
(* The controller has one output buffer.  A byte of either device enters   *)
(* it when it is empty and stays until somebody reads port 0x60; it is     *)
(* announced by one interrupt, on the line of its device, once that line   *)
(* is subscribed.  Port 0x60 read while the buffer is empty gives the byte *)
(* read before.                                                            *)
(*                                                                         *)
(* A byte is the device it comes from and what mouse_command can tell of   *)
(* its value: 0xFA, 0xFE or another.  A byte of a mouse movement may well  *)
(* be 0xFA.                                                                *)
(***************************************************************************)
EXTENDS Integers, Sequences

CONSTANTS
  MaxTries,   \* attempts of mouse_command (10)
  MaxKeys,    \* bound on the bytes of the keyboard
  MaxReports, \* bound on the bytes of mouse movements
  MaxFaults   \* bound on what goes wrong: ports, kernel calls, the mouse

ASSUME ControllerAssumption ==
  /\ MaxTries \in Nat \ {0}
  /\ MaxKeys \in Nat /\ MaxReports \in Nat /\ MaxFaults \in Nat

VARIABLES
  plugged,    \* there is a mouse that answers
  reporting,  \* its data reporting is enabled
  answers,    \* answers it has not been able to send
  ob,         \* the output buffer
  last,       \* value read from port 0x60 last
  announced,  \* the byte in the output buffer has had its interrupt
  blocked,    \* history: and the handler could not read it
  inbuf,      \* the input buffer: what was written last and not yet taken
  routed,     \* the next byte of the input buffer is for the mouse
  keys,       \* bytes the keyboard sent
  reports,    \* bytes of movements the mouse sent
  faults,     \* history: what went wrong so far
  refused,    \* history: the mouse refused a command
  misrouted,  \* history: a command for the mouse went to the keyboard
  held,       \* the interrupt lines the process is subscribed to
  notes,      \* the interrupts of its next notification
  cmd,        \* the command mouse_command was called with, or "none"
  step,       \* where in mouse_command
  tries       \* attempts left, this one included

mouseVars   == <<plugged, reporting, answers, refused>>
sentVars    == <<keys, reports>>
obVars      == <<ob, last, announced, blocked>>
deviceVars  == <<mouseVars, sentVars, obVars>>
bufferVars  == <<inbuf, routed, misrouted>>
kernelVars  == <<held, notes>>
commandVars == <<cmd, step, tries>>
controllerVars == <<deviceVars, bufferVars, faults, kernelVars, commandVars>>

Devices  == {"keyboard", "mouse"}
Values   == {"FA", "FE", "other"}
Empty    == [from |-> "none", val |-> "other"]
Byte     == [from : Devices, val : Values]
Commands == {"F4", "F5"}
Steps    == {"D4", "command", "answer", "acknowledged", "failed"}

ControllerInit ==
  /\ plugged \in BOOLEAN /\ reporting = FALSE /\ answers = <<>>
  /\ ob = Empty /\ last = "other" /\ announced = FALSE /\ blocked = FALSE
  /\ inbuf = "none" /\ routed = FALSE
  /\ keys = 0 /\ reports = 0 /\ faults = 0
  /\ refused = FALSE /\ misrouted = FALSE
  /\ held = {} /\ notes = {}
  /\ cmd = "none" /\ step = "D4" /\ tries = MaxTries

\* Something goes wrong, within the bound.
Fault == faults < MaxFaults /\ faults' = faults + 1

----------------------------------------------------------------------------
(* The devices                                                             *)

Arrives(from, val) ==
  /\ ob = Empty
  /\ ob' = [from |-> from, val |-> val]
  /\ announced' = FALSE
  /\ UNCHANGED <<last, blocked>>

KeyPressed ==
  /\ keys < MaxKeys
  /\ Arrives("keyboard", "other")
  /\ keys' = keys + 1
  /\ UNCHANGED <<mouseVars, reports, bufferVars, faults, kernelVars, commandVars>>

MouseMoves(val) ==
  /\ reporting /\ answers = <<>> /\ reports < MaxReports
  /\ Arrives("mouse", val)
  /\ reports' = reports + 1
  /\ UNCHANGED <<mouseVars, keys, bufferVars, faults, kernelVars, commandVars>>

MouseAnswers ==
  /\ answers # <<>>
  /\ Arrives("mouse", Head(answers))
  /\ answers' = Tail(answers)
  /\ UNCHANGED <<plugged, reporting, refused, sentVars, bufferVars, faults, kernelVars,
                 commandVars>>

\* The controller takes the byte of its input buffer.
TakesD4 ==
  /\ inbuf = "D4"
  /\ inbuf' = "none" /\ routed' = TRUE
  /\ UNCHANGED <<deviceVars, misrouted, faults, kernelVars, commandVars>>

\* A command reaches the mouse, which does it or asks for it again; without a
\* 0xD4 before it the keyboard would take it for its own, and 0xF5 disables it.
TakesCommand ==
  /\ inbuf \in Commands
  /\ inbuf' = "none" /\ routed' = FALSE /\ misrouted' = (misrouted \/ ~routed)
  /\ \/ /\ plugged /\ routed
        /\ reporting' = (inbuf = "F4") /\ answers' = Append(answers, "FA")
        /\ UNCHANGED <<faults, refused>>
     \/ /\ plugged /\ routed /\ Fault
        /\ refused' = TRUE /\ answers' = Append(answers, "FE")
        /\ UNCHANGED reporting
     \/ /\ ~plugged \/ ~routed
        /\ UNCHANGED <<reporting, answers, faults, refused>>
  /\ UNCHANGED <<plugged, obVars, sentVars, kernelVars, commandVars>>

\* The interrupt of the byte in the output buffer, and the kernel's note of it.
Announce ==
  /\ ob # Empty /\ ~announced /\ ob.from \in held
  /\ announced' = TRUE
  /\ notes' = notes \cup {ob.from}
  /\ UNCHANGED <<mouseVars, ob, last, blocked, sentVars, bufferVars, faults, held, commandVars>>

DeviceStep ==
  \/ KeyPressed
  \/ \E val \in {"FA", "other"} : MouseMoves(val)
  \/ MouseAnswers
  \/ TakesD4 \/ TakesCommand
  \/ Announce

----------------------------------------------------------------------------
(* Reading port 0x60                                                       *)

Response == IF ob = Empty THEN last ELSE ob.val

ReadPort60 ==
  /\ ob' = Empty /\ last' = Response /\ blocked' = FALSE
  /\ UNCHANGED <<mouseVars, announced, sentVars>>

\* A port call of a handler fails, or the status says that the byte is bad; the
\* byte stays where it is.
ReadFails ==
  /\ Fault
  /\ blocked' = TRUE
  /\ UNCHANGED <<mouseVars, ob, last, announced, sentVars>>

\* kbc_ih, with no look at the device the byte is from.
KbcIhOfMouseOnly ==
  \/ /\ IF ob.from = "mouse" THEN ReadPort60 ELSE UNCHANGED deviceVars
     /\ UNCHANGED faults
  \/ ReadFails
KbcIh ==
  \/ /\ IF ob # Empty THEN ReadPort60 ELSE UNCHANGED deviceVars
     /\ UNCHANGED faults
  \/ ReadFails

\* mouse_ih.
MouseIh ==
  \/ /\ IF ob.from = "mouse" THEN ReadPort60 ELSE UNCHANGED deviceVars
     /\ UNCHANGED faults
  \/ ReadFails

----------------------------------------------------------------------------
(* mouse_command                                                           *)

CallMouseCommand(c) ==
  /\ cmd = "none"
  /\ cmd' = c /\ step' = "D4" /\ tries' = MaxTries
  /\ UNCHANGED <<deviceVars, bufferVars, faults, kernelVars>>

\* ibf_empty is true and 0xD4 is written to port 0x64.
WriteD4 ==
  /\ cmd # "none" /\ step = "D4" /\ inbuf = "none"
  /\ inbuf' = "D4" /\ step' = "command"
  /\ UNCHANGED <<deviceVars, routed, misrouted, faults, kernelVars, cmd, tries>>

\* ibf_empty is true and the command is written to port 0x60.
WriteCommandUnchecked ==
  /\ cmd # "none" /\ step = "command"
  /\ inbuf' = cmd /\ step' = "answer"
  /\ UNCHANGED <<deviceVars, routed, misrouted, faults, kernelVars, cmd, tries>>
WriteCommand ==
  /\ cmd # "none" /\ step = "command" /\ inbuf = "none"
  /\ inbuf' = cmd /\ step' = "answer"
  /\ UNCHANGED <<deviceVars, routed, misrouted, faults, kernelVars, cmd, tries>>

\* The attempt is over; the next one begins, or mouse_command returns 1.
NextTryUnbounded == step' = "D4" /\ tries' = tries - 1
NextTryUncounted == step' = "D4" /\ UNCHANGED tries
NextTry ==
  \/ tries > 1 /\ step' = "D4" /\ tries' = tries - 1
  \/ tries = 1 /\ step' = "failed" /\ tries' = 0

\* ibf_empty has found the input buffer full ten times, or a port call failed.
GiveUpTry ==
  /\ cmd # "none" /\ step \in {"D4", "command", "answer"}
  /\ \/ step # "answer" /\ inbuf # "none" /\ UNCHANGED faults
     \/ (step = "answer" => inbuf = "none") /\ Fault
  /\ NextTry
  /\ UNCHANGED <<deviceVars, bufferVars, kernelVars, cmd>>

\* The answer is read without a look at the status.  After the delay the command
\* has been taken, and the mouse has answered if there was room for its answer.
ReadAnswer ==
  /\ cmd # "none" /\ step = "answer"
  /\ inbuf = "none" /\ (answers # <<>> => ob # Empty)
  /\ ReadPort60
  /\ \/ Response = "FA" /\ step' = "acknowledged" /\ UNCHANGED tries
     \/ Response # "FA" /\ NextTry
  /\ UNCHANGED <<bufferVars, faults, kernelVars, cmd>>

MouseCommandStep == WriteD4 \/ WriteCommand \/ GiveUpTry \/ ReadAnswer

=============================================================================

-------------------------- MODULE LifecycleProofs ---------------------------
(***************************************************************************)
(* Proofs about Lifecycle, from one inductive invariant (LifeInv): where   *)
(* mouse_command stands (CommandInv), which lines are held at each place   *)
(* of setup and end (LineInv), and what the interrupts that wait are for   *)
(* (ByteInv).  One lemma for each action.                                  *)
(***************************************************************************)
EXTENDS Lifecycle, TLAPS

----------------------------------------------------------------------------
(* The calls of setup and end                                              *)

LEMMA Lengths == Len(Setup) = 9
BY DEF Setup

LEMMA SetupCalls ==
  /\ Setup[1] = "mouse_command" /\ Setup[2] = "mouse_subscribe_int" /\ Setup[3] = "timer_set_frequency"
  /\ Setup[4] = "setUpFrameBuffer" /\ Setup[5] = "set_graphic_mode" /\ Setup[6] = "keyboard_subscribe_int"
  /\ Setup[7] = "timer_subscribe" /\ Setup[8] = "rtc_subscribe_interrupts" /\ Setup[9] = "initialize_sprites"
BY DEF Setup

LEMMA EndCalls ==
  /\ End[1] = "destroy_sprites" /\ End[2] = "keyboard_unsubscribe_int" /\ End[3] = "timer_unsubscribe_int"
  /\ End[4] = "vg_exit" /\ End[5] = "rtc_unsubscribe_interrupts" /\ End[6] = "mouse_unsubscribe_int"
  /\ End[7] = "mouse_command"
BY DEF End

LEMMA LineNames ==
  /\ DOMAIN Line = {"mouse_subscribe_int", "keyboard_subscribe_int", "timer_subscribe",
                    "rtc_subscribe_interrupts", "mouse_unsubscribe_int", "keyboard_unsubscribe_int",
                    "timer_unsubscribe_int", "rtc_unsubscribe_interrupts"}
  /\ Line["mouse_subscribe_int"] = "mouse" /\ Line["keyboard_subscribe_int"] = "keyboard"
  /\ Line["timer_subscribe"] = "timer" /\ Line["rtc_subscribe_interrupts"] = "rtc"
  /\ Line["mouse_unsubscribe_int"] = "mouse" /\ Line["keyboard_unsubscribe_int"] = "keyboard"
  /\ Line["timer_unsubscribe_int"] = "timer" /\ Line["rtc_unsubscribe_interrupts"] = "rtc"
BY DEF Line

\* The line subscribed at a place of setup.
LEMMA Subscribed ==
  ASSUME at \in 1..9, NEW call \in DOMAIN Line, InSetup(call)
  PROVE  /\ at \in {2, 6, 7, 8} /\ Line[call] \in Lines
         /\ Line[call] = "rtc" => at = 8
BY SetupCalls, LineNames DEF InSetup, Lines

\* The line released at a place of end.
LEMMA Released ==
  ASSUME at \in 1..7, NEW call \in DOMAIN Line, InEnd(call)
  PROVE  \/ at = 2 /\ Line[call] = "keyboard"
         \/ at = 3 /\ Line[call] = "timer"
         \/ at = 5 /\ Line[call] = "rtc"
         \/ at = 6 /\ Line[call] = "mouse"
BY EndCalls, LineNames DEF InEnd

----------------------------------------------------------------------------
(* The invariant                                                           *)

\* mouse_command runs where it is called.  A command is in the input buffer only
\* behind a 0xD4 and while its answer is waited for; once it is taken, the mouse
\* has done it or has refused.
CommandInv ==
  /\ cmd = "none" => step = "D4"
  /\ cmd # "none" => (phase = "setup" /\ at = 1 /\ cmd = "F4") \/ (phase = "end" /\ at = 7 /\ cmd = "F5")
  /\ inbuf \in Commands => routed /\ step = "answer" /\ inbuf = cmd
  /\ step = "command" => inbuf = "D4" \/ (inbuf = "none" /\ routed)
  /\ step = "answer" => inbuf \in {"none", cmd}
  /\ step = "acknowledged" => inbuf = "none"
  /\ step \in {"answer", "acknowledged"} /\ inbuf = "none" /\ plugged /\ ~refused => (reporting <=> cmd = "F4")
  /\ reporting => plugged
  /\ ~misrouted

\* The lines held at each place of setup and end.  The line of the real-time clock
\* is the last to be subscribed, and nothing after it can fail.
LineInv ==
  /\ notes \subseteq held
  /\ phase # "loop" => pending = {}
  /\ phase \in {"exited", "crashed"} => held = {}
  /\ phase = "setup" => (at <= 2 => held = {}) /\ (at <= 8 => "rtc" \notin held)
  /\ phase \in {"loop", "end"} /\ "rtc" \in held => ready
  /\ phase = "end" =>
       /\ at <= 7
       /\ at > 2 => "keyboard" \notin held
       /\ at > 3 => "timer" \notin held
       /\ at > 4 => ~graphics
       /\ at > 5 => "rtc" \notin held /\ ready
       /\ at > 6 => "mouse" \notin held

\* An interrupt that waits to be handled is for the byte in the output buffer, and
\* there is no second one for it.
ByteInv ==
  \A line \in Devices :
    /\ line \in notes \cup pending => ob.from = line /\ announced
    /\ line \notin notes \cap pending

\* The flags, and all the rest of TypeOK.
Flags ==
  /\ plugged \in BOOLEAN /\ reporting \in BOOLEAN /\ announced \in BOOLEAN /\ blocked \in BOOLEAN
  /\ routed \in BOOLEAN /\ refused \in BOOLEAN /\ misrouted \in BOOLEAN
  /\ leaving \in BOOLEAN /\ graphics \in BOOLEAN /\ ready \in BOOLEAN

DeviceTypes ==
  /\ answers \in Seq(Values) /\ ob \in Byte \cup {Empty} /\ last \in Values
  /\ inbuf \in Commands \cup {"none", "D4"}
  /\ keys \in 0..MaxKeys /\ reports \in 0..MaxReports /\ faults \in 0..MaxFaults
  /\ cmd \in Commands \cup {"none"} /\ step \in Steps /\ tries \in 0..MaxTries

ProgramTypes ==
  /\ held \subseteq Lines /\ notes \subseteq Lines /\ pending \subseteq Lines
  /\ phase \in {"setup", "loop", "end", "exited", "crashed"}
  /\ at \in 1..9 /\ sprites \in [Groups -> -1..1] /\ status \in {-1, 0, 1} /\ runs \in 1..MaxRuns

Types == Flags /\ DeviceTypes /\ ProgramTypes

LEMMA TypesAreTypeOK == Types <=> TypeOK
BY Lengths DEF Types, Flags, DeviceTypes, ProgramTypes, TypeOK

LifeInv == Types /\ CommandInv /\ LineInv /\ ByteInv /\ CleanExit

LEMMA LifeInitially == Init => LifeInv
<1> SUFFICES ASSUME Init  PROVE LifeInv
  OBVIOUS
<1> USE DEF Init, ControllerInit
<1>1. Flags
  BY Zenon DEF Flags
<1>2. DeviceTypes
  BY ControllerAssumption DEF DeviceTypes, Values, Steps
<1>3. ProgramTypes
  BY RunsAssumption DEF ProgramTypes
<1>4. CommandInv
  BY DEF CommandInv, Commands
<1>5. LineInv
  BY DEF LineInv
<1>6. ByteInv
  BY DEF ByteInv
<1>7. CleanExit
  BY DEF CleanExit
<1> QED  BY <1>1, <1>2, <1>3, <1>4, <1>5, <1>6, <1>7 DEF LifeInv, Types

----------------------------------------------------------------------------
(* The devices                                                             *)

\* A byte arrives, for which no interrupt waits yet.
LEMMA ArriveStep ==
  ASSUME LifeInv, NEW from \in Devices, NEW val \in Values, Arrives(from, val),
         UNCHANGED <<kernelVars, programVars>>
  PROVE  /\ ob' \in Byte \cup {Empty} /\ last' \in Values /\ announced' \in BOOLEAN /\ blocked' \in BOOLEAN
         /\ ByteInv'
<1>1. ob' \in Byte /\ last' = last /\ blocked' = blocked /\ announced' = FALSE
  BY DEF Arrives, Byte
<1>2. announced' \in BOOLEAN /\ blocked' \in BOOLEAN
  BY <1>1, Zenon DEF LifeInv, Types, Flags
<1>3. ob.from \notin Devices
  BY DEF Arrives, Empty, Devices
<1>4. \A line \in Devices : line \notin notes \cup pending
  BY <1>3 DEF LifeInv, ByteInv
<1>5. ByteInv'
  BY <1>4 DEF ByteInv, kernelVars, programVars
<1> QED  BY <1>1, <1>2, <1>5 DEF LifeInv, Types, DeviceTypes

LEMMA KeyPressedStep ==
  ASSUME LifeInv, KeyPressed, UNCHANGED programVars
  PROVE  LifeInv'
<1> USE DEF KeyPressed, mouseVars, bufferVars, kernelVars, commandVars, programVars
<1>1. /\ ob' \in Byte \cup {Empty} /\ last' \in Values /\ announced' \in BOOLEAN /\ blocked' \in BOOLEAN
      /\ ByteInv'
  BY ArriveStep DEF Devices, Values
<1>2. keys' \in 0..MaxKeys
  BY ControllerAssumption DEF LifeInv, Types, DeviceTypes
<1>3. Flags'
  BY <1>1, Zenon DEF LifeInv, Types, Flags
<1>4. DeviceTypes'
  BY <1>1, <1>2 DEF LifeInv, Types, DeviceTypes
<1>5. ProgramTypes'
  BY DEF LifeInv, Types, ProgramTypes
<1>6. CommandInv'
  BY DEF LifeInv, CommandInv
<1>7. LineInv'
  BY DEF LifeInv, LineInv
<1>8. CleanExit'
  BY DEF LifeInv, CleanExit
<1> QED  BY <1>1, <1>3, <1>4, <1>5, <1>6, <1>7, <1>8 DEF LifeInv, Types

LEMMA MouseMovesStep ==
  ASSUME LifeInv, NEW val \in {"FA", "other"}, MouseMoves(val), UNCHANGED programVars
  PROVE  LifeInv'
<1> USE DEF MouseMoves, mouseVars, bufferVars, kernelVars, commandVars, programVars
<1>1. /\ ob' \in Byte \cup {Empty} /\ last' \in Values /\ announced' \in BOOLEAN /\ blocked' \in BOOLEAN
      /\ ByteInv'
  BY ArriveStep DEF Devices, Values
<1>2. reports' \in 0..MaxReports
  BY ControllerAssumption DEF LifeInv, Types, DeviceTypes
<1>3. Flags'
  BY <1>1, Zenon DEF LifeInv, Types, Flags
<1>4. DeviceTypes'
  BY <1>1, <1>2 DEF LifeInv, Types, DeviceTypes
<1>5. ProgramTypes'
  BY DEF LifeInv, Types, ProgramTypes
<1>6. CommandInv'
  BY DEF LifeInv, CommandInv
<1>7. LineInv'
  BY DEF LifeInv, LineInv
<1>8. CleanExit'
  BY DEF LifeInv, CleanExit
<1> QED  BY <1>1, <1>3, <1>4, <1>5, <1>6, <1>7, <1>8 DEF LifeInv, Types

LEMMA MouseAnswersStep ==
  ASSUME LifeInv, MouseAnswers, UNCHANGED programVars
  PROVE  LifeInv'
<1> USE DEF MouseAnswers, mouseVars, sentVars, bufferVars, kernelVars, commandVars, programVars
<1>0. answers \in Seq(Values) /\ Head(answers) \in Values /\ Tail(answers) \in Seq(Values)
  BY DEF LifeInv, Types, DeviceTypes
<1>1. /\ ob' \in Byte \cup {Empty} /\ last' \in Values /\ announced' \in BOOLEAN /\ blocked' \in BOOLEAN
      /\ ByteInv'
  BY <1>0, ArriveStep DEF Devices
<1>3. Flags'
  BY <1>1, Zenon DEF LifeInv, Types, Flags
<1>4. DeviceTypes'
  BY <1>0, <1>1 DEF LifeInv, Types, DeviceTypes
<1>5. ProgramTypes'
  BY DEF LifeInv, Types, ProgramTypes
<1>6. CommandInv'
  BY DEF LifeInv, CommandInv
<1>7. LineInv'
  BY DEF LifeInv, LineInv
<1>8. CleanExit'
  BY DEF LifeInv, CleanExit
<1> QED  BY <1>1, <1>3, <1>4, <1>5, <1>6, <1>7, <1>8 DEF LifeInv, Types

LEMMA TakesStep ==
  ASSUME LifeInv, TakesD4 \/ TakesCommand, UNCHANGED programVars
  PROVE  LifeInv'
<1> USE DEF LifeInv, Types, TakesD4, TakesCommand, Fault, deviceVars, mouseVars, sentVars, obVars,
            kernelVars, commandVars, programVars
<1>1. Flags'
  <2>1. CASE TakesD4
    BY <2>1, Zenon DEF Flags
  <2>2. CASE TakesCommand
    BY <2>2, Zenon DEF Flags
  <2> QED  BY <2>1, <2>2
<1>2. answers' \in Seq(Values)
  <2>1. answers' = answers \/ \E v \in Values : answers' = Append(answers, v)
    BY DEF Values
  <2>2. answers \in Seq(Values)
    BY DEF DeviceTypes
  <2> QED  BY <2>1, <2>2
<1>3. faults' \in 0..MaxFaults
  BY ControllerAssumption DEF DeviceTypes
<1>4. DeviceTypes'
  BY <1>2, <1>3 DEF DeviceTypes
<1>5. ProgramTypes'
  BY DEF ProgramTypes
<1>6. CommandInv'
  <2>1. CASE TakesD4
    BY <2>1 DEF CommandInv, Commands
  <2>2. CASE TakesCommand
    <3>1. inbuf \in Commands /\ inbuf = cmd /\ step = "answer" /\ routed /\ ~misrouted /\ cmd # "none"
      BY <2>2 DEF CommandInv, Commands
    <3>2. ~misrouted'
      BY <2>2, <3>1, Zenon
    <3>3. inbuf' = "none" /\ cmd' = cmd /\ step' = step /\ plugged' = plugged /\ phase' = phase /\ at' = at
      BY <2>2
    <3>4. \/ plugged /\ (reporting' <=> cmd = "F4")
          \/ plugged /\ refused'
          \/ ~plugged /\ reporting' = reporting
      BY <2>2, <3>1, Zenon
    <3>5. reporting => plugged
      BY Zenon DEF CommandInv
    <3>6. plugged' /\ ~refused' => (reporting' <=> cmd' = "F4")
      BY <3>3, <3>4, Zenon
    <3>7. reporting' => plugged'
      BY <3>3, <3>4, <3>5, Zenon
    <3> QED  BY <3>1, <3>2, <3>3, <3>6, <3>7 DEF CommandInv, Commands
  <2> QED  BY <2>1, <2>2
<1>7. LineInv'
  BY DEF LineInv
<1>8. ByteInv'
  BY DEF ByteInv
<1>9. CleanExit'
  BY DEF CommandInv, CleanExit
<1> QED  BY <1>1, <1>4, <1>5, <1>6, <1>7, <1>8, <1>9

LEMMA AnnounceStep ==
  ASSUME LifeInv, Announce, UNCHANGED programVars
  PROVE  LifeInv'
<1> USE DEF LifeInv, Types, Announce, mouseVars, sentVars, bufferVars, commandVars, programVars
<1>1. Flags'
  BY Zenon DEF Flags
<1>2. DeviceTypes'
  BY DEF DeviceTypes
<1>3. ProgramTypes'
  BY DEF ProgramTypes
<1>4. CommandInv'
  BY DEF CommandInv
<1>5. LineInv'
  BY DEF LineInv
<1>6. ByteInv'
  BY DEF ByteInv
<1>7. CleanExit'
  BY DEF CleanExit
<1> QED  BY <1>1, <1>2, <1>3, <1>4, <1>5, <1>6, <1>7

----------------------------------------------------------------------------
(* mouse_command                                                           *)

\* What a read of port 0x60 gives.
LEMMA PortRead ==
  ASSUME Types, ReadPort60
  PROVE  /\ ob' \in Byte \cup {Empty} /\ last' \in Values /\ announced' \in BOOLEAN /\ blocked' \in BOOLEAN
         /\ UNCHANGED <<plugged, reporting, answers, refused, keys, reports>>
<1>1. Response \in Values
  BY DEF Response, Types, DeviceTypes, Byte
<1>2. announced' \in BOOLEAN /\ blocked' \in BOOLEAN
  BY Zenon DEF ReadPort60, Types, Flags
<1> QED  BY <1>1, <1>2 DEF ReadPort60, mouseVars, sentVars

\* While mouse_command runs no interrupt waits to be handled.
LEMMA NothingWaits ==
  ASSUME LifeInv, cmd # "none"
  PROVE  \A line \in Devices : line \notin notes \cup pending
<1>1. (phase = "setup" /\ at = 1) \/ (phase = "end" /\ at = 7)
  BY DEF LifeInv, CommandInv
<1>2. pending = {} /\ notes \subseteq held
  BY <1>1 DEF LifeInv, LineInv
<1>3. \A line \in Devices : line \notin held
  BY <1>1 DEF LifeInv, LineInv, Devices
<1> QED  BY <1>2, <1>3

LEMMA TriesType ==
  ASSUME Types, NextTry
  PROVE  step' \in Steps /\ tries' \in 0..MaxTries /\ step' \in {"D4", "failed"}
BY ControllerAssumption DEF Types, DeviceTypes, NextTry, Steps

LEMMA CallStep ==
  ASSUME LifeInv, UNCHANGED programVars,
         (InSetup("mouse_command") /\ CallMouseCommand("F4"))
           \/ (InEnd("mouse_command") /\ CallMouseCommand("F5"))
  PROVE  LifeInv'
<1> USE DEF LifeInv, Types, CallMouseCommand, deviceVars, mouseVars, sentVars, obVars, bufferVars,
            kernelVars, programVars
<1>1. Flags'
  BY Zenon DEF Flags
<1>2. DeviceTypes'
  BY ControllerAssumption DEF DeviceTypes, Steps, Commands
<1>3. ProgramTypes'
  BY DEF ProgramTypes
<1>4. CommandInv'
  <2>0. (phase = "setup" /\ at = 1 /\ cmd' = "F4") \/ (phase = "end" /\ at = 7 /\ cmd' = "F5")
    BY SetupCalls, EndCalls DEF InSetup, InEnd, ProgramTypes, LineInv
  <2>1. inbuf \notin Commands
    BY DEF CommandInv, Commands
  <2>2. step' = "D4" /\ inbuf' = inbuf /\ misrouted' = misrouted /\ reporting' = reporting /\ plugged' = plugged
    OBVIOUS
  <2>3. ~misrouted' /\ (reporting' => plugged')
    BY <2>2, Zenon DEF CommandInv
  <2> QED  BY <2>0, <2>1, <2>2, <2>3 DEF CommandInv
<1>5. LineInv'
  BY DEF LineInv
<1>6. ByteInv'
  BY DEF ByteInv
<1>7. CleanExit'
  BY DEF CleanExit
<1> QED  BY <1>1, <1>2, <1>3, <1>4, <1>5, <1>6, <1>7

LEMMA WriteStep ==
  ASSUME LifeInv, WriteD4 \/ WriteCommand, UNCHANGED programVars
  PROVE  LifeInv'
<1> USE DEF LifeInv, Types, WriteD4, WriteCommand, deviceVars, mouseVars, sentVars, obVars, bufferVars,
            kernelVars, programVars
<1>1. Flags'
  BY Zenon DEF Flags
<1>2. DeviceTypes'
  BY DEF DeviceTypes, Steps
<1>3. ProgramTypes'
  BY DEF ProgramTypes
<1>4. CommandInv'
  <2>1. CASE WriteD4
    BY <2>1 DEF CommandInv, Commands
  <2>2. CASE WriteCommand
    BY <2>2 DEF CommandInv, Commands, DeviceTypes
  <2> QED  BY <2>1, <2>2
<1>5. LineInv'
  BY DEF LineInv
<1>6. ByteInv'
  BY DEF ByteInv
<1>7. CleanExit'
  BY DEF CleanExit
<1> QED  BY <1>1, <1>2, <1>3, <1>4, <1>5, <1>6, <1>7

LEMMA GiveUpStep ==
  ASSUME LifeInv, GiveUpTry, UNCHANGED programVars
  PROVE  LifeInv'
<1> USE DEF LifeInv, Types, GiveUpTry, Fault, deviceVars, mouseVars, sentVars, obVars, bufferVars,
            kernelVars, programVars
<1>0. step' \in Steps /\ tries' \in 0..MaxTries /\ step' \in {"D4", "failed"}
  BY TriesType
<1>1. Flags'
  BY Zenon DEF Flags
<1>2. DeviceTypes'
  <2>1. faults' \in 0..MaxFaults
    BY ControllerAssumption DEF DeviceTypes
  <2> QED  BY <1>0, <2>1 DEF DeviceTypes
<1>3. ProgramTypes'
  BY DEF ProgramTypes
<1>4. CommandInv'
  <2>1. inbuf \notin Commands
    BY DEF CommandInv, Commands
  <2> QED  BY <1>0, <2>1 DEF CommandInv
<1>5. LineInv'
  BY DEF LineInv
<1>6. ByteInv'
  BY DEF ByteInv
<1>7. CleanExit'
  BY DEF CleanExit
<1> QED  BY <1>1, <1>2, <1>3, <1>4, <1>5, <1>6, <1>7

LEMMA ReadAnswerStep ==
  ASSUME LifeInv, ReadAnswer, UNCHANGED programVars
  PROVE  LifeInv'
<1> USE DEF LifeInv, Types, ReadAnswer, bufferVars, kernelVars, programVars
<1>0. step' \in {"acknowledged", "D4", "failed"} /\ step' \in Steps /\ tries' \in 0..MaxTries
  BY TriesType DEF Steps, DeviceTypes
<1>r. /\ ob' \in Byte \cup {Empty} /\ last' \in Values /\ announced' \in BOOLEAN /\ blocked' \in BOOLEAN
      /\ UNCHANGED <<plugged, reporting, answers, refused, keys, reports>>
  BY PortRead
<1>1. Flags'
  BY <1>r, Zenon DEF Flags
<1>2. DeviceTypes'
  BY <1>0, <1>r DEF DeviceTypes
<1>3. ProgramTypes'
  BY DEF ProgramTypes
<1>4. CommandInv'
  BY <1>0, <1>r DEF CommandInv, Commands
<1>5. LineInv'
  BY DEF LineInv
<1>6. ByteInv'
  BY NothingWaits DEF ByteInv
<1>7. CleanExit'
  BY <1>r DEF CleanExit
<1> QED  BY <1>1, <1>2, <1>3, <1>4, <1>5, <1>6, <1>7

LEMMA ReturnStep ==
  ASSUME LifeInv, MouseCommandReturns
  PROVE  LifeInv'
<1> USE DEF LifeInv, Types, MouseCommandReturns, deviceVars, mouseVars, sentVars, obVars, bufferVars,
            kernelVars
<1>0. /\ cmd # "none"
      /\ (phase = "setup" /\ at = 1 /\ cmd = "F4") \/ (phase = "end" /\ at = 7 /\ cmd = "F5")
  BY DEF CommandInv
<1>h. held = {} /\ notes = {} /\ pending = {}
  BY <1>0 DEF LineInv, ProgramTypes, Lines
<1>s. \/ phase = "setup" /\ phase' \in {"setup", "loop"} /\ at' \in {1, 2} /\ UNCHANGED <<sprites, graphics, status>>
      \/ phase = "end" /\ phase' = "exited" /\ status' \in {0, 1} /\ UNCHANGED <<at, ready, sprites, graphics>>
  BY <1>0, Lengths DEF Passed, SetupFails
<1>1. Flags'
  <2>1. ready' \in BOOLEAN
    BY Zenon DEF Passed, SetupFails, Flags
  <2>2. graphics' = graphics
    BY <1>s
  <2> QED  BY <2>1, <2>2, Zenon DEF Flags
<1>2. DeviceTypes'
  BY ControllerAssumption DEF DeviceTypes, Steps
<1>3. ProgramTypes'
  BY <1>s DEF ProgramTypes
<1>4. CommandInv'
  <2>1. inbuf \notin Commands
    BY DEF CommandInv, Commands
  <2>2. cmd' = "none" /\ step' = "D4" /\ inbuf' = inbuf /\ ~misrouted' /\ (reporting' => plugged')
    BY Zenon DEF CommandInv
  <2> QED  BY <2>1, <2>2 DEF CommandInv
<1>5. LineInv'
  <2>1. held' = {} /\ notes' = {} /\ pending' = {}
    BY <1>h
  <2> QED  BY <1>s, <2>1 DEF LineInv
<1>6. ByteInv'
  BY <1>h DEF ByteInv
<1>7. CleanExit'
  <2> SUFFICES ASSUME phase' = "exited", status' = 0
               PROVE  ready' /\ held' = {} /\ ~graphics' /\ (reporting' => refused')
    BY DEF CleanExit
  <2>1. phase = "end" /\ at = 7 /\ cmd = "F5" /\ step # "failed" /\ ready' = ready /\ graphics' = graphics
    BY <1>0, <1>s
  <2>2. step = "acknowledged" /\ held' = held /\ reporting' = reporting /\ refused' = refused
    BY <2>1
  <2>3. ready /\ ~graphics
    BY <2>1 DEF LineInv
  <2>4. reporting => refused
    BY <2>1, <2>2 DEF CommandInv
  <2>5. ready' /\ ~graphics'
    BY <2>1, <2>3
  <2>6. reporting' => refused'
    BY <2>2, <2>4
  <2> QED  BY <1>h, <2>2, <2>5, <2>6
<1> QED  BY <1>1, <1>2, <1>3, <1>4, <1>5, <1>6, <1>7

----------------------------------------------------------------------------
(* setup                                                                   *)

\* Past a call of setup that is neither the first nor the last.
LEMMA PassedOn ==
  ASSUME at \in 2..8, Passed
  PROVE  at' = at + 1 /\ phase' = "setup" /\ ready' = FALSE
<1>1. at # Len(Setup)
  BY Lengths
<1> QED  BY <1>1 DEF Passed

LEMMA SubscribeStep ==
  ASSUME LifeInv, Subscribe
  PROVE  LifeInv'
<1> USE DEF LifeInv, Types, Subscribe, deviceVars, mouseVars, sentVars, obVars, bufferVars, commandVars
<1>0. PICK call \in DOMAIN Line : InSetup(call) /\ held' = held \cup {Line[call]}
  OBVIOUS
<1>s. phase = "setup" /\ at \in {2, 6, 7, 8} /\ Line[call] \in Lines /\ (Line[call] = "rtc" => at = 8)
  BY <1>0, Subscribed DEF ProgramTypes, InSetup
<1>p. at' = at + 1 /\ phase' = "setup" /\ ready' = FALSE
  <2>1. at \in 2..8 /\ Passed
    BY <1>s
  <2> QED  BY <2>1, PassedOn, Zenon
<1>c. cmd = "none" /\ step = "D4" /\ inbuf \notin Commands
  BY <1>s DEF CommandInv, Commands
<1>1. Flags'
  BY <1>p, Zenon DEF Flags
<1>2. DeviceTypes'
  BY DEF DeviceTypes
<1>3. ProgramTypes'
  BY <1>0, <1>s, <1>p DEF ProgramTypes
<1>4. CommandInv'
  BY <1>c DEF CommandInv
<1>5. LineInv'
  BY <1>0, <1>s, <1>p DEF LineInv
<1>6. ByteInv'
  BY DEF ByteInv
<1>7. CleanExit'
  BY <1>p DEF CleanExit
<1> QED  BY <1>1, <1>2, <1>3, <1>4, <1>5, <1>6, <1>7

LEMMA ConfigureStep ==
  ASSUME LifeInv, Configure
  PROVE  LifeInv'
<1> USE DEF LifeInv, Types, Configure, controllerVars, deviceVars, mouseVars, sentVars, obVars, bufferVars,
            kernelVars, commandVars
<1>s. phase = "setup" /\ at \in {3, 4, 5}
  BY SetupCalls DEF InSetup, ProgramTypes
<1>p. at' = at + 1 /\ phase' = "setup" /\ ready' = FALSE
  <2>1. at \in 2..8 /\ Passed
    BY <1>s
  <2> QED  BY <2>1, PassedOn, Zenon
<1>c. cmd = "none" /\ step = "D4" /\ inbuf \notin Commands
  BY <1>s DEF CommandInv, Commands
<1>1. Flags'
  <2>1. graphics' \in BOOLEAN
    BY Zenon DEF Flags
  <2> QED  BY <1>p, <2>1, Zenon DEF Flags
<1>2. DeviceTypes'
  BY DEF DeviceTypes
<1>3. ProgramTypes'
  BY <1>s, <1>p DEF ProgramTypes
<1>4. CommandInv'
  BY <1>c DEF CommandInv
<1>5. LineInv'
  BY <1>s, <1>p DEF LineInv
<1>6. ByteInv'
  BY DEF ByteInv
<1>7. CleanExit'
  BY <1>p DEF CleanExit
<1> QED  BY <1>1, <1>2, <1>3, <1>4, <1>5, <1>6, <1>7

LEMMA InitializeStep ==
  ASSUME LifeInv, InitializeSprites
  PROVE  LifeInv'
<1> USE DEF LifeInv, Types, InitializeSprites, controllerVars, deviceVars, mouseVars, sentVars, obVars,
            bufferVars, kernelVars, commandVars
<1>s. phase = "setup" /\ at = 9
  BY SetupCalls DEF InSetup, ProgramTypes
<1>p. at' = 1 /\ phase' = "loop" /\ ready' = TRUE
  BY <1>s, Lengths DEF Passed
<1>c. cmd = "none" /\ step = "D4" /\ inbuf \notin Commands
  BY <1>s DEF CommandInv, Commands
<1>1. Flags'
  BY <1>p, Zenon DEF Flags
<1>2. DeviceTypes'
  BY DEF DeviceTypes
<1>3. ProgramTypes'
  BY <1>s, <1>p DEF ProgramTypes
<1>4. CommandInv'
  BY <1>c DEF CommandInv
<1>5. LineInv'
  BY <1>s, <1>p DEF LineInv
<1>6. ByteInv'
  BY DEF ByteInv
<1>7. CleanExit'
  BY <1>p DEF CleanExit
<1> QED  BY <1>1, <1>2, <1>3, <1>4, <1>5, <1>6, <1>7

LEMMA SetupFailsStep ==
  ASSUME LifeInv, SetupCallFails
  PROVE  LifeInv'
<1> USE DEF LifeInv, Types, SetupCallFails, SetupFails, Fault, deviceVars, mouseVars, sentVars, obVars,
            bufferVars, kernelVars, commandVars
<1>s. phase = "setup" /\ at \in 2..8
  BY SetupCalls DEF ProgramTypes
<1>c. cmd = "none" /\ step = "D4" /\ inbuf \notin Commands
  BY <1>s DEF CommandInv, Commands
<1>1. Flags'
  BY Zenon DEF Flags
<1>2. DeviceTypes'
  <2>1. faults' \in 0..MaxFaults
    BY ControllerAssumption DEF DeviceTypes
  <2> QED  BY <2>1 DEF DeviceTypes
<1>3. ProgramTypes'
  BY <1>s DEF ProgramTypes
<1>4. CommandInv'
  BY <1>c DEF CommandInv
<1>5. LineInv'
  BY <1>s DEF LineInv
<1>6. ByteInv'
  BY DEF ByteInv
<1>7. CleanExit'
  BY DEF CleanExit
<1> QED  BY <1>1, <1>2, <1>3, <1>4, <1>5, <1>6, <1>7

----------------------------------------------------------------------------
(* The loop                                                                *)

LEMMA TickStep ==
  ASSUME LifeInv, Tick
  PROVE  LifeInv'
<1> USE DEF LifeInv, Types, Tick, deviceVars, mouseVars, sentVars, obVars, bufferVars, commandVars,
            programVars
<1>1. Flags'
  BY Zenon DEF Flags
<1>2. DeviceTypes'
  BY DEF DeviceTypes
<1>3. ProgramTypes'
  BY DEF ProgramTypes
<1>4. CommandInv'
  BY DEF CommandInv
<1>5. LineInv'
  BY DEF LineInv
<1>6. ByteInv'
  BY DEF ByteInv, Devices
<1>7. CleanExit'
  BY DEF CleanExit
<1> QED  BY <1>1, <1>2, <1>3, <1>4, <1>5, <1>6, <1>7

LEMMA ReceiveStep ==
  ASSUME LifeInv, Receive
  PROVE  LifeInv'
<1> USE DEF LifeInv, Types, Receive, deviceVars, mouseVars, sentVars, obVars, bufferVars, commandVars
<1>1. Flags'
  BY Zenon DEF Flags
<1>2. DeviceTypes'
  BY DEF DeviceTypes
<1>3. ProgramTypes'
  BY DEF ProgramTypes
<1>4. CommandInv'
  BY DEF CommandInv
<1>5. LineInv'
  BY DEF LineInv
<1>6. ByteInv'
  BY DEF ByteInv
<1>7. CleanExit'
  BY DEF CleanExit
<1> QED  BY <1>1, <1>2, <1>3, <1>4, <1>5, <1>6, <1>7

\* A handler of either device: the byte is read, or it stays.
LEMMA HandlerCalled ==
  ASSUME Types, KbcIh \/ MouseIh
  PROVE  /\ ob' \in Byte \cup {Empty} /\ last' \in Values /\ announced' \in BOOLEAN /\ blocked' \in BOOLEAN
         /\ faults' \in 0..MaxFaults
         /\ UNCHANGED <<plugged, reporting, answers, refused, keys, reports>>
         /\ announced' = announced /\ ob' \in {ob, Empty}
<1>1. CASE ReadPort60 /\ UNCHANGED faults
  BY <1>1, PortRead DEF ReadPort60, Types, DeviceTypes
<1>2. CASE UNCHANGED deviceVars /\ UNCHANGED faults
  BY <1>2 DEF Types, Flags, DeviceTypes, deviceVars, mouseVars, sentVars, obVars
<1>3. CASE ReadFails
  <2>1. faults' \in 0..MaxFaults
    BY <1>3, ControllerAssumption DEF ReadFails, Fault, Types, DeviceTypes
  <2>2. announced' \in BOOLEAN /\ blocked' \in BOOLEAN
    BY <1>3, Zenon DEF ReadFails, Types, Flags
  <2> QED  BY <1>3, <2>1, <2>2 DEF ReadFails, Types, DeviceTypes, mouseVars, sentVars
<1> QED  BY <1>1, <1>2, <1>3 DEF KbcIh, MouseIh

LEMMA KeyStep ==
  ASSUME LifeInv, KeyHandler
  PROVE  LifeInv'
<1> USE DEF LifeInv, Types, KeyHandler, bufferVars, kernelVars, commandVars
<1>0. /\ ob' \in Byte \cup {Empty} /\ last' \in Values /\ announced' \in BOOLEAN /\ blocked' \in BOOLEAN
      /\ faults' \in 0..MaxFaults
      /\ UNCHANGED <<plugged, reporting, answers, refused, keys, reports>>
  BY HandlerCalled
<1>1. Flags'
  BY <1>0, Zenon DEF Flags
<1>2. DeviceTypes'
  BY <1>0 DEF DeviceTypes
<1>3. ProgramTypes'
  BY DEF ProgramTypes
<1>4. CommandInv'
  BY <1>0 DEF CommandInv
<1>5. LineInv'
  BY DEF LineInv
<1>6. ByteInv'
  <2>1. ob.from = "keyboard" /\ \A line \in Devices : line \notin notes /\ line \notin pending'
    BY DEF ByteInv, Devices
  <2> QED  BY <2>1 DEF ByteInv
<1>7. CleanExit'
  BY <1>0 DEF CleanExit
<1> QED  BY <1>1, <1>2, <1>3, <1>4, <1>5, <1>6, <1>7

LEMMA UpdateTimerStep ==
  ASSUME LifeInv, UpdateTimer
  PROVE  LifeInv'
<1> USE DEF LifeInv, Types, UpdateTimer, UseSprites, deviceVars, mouseVars, sentVars, obVars, bufferVars,
            kernelVars, commandVars
<1>c. cmd = "none" /\ step = "D4" /\ inbuf \notin Commands
  BY DEF CommandInv, Commands
<1>1. Flags'
  BY Zenon DEF Flags
<1>2. DeviceTypes'
  BY DEF DeviceTypes
<1>3. ProgramTypes'
  BY DEF ProgramTypes
<1>4. CommandInv'
  BY <1>c DEF CommandInv
<1>5. LineInv'
  BY DEF LineInv
<1>6. ByteInv'
  BY DEF ByteInv
<1>7. CleanExit'
  BY DEF CleanExit
<1> QED  BY <1>1, <1>2, <1>3, <1>4, <1>5, <1>6, <1>7

LEMMA UpdateMouseStep ==
  ASSUME LifeInv, UpdateMouse
  PROVE  LifeInv'
<1> USE DEF LifeInv, Types, UpdateMouse, UseSprites, bufferVars, kernelVars, commandVars
<1>0. /\ ob' \in Byte \cup {Empty} /\ last' \in Values /\ announced' \in BOOLEAN /\ blocked' \in BOOLEAN
      /\ faults' \in 0..MaxFaults
      /\ UNCHANGED <<plugged, reporting, answers, refused, keys, reports>>
  BY HandlerCalled
<1>c. cmd = "none" /\ step = "D4" /\ inbuf \notin Commands
  BY DEF CommandInv, Commands
<1>s. /\ pending' = {} /\ phase' \in {"loop", "crashed"}
      /\ (held' = held /\ notes' = notes /\ phase' = phase) \/ (held' = {} /\ notes' = {})
  OBVIOUS
<1>1. Flags'
  BY <1>0, Zenon DEF Flags
<1>2. DeviceTypes'
  BY <1>0 DEF DeviceTypes
<1>3. ProgramTypes'
  BY <1>s DEF ProgramTypes
<1>4. CommandInv'
  BY <1>0, <1>c DEF CommandInv
<1>5. LineInv'
  BY <1>s DEF LineInv
<1>6. ByteInv'
  <2>1. ob.from = "mouse" /\ \A line \in Devices : line \notin notes
    BY DEF ByteInv, Devices
  <2> QED  BY <1>s, <2>1 DEF ByteInv
<1>7. CleanExit'
  BY <1>s DEF CleanExit
<1> QED  BY <1>1, <1>2, <1>3, <1>4, <1>5, <1>6, <1>7

LEMMA LeaveStep ==
  ASSUME LifeInv, LeaveLoop
  PROVE  LifeInv'
<1> USE DEF LifeInv, Types, LeaveLoop, controllerVars, deviceVars, mouseVars, sentVars, obVars, bufferVars,
            kernelVars, commandVars
<1>c. cmd = "none" /\ step = "D4" /\ inbuf \notin Commands
  BY DEF CommandInv, Commands
<1>1. Flags'
  BY Zenon DEF Flags
<1>2. DeviceTypes'
  BY DEF DeviceTypes
<1>3. ProgramTypes'
  BY DEF ProgramTypes
<1>4. CommandInv'
  BY <1>c DEF CommandInv
<1>5. LineInv'
  BY DEF LineInv
<1>6. ByteInv'
  BY DEF ByteInv
<1>7. CleanExit'
  BY DEF CleanExit
<1> QED  BY <1>1, <1>2, <1>3, <1>4, <1>5, <1>6, <1>7

----------------------------------------------------------------------------
(* end                                                                     *)

LEMMA DestroyStep ==
  ASSUME LifeInv, DestroySprites
  PROVE  LifeInv'
<1> USE DEF LifeInv, Types, DestroySprites, deviceVars, mouseVars, sentVars, obVars, bufferVars,
            kernelVars, commandVars
<1>s. phase = "end" /\ at = 1
  BY EndCalls DEF InEnd, LineInv, ProgramTypes
<1>c. cmd = "none" /\ step = "D4" /\ inbuf \notin Commands
  BY <1>s DEF CommandInv, Commands
<1>f. sprites' \in [Groups -> -1..1]
  <2>1. \A g \in Groups : Frees[g] \in 0..2
    BY DEF Groups, Frees
  <2> QED  BY <2>1 DEF ProgramTypes
<1>1. Flags'
  BY Zenon DEF Flags
<1>2. DeviceTypes'
  BY DEF DeviceTypes
<1>3. ProgramTypes'
  BY <1>s, <1>f DEF ProgramTypes
<1>4. CommandInv'
  BY <1>c DEF CommandInv
<1>5. LineInv'
  BY <1>s DEF LineInv
<1>6. ByteInv'
  BY DEF ByteInv
<1>7. CleanExit'
  BY <1>s DEF CleanExit
<1> QED  BY <1>1, <1>2, <1>3, <1>4, <1>5, <1>6, <1>7

LEMMA UnsubscribeStep ==
  ASSUME LifeInv, Unsubscribe
  PROVE  LifeInv'
<1> USE DEF LifeInv, Types, Unsubscribe, deviceVars, mouseVars, sentVars, obVars, bufferVars, commandVars
<1>0. PICK call \in DOMAIN Line :
        /\ InEnd(call) /\ Line[call] \in held
        /\ held' = held \ {Line[call]} /\ notes' = notes \ {Line[call]}
  OBVIOUS
<1>s. /\ phase = "end" /\ phase' = "end" /\ at' = at + 1
      /\ \/ at = 2 /\ Line[call] = "keyboard"
         \/ at = 3 /\ Line[call] = "timer"
         \/ at = 5 /\ Line[call] = "rtc"
         \/ at = 6 /\ Line[call] = "mouse"
  BY <1>0, Released DEF ProgramTypes, LineInv, InEnd
<1>c. cmd = "none" /\ step = "D4" /\ inbuf \notin Commands
  BY <1>s DEF CommandInv, Commands
<1>1. Flags'
  BY Zenon DEF Flags
<1>2. DeviceTypes'
  BY DEF DeviceTypes
<1>3. ProgramTypes'
  BY <1>0, <1>s DEF ProgramTypes
<1>4. CommandInv'
  BY <1>c DEF CommandInv
<1>5. LineInv'
  BY <1>0, <1>s DEF LineInv
<1>6. ByteInv'
  BY <1>0 DEF ByteInv
<1>7. CleanExit'
  BY <1>s DEF CleanExit
<1> QED  BY <1>1, <1>2, <1>3, <1>4, <1>5, <1>6, <1>7

LEMMA VgExitStep ==
  ASSUME LifeInv, VgExit
  PROVE  LifeInv'
<1> USE DEF LifeInv, Types, VgExit, controllerVars, deviceVars, mouseVars, sentVars, obVars, bufferVars,
            kernelVars, commandVars
<1>s. phase = "end" /\ at = 4
  BY EndCalls DEF InEnd, LineInv, ProgramTypes
<1>c. cmd = "none" /\ step = "D4" /\ inbuf \notin Commands
  BY <1>s DEF CommandInv, Commands
<1>1. Flags'
  BY Zenon DEF Flags
<1>2. DeviceTypes'
  BY DEF DeviceTypes
<1>3. ProgramTypes'
  BY <1>s DEF ProgramTypes
<1>4. CommandInv'
  BY <1>c DEF CommandInv
<1>5. LineInv'
  BY <1>s DEF LineInv
<1>6. ByteInv'
  BY DEF ByteInv
<1>7. CleanExit'
  BY <1>s DEF CleanExit
<1> QED  BY <1>1, <1>2, <1>3, <1>4, <1>5, <1>6, <1>7

LEMMA EndFailsStep ==
  ASSUME LifeInv, EndFails
  PROVE  LifeInv'
<1> USE DEF LifeInv, Types, EndFails, Fault, deviceVars, mouseVars, sentVars, obVars, bufferVars,
            commandVars
<1>s. phase = "end" /\ at # 7
  BY EndCalls
<1>c. cmd = "none" /\ step = "D4" /\ inbuf \notin Commands
  BY <1>s DEF CommandInv, Commands
<1>1. Flags'
  BY Zenon DEF Flags
<1>2. DeviceTypes'
  <2>1. faults' \in 0..MaxFaults
    BY ControllerAssumption DEF DeviceTypes
  <2> QED  BY <2>1 DEF DeviceTypes
<1>3. ProgramTypes'
  BY DEF ProgramTypes
<1>4. CommandInv'
  BY <1>c DEF CommandInv
<1>5. LineInv'
  BY <1>s DEF LineInv
<1>6. ByteInv'
  BY <1>s DEF ByteInv, LineInv
<1>7. CleanExit'
  BY DEF CleanExit
<1> QED  BY <1>1, <1>2, <1>3, <1>4, <1>5, <1>6, <1>7

LEMMA StartStep ==
  ASSUME LifeInv, StartAgain
  PROVE  LifeInv'
<1> USE DEF LifeInv, Types, StartAgain, controllerVars, deviceVars, mouseVars, sentVars, obVars, bufferVars,
            kernelVars, commandVars
<1>c. cmd = "none" /\ step = "D4" /\ inbuf \notin Commands
  BY DEF CommandInv, Commands
<1>1. Flags'
  BY Zenon DEF Flags
<1>2. DeviceTypes'
  BY DEF DeviceTypes
<1>3. ProgramTypes'
  BY RunsAssumption DEF ProgramTypes
<1>4. CommandInv'
  BY <1>c DEF CommandInv
<1>5. LineInv'
  BY DEF LineInv
<1>6. ByteInv'
  BY DEF ByteInv
<1>7. CleanExit'
  BY DEF CleanExit
<1> QED  BY <1>1, <1>2, <1>3, <1>4, <1>5, <1>6, <1>7

----------------------------------------------------------------------------
(* The theorems                                                            *)

LEMMA LifeStep == LifeInv /\ [Next]_vars => LifeInv'
<1> SUFFICES ASSUME LifeInv, [Next]_vars  PROVE LifeInv'
  OBVIOUS
<1>1. CASE HardwareStep
  BY <1>1, KeyPressedStep, MouseMovesStep, MouseAnswersStep, TakesStep, AnnounceStep
     DEF HardwareStep, DeviceStep
<1>2. CASE MouseCommand
  BY <1>2, CallStep, WriteStep, GiveUpStep, ReadAnswerStep DEF MouseCommand, MouseCommandStep
<1>3. CASE Subscribe \/ Configure \/ InitializeSprites \/ SetupCallFails \/ MouseCommandReturns
  BY <1>3, SubscribeStep, ConfigureStep, InitializeStep, SetupFailsStep, ReturnStep
<1>4. CASE Tick \/ Receive \/ KeyHandler \/ UpdateTimer \/ UpdateMouse \/ LeaveLoop
  BY <1>4, TickStep, ReceiveStep, KeyStep, UpdateTimerStep, UpdateMouseStep, LeaveStep
<1>5. CASE DestroySprites \/ Unsubscribe \/ VgExit \/ EndFails \/ StartAgain
  BY <1>5, DestroyStep, UnsubscribeStep, VgExitStep, EndFailsStep, StartStep
<1>6. CASE UNCHANGED vars
  <2> USE <1>6 DEF vars, LifeInv, Types, controllerVars, deviceVars, mouseVars, sentVars, obVars, bufferVars,
                   kernelVars, commandVars, programVars
  <2>1. Flags' /\ DeviceTypes' /\ ProgramTypes'
    BY DEF Flags, DeviceTypes, ProgramTypes
  <2>2. CommandInv'
    BY DEF CommandInv
  <2>3. LineInv'
    BY DEF LineInv
  <2>4. ByteInv' /\ CleanExit'
    BY DEF ByteInv, CleanExit
  <2> QED  BY <2>1, <2>2, <2>3, <2>4
<1> QED  BY <1>1, <1>2, <1>3, <1>4, <1>5, <1>6 DEF Next, ProgramStep

LEMMA LifeInvariant == Spec => []LifeInv
BY LifeInitially, LifeStep, PTL DEF Spec

\* The types of the controller and the program, over any number of runs.
THEOREM LifecycleTypeCorrect == Spec => []TypeOK
<1>1. LifeInv => TypeOK
  BY TypesAreTypeOK DEF LifeInv
<1> QED  BY <1>1, LifeInvariant, PTL

\* kbc_ih and mouse_ih are called for the byte that is in the output buffer.
THEOREM HandlersFindTheirByte == Spec => []CallFindsItsByte
<1>1. LifeInv => CallFindsItsByte
  BY DEF LifeInv, ByteInv, CallFindsItsByte
<1> QED  BY <1>1, LifeInvariant, PTL

\* mouse_command: no command goes to the keyboard, and one that is taken for
\* acknowledged was done unless the mouse has refused one, whatever attempts were
\* given up before it.
THEOREM MouseGetsItsCommands == Spec => []CommandsReachMouse
<1>1. LifeInv => CommandsReachMouse
  <2> SUFFICES ASSUME LifeInv  PROVE CommandsReachMouse
    OBVIOUS
  <2>1. ~misrouted
    BY DEF LifeInv, CommandInv
  <2>2. step = "acknowledged" /\ plugged /\ ~refused => (reporting <=> cmd = "F4")
    BY DEF LifeInv, CommandInv
  <2>3. reporting \in BOOLEAN
    BY DEF LifeInv, Types, Flags
  <2> QED  BY <2>1, <2>2, <2>3 DEF CommandsReachMouse
<1> QED  BY <1>1, LifeInvariant, PTL

\* proj_main_loop: a run that returns 0 was set up in full and gives everything back,
\* also after runs that failed or were killed anywhere.
THEOREM ExitIsClean == Spec => []CleanExit
<1>1. LifeInv => CleanExit
  BY DEF LifeInv
<1> QED  BY <1>1, LifeInvariant, PTL

=============================================================================

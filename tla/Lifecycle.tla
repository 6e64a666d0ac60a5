----------------------------- MODULE Lifecycle ------------------------------
(***************************************************************************)
(* The program from setup() to end() (proj/src/proj.c), run after run, on  *)
(* the controller of module Controller: interrupt lines, video mode, data  *)
(* reporting of the mouse, and sprites, when any call on the way may fail. *)
(*                                                                         *)
(* setup() returns at its first failure and proj_main_loop does not look   *)
(* at the result; the loop runs with what was subscribed by then.  end()   *)
(* returns at its first failure too.  What the program leaves behind, in   *)
(* the mouse and in the output buffer, the next run finds.                 *)
(*                                                                         *)
(* Of the loop only what touches the controller and the sprites is here;   *)
(* MainLoop has the rest.                                                  *)
(***************************************************************************)
EXTENDS Controller

CONSTANTS
  MaxRuns   \* bound on the runs of the program

ASSUME RunsAssumption == MaxRuns \in Nat \ {0}

VARIABLES
  phase,     \* setup, loop, end, exited or crashed
  at,        \* the call of setup or end that is next
  pending,   \* interrupts of the notification in hand
  leaving,   \* ESC was pressed in the menu
  sprites,   \* for each group of sprites, allocations less frees
  graphics,  \* the video card is in graphics mode
  ready,     \* history: this run's setup returned 0
  status,    \* what proj_main_loop returned
  runs       \* number of this run

programVars == <<phase, at, pending, leaving, sprites, graphics, ready, status, runs>>
vars == <<controllerVars, programVars>>

\* The calls in the order of the code.
SetupSubscribingFirst ==
         <<"mouse_subscribe_int", "mouse_command", "timer_set_frequency", "setUpFrameBuffer",
           "set_graphic_mode", "keyboard_subscribe_int", "timer_subscribe",
           "rtc_subscribe_interrupts", "initialize_sprites">>
Setup == <<"mouse_command", "mouse_subscribe_int", "timer_set_frequency", "setUpFrameBuffer",
           "set_graphic_mode", "keyboard_subscribe_int", "timer_subscribe",
           "rtc_subscribe_interrupts", "initialize_sprites">>
End   == <<"destroy_sprites", "keyboard_unsubscribe_int", "timer_unsubscribe_int", "vg_exit",
           "rtc_unsubscribe_interrupts", "mouse_unsubscribe_int", "mouse_command">>

Line == [mouse_subscribe_int |-> "mouse", keyboard_subscribe_int |-> "keyboard",
         timer_subscribe |-> "timer", rtc_subscribe_interrupts |-> "rtc",
         mouse_unsubscribe_int |-> "mouse", keyboard_unsubscribe_int |-> "keyboard",
         timer_unsubscribe_int |-> "timer", rtc_unsubscribe_interrupts |-> "rtc"]
Lines == {"keyboard", "timer", "mouse", "rtc"}

\* How often destroy_sprites frees a sprite: those of the digits are in its list
\* twice, the button of the high scores is not.
Frees == [digits |-> 2, highScoresButton |-> 0, others |-> 1]
Groups == DOMAIN Frees

Init ==
  /\ ControllerInit
  /\ phase = "setup" /\ at = 1 /\ pending = {} /\ leaving = FALSE
  /\ sprites = [g \in Groups |-> 0] /\ graphics = FALSE
  /\ ready = FALSE /\ status = -1 /\ runs = 1

----------------------------------------------------------------------------
(* setup                                                                   *)

InSetup(call) == phase = "setup" /\ Setup[at] = call
InEnd(call)   == phase = "end" /\ End[at] = call

\* Past the last call of setup the loop begins.
Passed ==
  /\ at' = IF at = Len(Setup) THEN 1 ELSE at + 1
  /\ phase' = IF at = Len(Setup) THEN "loop" ELSE "setup"
  /\ ready' = (at = Len(Setup))

\* A failure is the end of setup, and the loop begins as well.
SetupFails ==
  /\ phase' = "loop" /\ at' = 1
  /\ UNCHANGED <<ready, sprites, graphics>>

Subscribe ==
  /\ \E call \in DOMAIN Line : InSetup(call) /\ held' = held \cup {Line[call]}
  /\ Passed
  /\ UNCHANGED <<deviceVars, bufferVars, faults, notes, commandVars, pending, leaving, sprites,
                 graphics, status, runs>>

\* timer_set_frequency and setUpFrameBuffer change nothing that is seen here.
Configure ==
  /\ \/ InSetup("timer_set_frequency") \/ InSetup("setUpFrameBuffer") \/ InSetup("set_graphic_mode")
  /\ graphics' = (graphics \/ InSetup("set_graphic_mode"))
  /\ Passed
  /\ UNCHANGED <<controllerVars, pending, leaving, sprites, status, runs>>

InitializeSprites ==
  /\ InSetup("initialize_sprites")
  /\ sprites' = [g \in Groups |-> 1]
  /\ Passed
  /\ UNCHANGED <<controllerVars, pending, leaving, graphics, status, runs>>

SetupCallFails ==
  /\ phase = "setup" /\ Setup[at] \notin {"mouse_command", "initialize_sprites"}
  /\ Fault
  /\ SetupFails
  /\ UNCHANGED <<deviceVars, bufferVars, kernelVars, commandVars, pending, leaving, status,
                 runs>>

----------------------------------------------------------------------------
(* The calls of mouse_command                                              *)

MouseCommand ==
  \/ /\ InSetup("mouse_command") /\ CallMouseCommand("F4")
     /\ UNCHANGED programVars
  \/ /\ InEnd("mouse_command") /\ CallMouseCommand("F5")
     /\ UNCHANGED programVars
  \/ MouseCommandStep /\ UNCHANGED programVars

MouseCommandReturns ==
  /\ step \in {"acknowledged", "failed"}
  /\ cmd' = "none" /\ step' = "D4" /\ tries' = MaxTries
  /\ \/ /\ phase = "setup" /\ step = "acknowledged"
        /\ Passed
        /\ UNCHANGED <<sprites, graphics, status>>
     \/ /\ phase = "setup" /\ step = "failed"
        /\ SetupFails
        /\ UNCHANGED status
     \/ /\ phase = "end"
        /\ phase' = "exited" /\ status' = IF step = "failed" THEN 1 ELSE 0
        /\ UNCHANGED <<at, ready, sprites, graphics>>
  /\ UNCHANGED <<deviceVars, bufferVars, faults, kernelVars, pending, leaving, runs>>

----------------------------------------------------------------------------
(* The loop                                                                *)

\* The timer interrupts.
Tick ==
  /\ "timer" \in held /\ "timer" \notin notes
  /\ notes' = notes \cup {"timer"}
  /\ UNCHANGED <<deviceVars, bufferVars, faults, held, commandVars, programVars>>

Receive ==
  /\ phase = "loop" /\ pending = {} /\ ~leaving /\ notes # {}
  /\ pending' = notes /\ notes' = {}
  /\ UNCHANGED <<deviceVars, bufferVars, faults, held, commandVars, phase, at, leaving, sprites,
                 graphics, ready, status, runs>>

\* A use of a sprite: without it the process is killed, and the kernel releases
\* its interrupt lines.
UseSprites(line) ==
  IF sprites["others"] = 1
  THEN pending' = pending \ {line} /\ UNCHANGED <<phase, kernelVars>>
  ELSE phase' = "crashed" /\ pending' = {} /\ held' = {} /\ notes' = {}

\* key_handler.  Any key may be the ESC that ends the loop.
KeyHandler ==
  /\ phase = "loop" /\ "keyboard" \in pending
  /\ KbcIh
  /\ pending' = pending \ {"keyboard"}
  /\ leaving' \in BOOLEAN
  /\ UNCHANGED <<bufferVars, kernelVars, commandVars, phase, at, sprites, graphics, ready,
                 status, runs>>

\* update_timer and GameDrawer, which draws the cursor on every screen.
UpdateTimer ==
  /\ phase = "loop" /\ "timer" \in pending /\ "keyboard" \notin pending
  /\ UseSprites("timer")
  /\ UNCHANGED <<deviceVars, bufferVars, faults, commandVars, at, leaving, sprites, graphics, ready,
                 status, runs>>

\* update_mouse.  The third byte of a packet moves the cursor; a click then may
\* be anything, but not an ESC.
UpdateMouse ==
  /\ phase = "loop" /\ pending = {"mouse"}
  /\ MouseIh
  /\ \/ UseSprites("mouse")
     \/ pending' = {} /\ UNCHANGED <<phase, kernelVars>>
  /\ UNCHANGED <<bufferVars, commandVars, at, leaving, sprites, graphics, ready, status, runs>>

LeaveLoop ==
  /\ phase = "loop" /\ pending = {} /\ leaving
  /\ phase' = "end" /\ at' = 1
  /\ UNCHANGED <<controllerVars, pending, leaving, sprites, graphics, ready, status, runs>>

----------------------------------------------------------------------------
(* end                                                                     *)

\* The sprites of the digits are freed twice: the process goes on or is killed.
DestroySprites ==
  /\ InEnd("destroy_sprites")
  /\ sprites' = [g \in Groups |-> IF sprites[g] = 1 THEN 1 - Frees[g] ELSE sprites[g]]
  /\ \/ phase' = phase /\ at' = at + 1 /\ UNCHANGED kernelVars
     \/ sprites'["digits"] < 0 /\ phase' = "crashed" /\ held' = {} /\ notes' = {} /\ UNCHANGED at
  /\ UNCHANGED <<deviceVars, bufferVars, faults, commandVars, pending, leaving, graphics, ready,
                 status, runs>>

Unsubscribe ==
  /\ \E call \in DOMAIN Line :
       /\ InEnd(call) /\ Line[call] \in held
       /\ held' = held \ {Line[call]} /\ notes' = notes \ {Line[call]}
  /\ at' = at + 1
  /\ UNCHANGED <<deviceVars, bufferVars, faults, commandVars, phase, pending, leaving, sprites,
                 graphics, ready, status, runs>>

VgExit ==
  /\ InEnd("vg_exit")
  /\ graphics' = FALSE /\ at' = at + 1
  /\ UNCHANGED <<controllerVars, phase, pending, leaving, sprites, ready, status, runs>>

\* A line that is not held cannot be released.
NotHeld == \E call \in DOMAIN Line : InEnd(call) /\ Line[call] \notin held

\* end() returns 1, and the kernel releases the lines of the process.
EndFailsAndGoesOn ==
  /\ phase = "end" /\ End[at] \notin {"destroy_sprites", "mouse_command"}
  /\ Fault \/ (NotHeld /\ UNCHANGED faults)
  /\ at' = at + 1
  /\ UNCHANGED <<deviceVars, bufferVars, kernelVars, commandVars, phase, status, pending, leaving,
                 sprites, graphics, ready, runs>>
EndFails ==
  /\ phase = "end" /\ End[at] \notin {"destroy_sprites", "mouse_command"}
  /\ Fault \/ (NotHeld /\ UNCHANGED faults)
  /\ phase' = "exited" /\ status' = 1 /\ held' = {} /\ notes' = {}
  /\ UNCHANGED <<deviceVars, bufferVars, commandVars, at, pending, leaving, sprites, graphics,
                 ready, runs>>

\* The program is started again; the hardware is as it was left.
StartAgain ==
  /\ phase \in {"exited", "crashed"} /\ runs < MaxRuns
  /\ phase' = "setup" /\ at' = 1 /\ leaving' = FALSE
  /\ sprites' = [g \in Groups |-> 0] /\ ready' = FALSE /\ status' = -1 /\ runs' = runs + 1
  /\ UNCHANGED <<controllerVars, pending, graphics>>

----------------------------------------------------------------------------

ProgramStep ==
  \/ Subscribe \/ Configure \/ InitializeSprites \/ SetupCallFails
  \/ MouseCommand \/ MouseCommandReturns
  \/ Receive \/ KeyHandler \/ UpdateTimer \/ UpdateMouse \/ LeaveLoop
  \/ DestroySprites \/ Unsubscribe \/ VgExit \/ EndFails

HardwareStep == DeviceStep /\ UNCHANGED programVars

Next == ProgramStep \/ HardwareStep \/ Tick \/ StartAgain

Spec == Init /\ [][Next]_vars

\* The process runs when it can; the controller takes what is written, the mouse
\* sends its answers, and a byte for a subscribed line gets its interrupt.
\* Nothing is assumed of keys, movements, the timer and the faults.
Fairness ==
  /\ WF_vars(ProgramStep)
  /\ WF_vars((TakesD4 \/ TakesCommand) /\ UNCHANGED programVars)
  /\ WF_vars(MouseAnswers /\ UNCHANGED programVars)
  /\ WF_vars(Announce /\ UNCHANGED programVars)

FairSpec == Spec /\ Fairness

----------------------------------------------------------------------------
(* Properties                                                              *)

TypeOK ==
  /\ plugged \in BOOLEAN /\ reporting \in BOOLEAN /\ answers \in Seq(Values)
  /\ ob \in Byte \cup {Empty} /\ last \in Values /\ announced \in BOOLEAN /\ blocked \in BOOLEAN
  /\ inbuf \in Commands \cup {"none", "D4"} /\ routed \in BOOLEAN
  /\ keys \in 0..MaxKeys /\ reports \in 0..MaxReports /\ faults \in 0..MaxFaults
  /\ refused \in BOOLEAN /\ misrouted \in BOOLEAN
  /\ held \subseteq Lines /\ notes \subseteq Lines /\ pending \subseteq Lines
  /\ cmd \in Commands \cup {"none"} /\ step \in Steps /\ tries \in 0..MaxTries
  /\ phase \in {"setup", "loop", "end", "exited", "crashed"}
  /\ at \in 1..Len(Setup) /\ leaving \in BOOLEAN
  /\ sprites \in [Groups -> -1..1] /\ graphics \in BOOLEAN
  /\ ready \in BOOLEAN /\ status \in {-1, 0, 1} /\ runs \in 1..MaxRuns

\* A handler that is called finds the byte it was called for in the output
\* buffer.  This is why kbc_ih need not look where a byte is from, and why no
\* notification makes the loop call both handlers.  It rests on mouse_command
\* running only while neither line is subscribed.
CallFindsItsByte ==
  \A line \in Devices : line \in notes \cup pending => ob.from = line

\* Commands for the mouse reach the mouse, also after attempts that were given
\* up halfway, and a command that mouse_command reports as acknowledged was
\* done, unless the mouse has refused one: the 0xFA it has read may be a byte of
\* a movement, or the answer to an earlier attempt or an earlier run.
CommandsReachMouse ==
  /\ ~misrouted
  /\ step = "acknowledged" /\ plugged /\ ~refused => reporting = (cmd = "F4")

\* A run that returns 0 has been set up in full and has given back everything:
\* the lines, the text mode and the silence of the mouse.
CleanExit ==
  phase = "exited" /\ status = 0 =>
    ready /\ held = {} /\ ~graphics /\ (reporting => refused)

\* setup and end return whatever the mouse does: there are ten attempts.
SetupAndEndReturn ==
  /\ phase = "setup" ~> phase # "setup"
  /\ phase = "end" ~> phase # "end"

\* In a program that was set up no byte is left in the output buffer, where it
\* would block both devices, unless its own handler could not read it: not one
\* that arrived before its line was subscribed, not the answer to an attempt of
\* mouse_command, and not what an earlier run, however it ended, left behind.
NoByteBlocks ==
  ready /\ phase = "loop" /\ ob # Empty ~> ob = Empty \/ blocked \/ phase # "loop"

\* model.h on destroy_sprites: "Free the memory allocated for the sprites".
SpritesFreed == phase = "end" /\ at > 1 => \A g \in Groups : sprites[g] = 0

=============================================================================

------------------------------ MODULE MainLoop ------------------------------
(***************************************************************************)
(* The interrupt loop of the program (proj_main_loop of proj/src/proj.c)   *)
(* and the state machine its handlers drive: key_handler, update_timer,    *)
(* GameDrawer and update_mouse (proj/src/model/model.c, view.c).           *)
(*                                                                         *)
(* One notification may carry several interrupts: the timer's, and that of *)
(* the keyboard or the mouse, whose bytes share one buffer (Lifecycle).    *)
(* The loop then calls the handlers one after the other, keyboard first    *)
(* and mouse last, and reads its exit condition only when all of them have *)
(* returned.  Each call is an action; a call that changes the state of the *)
(* game decides what the calls after it, of the same notification, see.    *)
(*                                                                         *)
(* The text of the game is in TypingTest; here a game is the memory it     *)
(* lives in, the words left, the fills left and the time.  Mouse packets   *)
(* are assembled: a call of update_mouse either completes one or not.      *)
(***************************************************************************)
EXTENDS ScoreTable

CONSTANTS
  Durations,       \* seconds a game may last (15, 30 and 60)
  TicksPerSecond,  \* timer interrupts a second (60)
  MaxStars,        \* fills granted by a game (3)
  SwipeLength,     \* pixels a swipe has to pass (400)
  Deltas,          \* horizontal movements of a mouse packet
  MaxWords         \* bound on the words left in a game

ASSUME LoopAssumption ==
  /\ Durations \subseteq Nat \ {0}
  /\ TicksPerSecond \in Nat \ {0}
  /\ MaxStars \in Nat /\ SwipeLength \in Nat /\ MaxWords \in Nat
  /\ Deltas \subseteq Int

VARIABLES
  pending,          \* calls the loop still has to make for this notification
  ended,            \* the loop was left and end() called
  currentState,     \* the screen the program is in
  currentKey,       \* the last key, as far as the state machine reads it
  gameStateChange,  \* the screen has to be drawn in full
  screen,           \* history: the screen drawn in full last
  timer,            \* seconds left
  counter,          \* timer interrupts, modulo TicksPerSecond
  test,             \* what the pointer test refers to
  stats,            \* what the pointer stats refers to
  time,             \* stats->time
  typedWords,       \* stats->typedWords
  stars,            \* fills left
  gestureState,     \* the swipe recognizer
  x_gesture,        \* pixels swiped so far
  gameTicks         \* history: timer interrupts handled in this game

loopVars  == <<pending, ended>>
gameVars  == <<test, stats, time, stars, gameTicks>>
clockVars == <<timer, counter>>
swipeVars == <<gestureState, x_gesture>>
vars == <<loopVars, currentState, currentKey, gameStateChange, screen, clockVars, gameVars,
          typedWords, swipeVars, scoreVars>>

States == {"MENU", "TIMERS", "GAME", "STATISTICS", "INSTRUCTIONS", "HIGHSCORES"}
Keys   == {"NONE_KEY", "ENTER", "ESC", "BACK", "CHAR"}

\* What a scan code in data is to update_keyboard: a key with a character, one
\* of the four others it knows, a key it ignores, or the release of a key.
Codes  == {"CHAR", "SPACE", "ENTER", "DELETE", "ESC", "OTHER", "BREAK"}

\* Memory: never allocated, allocated, or freed.
Memory == {"none", "live", "freed"}

\* The calls of the loop in the order it makes them.
Calls == {"key_handler", "update_timer", "GameDrawer", "update_mouse"}
Rank  == [key_handler |-> 1, update_timer |-> 2, GameDrawer |-> 3, update_mouse |-> 4]

Init ==
  /\ pending = {} /\ ended = FALSE
  /\ currentState = "MENU" /\ currentKey = "NONE_KEY"
  /\ gameStateChange = TRUE /\ screen = "none"
  /\ timer = 0 /\ counter = 0
  /\ test = "none" /\ stats = "none" /\ time = 0 /\ typedWords = 0
  /\ stars = 0 /\ gestureState = "GESTURE_ZERO" /\ x_gesture = 0
  /\ highScores = ZeroTable /\ file \in InitialFiles
  /\ gameTicks = 0

----------------------------------------------------------------------------
(* The loop                                                                *)

LoopConditionOnBack == ~(currentState = "MENU" /\ currentKey = "BACK")
LoopCondition == ~(currentState = "MENU" /\ currentKey = "ESC")

\* driver_receive returns a notification of some interrupts.  The timer's makes
\* the loop call update_timer and GameDrawer.  The keyboard's and the mouse's do
\* not come together: the second byte has to wait in its device until the handler
\* of the first has emptied the buffer (CallFindsItsByte of Lifecycle).
Receive(calls) ==
  /\ ~ended /\ pending = {} /\ LoopCondition
  /\ calls # {} /\ ("update_timer" \in calls <=> "GameDrawer" \in calls)
  /\ "key_handler" \notin calls \/ "update_mouse" \notin calls
  /\ pending' = calls
  /\ UNCHANGED <<ended, currentState, currentKey, gameStateChange, screen, clockVars,
                 gameVars, typedWords, swipeVars, scoreVars>>

\* It is the turn of this call: those before it have returned.
Turn(call) ==
  /\ call \in pending
  /\ \A c \in pending : Rank[call] <= Rank[c]

Return(call) == pending' = pending \ {call} /\ UNCHANGED ended

\* The loop ends.
Quit ==
  /\ ~ended /\ pending = {} /\ ~LoopCondition
  /\ ended' = TRUE
  /\ UNCHANGED <<pending, currentState, currentKey, gameStateChange, screen, clockVars,
                 gameVars, typedWords, swipeVars, scoreVars>>

----------------------------------------------------------------------------
(* setGameState, one definition for each state it is called with.  The     *)
(* caller's key is what currentKey holds by then.                          *)

SetStateOnly(state, key) ==
  /\ currentState' = state
  /\ currentKey' = key
  /\ UNCHANGED gameStateChange
SetState(state, key) ==
  /\ currentState' = state
  /\ currentKey' = key
  /\ gameStateChange' = TRUE

EnterMenuKeepingKey == SetState("MENU", currentKey) /\ UNCHANGED scoreVars
EnterMenu == SetState("MENU", "NONE_KEY") /\ UNCHANGED scoreVars

EnterTimers(key) == SetState("TIMERS", key) /\ UNCHANGED <<gameVars, scoreVars>>

EnterInstructions(key) == SetState("INSTRUCTIONS", key) /\ UNCHANGED <<gameVars, scoreVars>>

EnterHighScores(key) ==
  /\ SetState("HIGHSCORES", key)
  /\ \E opened \in OpeningToRead : LoadHighScores(opened)
  /\ UNCHANGED gameVars

\* initializeTest and initializeStats allocate anew; what test and stats point
\* to is not freed before.
EnterGameKeepsWords(seconds, key) ==
  /\ SetState("GAME", key)
  /\ timer' = seconds
  /\ stars' = MaxStars
  /\ test' = "live" /\ stats' = "live"
  /\ time' = seconds
  /\ gameTicks' = 0
  /\ UNCHANGED <<counter, typedWords, scoreVars>>
EnterGame(seconds, key) ==
  /\ SetState("GAME", key)
  /\ timer' = seconds
  /\ stars' = MaxStars
  /\ test' = "live" /\ stats' = "live"
  /\ time' = seconds /\ typedWords' = 0
  /\ gameTicks' = 0
  /\ UNCHANGED <<counter, scoreVars>>

\* The test is destroyed, and the speed goes into the high scores.
WordsPerMinute == (typedWords * 60) \div time

EnterStatisticsFreeing(key) ==
  /\ SetState("STATISTICS", key)
  /\ test' = "freed" /\ stats' = "freed"
  /\ \E when \in Times, opened \in Opening : UpdateHighScores(WordsPerMinute, when, opened)
  /\ UNCHANGED <<time, stars>>
EnterStatistics(key) ==
  /\ SetState("STATISTICS", key)
  /\ test' = "freed"
  /\ \E when \in Times, opened \in Opening : UpdateHighScores(WordsPerMinute, when, opened)
  /\ UNCHANGED <<stats, time, stars>>

----------------------------------------------------------------------------
(* key_handler                                                             *)

\* currentKey after update_keyboard.
KeyAfter(code) ==
  CASE code \in {"ENTER", "ESC", "CHAR"} -> code
    [] code = "DELETE" -> "BACK"
    [] OTHER -> currentKey

\* handle_space_key counts a word.
WordsAfter(code) ==
  IF currentState = "GAME" /\ code = "SPACE" THEN typedWords + 1 ELSE typedWords

\* update_keyboard, then the reaction to the key.  The code is the one kbc_ih
\* has read or, when it could read none, the one it read the last time: any.
\* currentKey is looked at whatever the code is, so that an ESC or an ENTER of
\* an earlier call acts again.
KeyHandler(code) ==
  /\ Turn("key_handler") /\ Return("key_handler")
  /\ WordsAfter(code) <= MaxWords
  /\ typedWords' = WordsAfter(code)
  /\ \/ currentState = "MENU" /\ KeyAfter(code) = "ENTER" /\ EnterTimers("ENTER")
     \/ currentState # "MENU" /\ KeyAfter(code) = "ESC" /\ EnterMenu /\ UNCHANGED gameVars
     \/ /\ currentState = "MENU" => KeyAfter(code) # "ENTER"
        /\ currentState # "MENU" => KeyAfter(code) # "ESC"
        /\ currentKey' = KeyAfter(code)
        /\ UNCHANGED <<currentState, gameStateChange, gameVars, scoreVars>>
  /\ UNCHANGED <<screen, clockVars, swipeVars>>

----------------------------------------------------------------------------
(* update_timer and GameDrawer                                             *)

\* A tick of a game: it is over when the timer was at zero, else there is one
\* second less whenever the counter has gone round.
GameTickCountsFirst ==
  LET left == IF counter' = 0 THEN timer - 1 ELSE timer
  IN  \/ left <= 0 /\ EnterStatistics(currentKey) /\ timer' = 0
      \/ /\ left > 0 /\ timer' = left
         /\ UNCHANGED <<currentState, currentKey, gameStateChange, test, stats, time, stars,
                        scoreVars>>
GameTick ==
  \/ timer = 0 /\ EnterStatistics(currentKey) /\ UNCHANGED timer
  \/ /\ timer # 0
     /\ timer' = IF counter' = 0 THEN timer - 1 ELSE timer
     /\ UNCHANGED <<currentState, currentKey, gameStateChange, test, stats, time, stars, scoreVars>>

UpdateTimerCountsOnly ==
  /\ Turn("update_timer") /\ Return("update_timer")
  /\ counter' = (counter + 1) % TicksPerSecond
  /\ UNCHANGED <<timer, currentState, currentKey, gameStateChange, gameVars, scoreVars, screen,
                 typedWords, swipeVars>>
UpdateTimer ==
  /\ Turn("update_timer") /\ Return("update_timer")
  /\ counter' = (counter + 1) % TicksPerSecond
  /\ IF currentState = "GAME"
     THEN gameTicks' = gameTicks + 1 /\ GameTick
     ELSE UNCHANGED <<timer, currentState, currentKey, gameStateChange, gameVars, scoreVars>>
  /\ UNCHANGED <<screen, typedWords, swipeVars>>

\* The screen is drawn in full the first time after a change of state.
GameDrawer ==
  /\ Turn("GameDrawer") /\ Return("GameDrawer")
  /\ screen' = IF gameStateChange THEN currentState ELSE screen
  /\ gameStateChange' = FALSE
  /\ UNCHANGED <<currentState, currentKey, clockVars, gameVars, typedWords, swipeVars, scoreVars>>

----------------------------------------------------------------------------
(* update_mouse                                                            *)

Swiped(dx) == IF dx > 0 THEN x_gesture + dx ELSE x_gesture

\* With the button still down the movements to the right add up to a swipe, and
\* a swipe is a fill_current_word: here, a star less.
SwipeStepKeepsPixels(dx) ==
  IF Swiped(dx) > SwipeLength
  THEN gestureState' = "GESTURE_ZERO" /\ x_gesture' = Swiped(dx) /\ stars' = stars - 1
  ELSE x_gesture' = Swiped(dx) /\ UNCHANGED <<gestureState, stars>>
SwipeStep(dx) ==
  IF Swiped(dx) > SwipeLength
  THEN gestureState' = "GESTURE_ZERO" /\ x_gesture' = 0 /\ stars' = stars - 1
  ELSE x_gesture' = Swiped(dx) /\ UNCHANGED <<gestureState, stars>>

CheckGestureNoStars(lb, dx) ==
  \/ /\ gestureState = "GESTURE_ZERO"
     /\ gestureState' = IF lb THEN "GESTURE_LB" ELSE "GESTURE_ZERO"
     /\ UNCHANGED <<x_gesture, stars>>
  \/ /\ gestureState = "GESTURE_LB" /\ ~lb
     /\ gestureState' = "GESTURE_ZERO" /\ x_gesture' = 0
     /\ UNCHANGED stars
  \/ /\ gestureState = "GESTURE_LB" /\ lb
     /\ SwipeStep(dx)
CheckGesture(lb, dx) ==
  \/ /\ stars = 0
     /\ UNCHANGED <<swipeVars, stars>>
  \/ /\ stars # 0 /\ gestureState = "GESTURE_ZERO"
     /\ gestureState' = IF lb THEN "GESTURE_LB" ELSE "GESTURE_ZERO"
     /\ UNCHANGED <<x_gesture, stars>>
  \/ /\ stars # 0 /\ gestureState = "GESTURE_LB" /\ ~lb
     /\ gestureState' = "GESTURE_ZERO" /\ x_gesture' = 0
     /\ UNCHANGED stars
  \/ /\ stars # 0 /\ gestureState = "GESTURE_LB" /\ lb
     /\ SwipeStep(dx)

\* checkActions with the left button down on a button of the screen; the
\* buttons of a screen do not overlap.
ClickInMenu ==
  /\ currentState = "MENU"
  /\ EnterTimers(currentKey) \/ EnterInstructions(currentKey) \/ EnterHighScores(currentKey)
  /\ UNCHANGED <<clockVars, typedWords>>

ClickInTimers ==
  /\ currentState = "TIMERS"
  /\ \E seconds \in Durations : EnterGame(seconds, currentKey)

BackToMenu ==
  /\ currentState = "STATISTICS"
  /\ EnterMenu
  /\ stats' = "freed"
  /\ UNCHANGED <<clockVars, typedWords, test, time, stars, gameTicks>>

PlayAgain ==
  /\ currentState = "STATISTICS"
  /\ EnterTimers(currentKey)
  /\ UNCHANGED <<clockVars, typedWords>>

BackFromHighScores ==
  /\ currentState = "HIGHSCORES"
  /\ EnterMenu
  /\ UNCHANGED <<clockVars, typedWords, gameVars>>

\* A packet is complete and on a button.
Click ==
  /\ Turn("update_mouse") /\ Return("update_mouse")
  /\ ClickInMenu \/ ClickInTimers \/ BackToMenu \/ PlayAgain \/ BackFromHighScores
  /\ UNCHANGED <<screen, swipeVars>>

\* A packet is complete in a game.
Gesture(lb, dx) ==
  /\ Turn("update_mouse") /\ Return("update_mouse")
  /\ currentState = "GAME"
  /\ CheckGesture(lb, dx)
  /\ UNCHANGED <<currentState, currentKey, gameStateChange, screen, clockVars, test, stats, time,
                 gameTicks, typedWords, scoreVars>>

\* No packet is complete, or it is on no button.
NoAction ==
  /\ Turn("update_mouse") /\ Return("update_mouse")
  /\ UNCHANGED <<currentState, currentKey, gameStateChange, screen, clockVars, gameVars,
                 typedWords, swipeVars, scoreVars>>

----------------------------------------------------------------------------

UpdateMouse == Click \/ (\E lb \in BOOLEAN, dx \in Deltas : Gesture(lb, dx)) \/ NoAction

Next ==
  \/ \E calls \in SUBSET Calls : Receive(calls)
  \/ \E code \in Codes : KeyHandler(code)
  \/ UpdateTimer
  \/ GameDrawer
  \/ UpdateMouse
  \/ Quit

Spec == Init /\ [][Next]_vars

\* A call that is due returns, and so does the loop.  The timer interrupts for
\* ever: of infinitely many notifications infinitely many are the timer's.
Fairness ==
  /\ WF_vars(\E code \in Codes : KeyHandler(code))
  /\ WF_vars(UpdateTimer) /\ WF_vars(GameDrawer) /\ WF_vars(UpdateMouse)
  /\ WF_vars(Quit)
  /\ SF_vars(\E calls \in SUBSET Calls : "update_timer" \in calls /\ Receive(calls))

FairSpec == Spec /\ Fairness

----------------------------------------------------------------------------
(* Properties                                                              *)

TypeOK ==
  /\ pending \subseteq Calls /\ ended \in BOOLEAN
  /\ currentState \in States /\ currentKey \in Keys
  /\ gameStateChange \in BOOLEAN /\ screen \in States \cup {"none"}
  /\ timer \in Nat /\ counter \in 0..(TicksPerSecond - 1)
  /\ test \in Memory /\ stats \in Memory
  /\ time \in Nat /\ typedWords \in Nat /\ stars \in 0..MaxStars
  /\ gestureState \in {"GESTURE_ZERO", "GESTURE_LB"} /\ x_gesture \in Nat
  /\ highScores \in Table /\ file \in FileContents \cup {NoFile}
  /\ gameTicks \in Nat

\* Every use of test and stats finds them allocated, and the division by
\* stats->time is defined: the handlers dereference both in GAME, the statistics
\* are drawn and freed in STATISTICS, and the test is freed once, on the way
\* from the one to the other.
Lifetimes ==
  /\ currentState = "GAME" => test = "live" /\ stats = "live" /\ time > 0
  /\ currentState = "STATISTICS" => test = "freed" /\ stats = "live"

\* An ENTER that was acted on does not act again: none is left in currentKey
\* whenever the program is back in the menu, whatever way it took there.
NoStaleEnter == currentState = "MENU" => currentKey # "ENTER"

\* A screen that is not due to be drawn is the one the program is in.
ScreenMatchesState == ~gameStateChange => screen = currentState

\* The swipe recognizer never holds more than a swipe, holds nothing unless the
\* button was down, and is at rest when the last star of a game has been used.
SwipeDiscipline ==
  /\ x_gesture <= SwipeLength
  /\ gestureState = "GESTURE_ZERO" => x_gesture = 0
  /\ currentState = "GAME" /\ stars = 0 /\ MaxStars > 0 => gestureState = "GESTURE_ZERO"

\* A game that runs to its end has lasted as long as its duration says, up to a
\* second: where in a second of the free-running counter it began decides.
GameLength ==
  [][currentState = "GAME" /\ currentState' = "STATISTICS" =>
       gameTicks' \in (TicksPerSecond * (time - 1) + 2)..(TicksPerSecond * time + 1)]_vars

\* A game ends, by itself or because the player leaves it.
GameEnds == currentState = "GAME" ~> currentState # "GAME"

\* An ESC pressed in the menu ends the program ("unless you are in the MENU state
\* in which case you will quit the game", says the report): no call of the same
\* notification that comes between takes the program to another screen or the
\* ESC out of currentKey.
EscInMenuQuits == currentState = "MENU" /\ currentKey = "ESC" ~> ended

\* The player sees none of the loop: with keys, clock, swipes and memory hidden,
\* the program is a Session.  In particular a game that ends is entered in the
\* table once, with the words typed in it and its own duration, and one that is
\* left is not, whatever else the notification carries.
InGame == currentState = "GAME"
Player == INSTANCE Session WITH
  screen  <- currentState,
  seconds <- IF InGame THEN time ELSE 0,
  words   <- IF InGame THEN typedWords ELSE 0,
  over    <- ended
ImplementsSession == Player!Spec

=============================================================================

--------------------------- MODULE MainLoopProofs ---------------------------
(***************************************************************************)
(* Proofs about MainLoop, for any durations, tick rate, swipe length and   *)
(* high-score table, and any coalescing of interrupts: types, lifetimes of *)
(* the game's memory, the keys and screens left behind by a change of      *)
(* state, the swipe recognizer, the length of a game, and that the program *)
(* implements Session.                                                     *)
(*                                                                         *)
(* The types need the lifetimes (the division by stats->time), so the two  *)
(* are proved together, in LoopInv.  The length of a game needs ClockInv,  *)
(* which relates the seconds and the ticks that have passed.               *)
(***************************************************************************)
EXTENDS MainLoop, ScoreTableProofs

\* One more factor is one more summand.
LEMMA OneMore ==
  ASSUME NEW a \in Int, NEW b \in Int
  PROVE  a * b \in Int /\ a * (b + 1) = a * b + a
OBVIOUS

----------------------------------------------------------------------------
(* Types and lifetimes                                                     *)

LoopInv == TypeOK /\ Lifetimes

\* The part of TypeOK that is about the state machine, the game and its memory.
MachineType ==
  /\ currentState \in States /\ currentKey \in Keys /\ gameStateChange \in BOOLEAN
  /\ test \in Memory /\ stats \in Memory /\ time \in Nat /\ stars \in 0..MaxStars
  /\ highScores \in Table /\ file \in FileContents \cup {NoFile}

\* setGameState(HIGHSCORES) keeps the types of the table and of the file.
LEMMA LoadType ==
  ASSUME TypeOK, NEW opened \in OpeningToRead, LoadHighScores(opened)
  PROVE  highScores' \in Table /\ file' \in FileContents \cup {NoFile}
BY LoadedType DEF TypeOK, LoadHighScores

\* setGameState(STATISTICS) finds a duration to divide by and keeps the types.
LEMMA StatisticsType ==
  ASSUME LoopInv, currentState = "GAME", NEW key \in Keys, EnterStatistics(key)
  PROVE  MachineType' /\ Lifetimes'
<1>1. time \in Nat /\ time > 0 /\ typedWords \in Nat
  BY DEF LoopInv, TypeOK, Lifetimes
<1>2. typedWords * 60 \in Nat
  BY <1>1
<1>3. WordsPerMinute \in Nat
  BY <1>1, <1>2 DEF WordsPerMinute
<1>4. PICK when \in Times, opened \in Opening : UpdateHighScores(WordsPerMinute, when, opened)
  BY DEF EnterStatistics
<1>5. highScores' \in Table
  BY <1>3, <1>4, InsertedType DEF UpdateHighScores, LoopInv, TypeOK
<1>6. Written(highScores') \in FileContents
  BY <1>5, WrittenType
<1>7. file' \in FileContents \cup {NoFile}
  BY <1>4, <1>6 DEF UpdateHighScores, LoopInv, TypeOK
<1> QED  BY <1>5, <1>7 DEF EnterStatistics, SetState, MachineType, Lifetimes, LoopInv, TypeOK,
                           States, Memory

\* The initial state satisfies the invariant.
LEMMA LoopInit == Init => LoopInv
<1> SUFFICES ASSUME Init  PROVE LoopInv
  OBVIOUS
<1>1. highScores \in Table /\ file \in FileContents \cup {NoFile}
  BY ZeroTableFacts, InitialFilesFacts, WrittenType DEF Init
<1>2. /\ pending \subseteq Calls /\ ended \in BOOLEAN
      /\ currentState \in States /\ currentKey \in Keys
      /\ gameStateChange \in BOOLEAN /\ screen \in States \cup {"none"}
      /\ test \in Memory /\ stats \in Memory
      /\ gestureState \in {"GESTURE_ZERO", "GESTURE_LB"}
  BY DEF Init, States, Keys, Memory
<1>3. /\ timer \in Nat /\ counter \in 0..(TicksPerSecond - 1)
      /\ time \in Nat /\ typedWords \in Nat /\ stars \in 0..MaxStars
      /\ x_gesture \in Nat /\ gameTicks \in Nat
  BY LoopAssumption DEF Init
<1> QED  BY <1>1, <1>2, <1>3 DEF Init, LoopInv, TypeOK, Lifetimes

\* A key leads to the types and lifetimes again.
LEMMA KeyStep ==
  ASSUME LoopInv, NEW code \in Codes, KeyHandler(code)
  PROVE  LoopInv'
<1>1. KeyAfter(code) \in Keys /\ WordsAfter(code) \in Nat
  BY DEF LoopInv, TypeOK, Codes, Keys, KeyAfter, WordsAfter
<1>2. MachineType' /\ Lifetimes'
  <2>1. CASE currentState = "MENU" /\ EnterTimers("ENTER")
    BY <2>1 DEF EnterTimers, SetState, gameVars, scoreVars, MachineType, Lifetimes, LoopInv,
                TypeOK, States, Keys
  <2>2. CASE EnterMenu /\ UNCHANGED gameVars
    BY <2>2 DEF EnterMenu, SetState, gameVars, scoreVars, MachineType, Lifetimes, LoopInv,
                TypeOK, States, Keys
  <2>3. CASE /\ currentKey' = KeyAfter(code)
             /\ UNCHANGED <<currentState, gameStateChange, gameVars, scoreVars>>
    BY <1>1, <2>3 DEF gameVars, scoreVars, MachineType, Lifetimes, LoopInv, TypeOK
  <2> QED  BY <2>1, <2>2, <2>3 DEF KeyHandler
<1>3. /\ pending' \subseteq Calls /\ ended' \in BOOLEAN
      /\ screen' \in States \cup {"none"} /\ timer' \in Nat
      /\ counter' \in 0..(TicksPerSecond - 1)
  BY DEF KeyHandler, Return, clockVars, LoopInv, TypeOK
<1>4. gestureState' \in {"GESTURE_ZERO", "GESTURE_LB"} /\ x_gesture' \in Nat
  BY DEF KeyHandler, swipeVars, LoopInv, TypeOK
<1>5. gameTicks' \in Nat /\ typedWords' \in Nat
  BY <1>1 DEF KeyHandler, EnterTimers, gameVars, LoopInv, TypeOK
<1> QED  BY <1>2, <1>3, <1>4, <1>5 DEF LoopInv, TypeOK, MachineType

\* A timer interrupt leads to the types and lifetimes again.
LEMMA TimerStep ==
  ASSUME LoopInv, UpdateTimer
  PROVE  LoopInv'
<1>1. counter' \in 0..(TicksPerSecond - 1)
  BY LoopAssumption DEF UpdateTimer, LoopInv, TypeOK
<1>2. MachineType' /\ Lifetimes' /\ timer' \in Nat /\ gameTicks' \in Nat
  <2>1. CASE currentState = "GAME" /\ timer = 0
    <3>1. EnterStatistics(currentKey) /\ timer' = timer /\ gameTicks' = gameTicks + 1
      BY <2>1 DEF UpdateTimer, GameTick
    <3> QED  BY <2>1, <3>1, StatisticsType DEF LoopInv, TypeOK
  <2>2. CASE currentState = "GAME" /\ timer # 0
    <3>1. /\ UNCHANGED <<currentState, currentKey, gameStateChange, test, stats, time, stars, scoreVars>>
          /\ timer' \in {timer, timer - 1} /\ gameTicks' = gameTicks + 1
      BY <2>2 DEF UpdateTimer, GameTick
    <3> QED  BY <2>2, <3>1 DEF scoreVars, MachineType, Lifetimes, LoopInv, TypeOK
  <2>3. CASE currentState # "GAME"
    BY <2>3 DEF UpdateTimer, gameVars, scoreVars, MachineType, Lifetimes, LoopInv, TypeOK
  <2> QED  BY <2>1, <2>2, <2>3
<1>3. /\ pending' \subseteq Calls /\ ended' \in BOOLEAN /\ screen' \in States \cup {"none"}
      /\ gestureState' \in {"GESTURE_ZERO", "GESTURE_LB"} /\ x_gesture' \in Nat
      /\ typedWords' \in Nat
  BY DEF UpdateTimer, Return, swipeVars, LoopInv, TypeOK
<1> QED  BY <1>1, <1>2, <1>3 DEF LoopInv, TypeOK, MachineType

\* A click leads to the types and lifetimes again.
LEMMA ClickStep ==
  ASSUME LoopInv, Click
  PROVE  LoopInv'
<1>1. currentKey \in Keys
  BY DEF LoopInv, TypeOK
<1>2. /\ MachineType' /\ Lifetimes' /\ timer' \in Nat /\ counter' = counter
      /\ typedWords' \in Nat /\ gameTicks' \in Nat
  <2>1. CASE EnterTimers(currentKey) /\ UNCHANGED <<clockVars, typedWords>>
    BY <1>1, <2>1 DEF EnterTimers, SetState, clockVars, gameVars, scoreVars, MachineType,
                      Lifetimes, LoopInv, TypeOK, States
  <2>2. CASE EnterInstructions(currentKey) /\ UNCHANGED <<clockVars, typedWords>>
    BY <1>1, <2>2 DEF EnterInstructions, SetState, clockVars, gameVars, scoreVars, MachineType,
                      Lifetimes, LoopInv, TypeOK, States
  <2>3. CASE EnterHighScores(currentKey) /\ UNCHANGED <<clockVars, typedWords>>
    <3>1. highScores' \in Table /\ file' \in FileContents \cup {NoFile}
      BY <2>3, LoadType DEF EnterHighScores, LoopInv
    <3> QED  BY <1>1, <2>3, <3>1 DEF EnterHighScores, SetState, clockVars, gameVars, MachineType,
                                     Lifetimes, LoopInv, TypeOK, States
  <2>4. CASE ClickInTimers
    <3>1. PICK seconds \in Durations : EnterGame(seconds, currentKey)
      BY <2>4 DEF ClickInTimers
    <3>2. seconds \in Nat /\ seconds > 0 /\ MaxStars \in 0..MaxStars
      BY LoopAssumption
    <3> QED  BY <1>1, <3>1, <3>2 DEF EnterGame, SetState, scoreVars, MachineType, Lifetimes,
                                     LoopInv, TypeOK, States, Memory
  <2>5. CASE BackToMenu
    BY <2>5 DEF BackToMenu, EnterMenu, SetState, clockVars, scoreVars, MachineType, Lifetimes,
                LoopInv, TypeOK, States, Keys, Memory
  <2>6. CASE BackFromHighScores
    BY <2>6 DEF BackFromHighScores, EnterMenu, SetState, clockVars, gameVars, scoreVars,
                MachineType, Lifetimes, LoopInv, TypeOK, States, Keys
  <2> QED  BY <2>1, <2>2, <2>3, <2>4, <2>5, <2>6 DEF Click, ClickInMenu, PlayAgain
<1>3. /\ pending' \subseteq Calls /\ ended' \in BOOLEAN /\ screen' \in States \cup {"none"}
      /\ gestureState' \in {"GESTURE_ZERO", "GESTURE_LB"} /\ x_gesture' \in Nat
      /\ counter \in 0..(TicksPerSecond - 1)
  BY DEF Click, Return, swipeVars, LoopInv, TypeOK
<1> QED  BY <1>2, <1>3 DEF LoopInv, TypeOK, MachineType

\* A mouse packet in a game leads to the types and lifetimes again.
LEMMA GestureStep ==
  ASSUME LoopInv, NEW lb \in BOOLEAN, NEW dx \in Deltas, Gesture(lb, dx)
  PROVE  LoopInv'
<1>1. Swiped(dx) \in Nat
  BY LoopAssumption DEF Swiped, LoopInv, TypeOK
<1>2. CheckGesture(lb, dx) /\ stars \in 0..MaxStars /\ MaxStars \in Nat
  BY LoopAssumption DEF Gesture, LoopInv, TypeOK
<1>3. /\ gestureState' \in {"GESTURE_ZERO", "GESTURE_LB"} /\ x_gesture' \in Nat
      /\ stars' \in 0..MaxStars
  BY <1>1, <1>2 DEF CheckGesture, SwipeStep, swipeVars, LoopInv, TypeOK
<1>4. UNCHANGED <<ended, currentState, currentKey, gameStateChange, screen, timer, counter, test,
                  stats, time, gameTicks, typedWords, highScores, file>>
  BY DEF Gesture, Return, clockVars, scoreVars
<1>5. pending' \subseteq Calls
  BY DEF Gesture, Return, LoopInv, TypeOK
<1> QED  BY <1>3, <1>4, <1>5 DEF LoopInv, TypeOK, Lifetimes

\* Every step keeps types and lifetimes.
LEMMA LoopStep == LoopInv /\ [Next]_vars => LoopInv'
<1> SUFFICES ASSUME LoopInv, [Next]_vars  PROVE LoopInv'
  OBVIOUS
<1>1. ASSUME NEW calls \in SUBSET Calls, Receive(calls)  PROVE LoopInv'
  BY <1>1 DEF Receive, clockVars, gameVars, swipeVars, scoreVars, LoopInv, TypeOK, Lifetimes
<1>2. CASE GameDrawer
  <2>1. UNCHANGED <<ended, currentState, currentKey, timer, counter, test, stats, time, stars,
                    gameTicks, typedWords, gestureState, x_gesture, highScores, file>>
    BY <1>2 DEF GameDrawer, Return, clockVars, gameVars, swipeVars, scoreVars
  <2>2. /\ pending' \subseteq Calls /\ gameStateChange' \in BOOLEAN
        /\ screen' \in States \cup {"none"}
    BY <1>2 DEF GameDrawer, Return, LoopInv, TypeOK
  <2> QED  BY <2>1, <2>2 DEF LoopInv, TypeOK, Lifetimes
<1>3. CASE NoAction
  BY <1>3 DEF NoAction, Return, clockVars, gameVars, swipeVars, scoreVars, LoopInv, TypeOK, Lifetimes
<1>4. CASE Quit
  BY <1>4 DEF Quit, clockVars, gameVars, swipeVars, scoreVars, LoopInv, TypeOK, Lifetimes
<1>5. CASE UNCHANGED vars
  BY <1>5 DEF vars, loopVars, clockVars, gameVars, swipeVars, scoreVars, LoopInv, TypeOK, Lifetimes
<1> QED  BY <1>1, <1>2, <1>3, <1>4, <1>5, KeyStep, TimerStep, ClickStep, GestureStep
         DEF Next, UpdateMouse

\* The state of the program keeps its types, whatever interrupts are handled
\* together.
THEOREM LoopTypeCorrect == Spec => []TypeOK
<1>1. LoopInv => TypeOK
  BY DEF LoopInv
<1> QED  BY <1>1, LoopInit, LoopStep, PTL DEF Spec

\* No handler dereferences or frees memory that is not allocated, and no speed
\* is divided by zero.
THEOREM MemoryIsSafe == Spec => []Lifetimes
<1>1. LoopInv => Lifetimes
  BY DEF LoopInv
<1> QED  BY <1>1, LoopInit, LoopStep, PTL DEF Spec

----------------------------------------------------------------------------
(* Keys, screens and swipes                                                *)

\* NoStaleEnter and ScreenMatchesState are inductive as they are.
ScreenInv == NoStaleEnter /\ ScreenMatchesState

\* Every step leaves no ENTER in the menu and no screen undrawn.
LEMMA ScreenStep == ScreenInv /\ [Next]_vars => ScreenInv'
<1> SUFFICES ASSUME ScreenInv, [Next]_vars  PROVE ScreenInv'
  OBVIOUS
<1> USE DEF ScreenInv, NoStaleEnter, ScreenMatchesState, SetState
<1>1. ASSUME NEW calls \in SUBSET Calls, Receive(calls)  PROVE ScreenInv'
  BY <1>1 DEF Receive
<1>2. ASSUME NEW code \in Codes, KeyHandler(code)  PROVE ScreenInv'
  BY <1>2 DEF KeyHandler, EnterTimers, EnterMenu
<1>3. CASE UpdateTimer
  BY <1>3 DEF UpdateTimer, GameTick, EnterStatistics
<1>4. CASE GameDrawer
  BY <1>4 DEF GameDrawer
<1>5. CASE Click
  BY <1>5 DEF Click, ClickInMenu, ClickInTimers, BackToMenu, PlayAgain, BackFromHighScores,
              EnterMenu, EnterTimers, EnterInstructions, EnterHighScores, EnterGame
<1>6. ASSUME NEW lb \in BOOLEAN, NEW dx \in Deltas, Gesture(lb, dx)  PROVE ScreenInv'
  BY <1>6 DEF Gesture
<1>7. CASE NoAction
  BY <1>7 DEF NoAction
<1>8. CASE Quit
  BY <1>8 DEF Quit
<1>9. CASE UNCHANGED vars
  BY <1>9 DEF vars
<1> QED  BY <1>1, <1>2, <1>3, <1>4, <1>5, <1>6, <1>7, <1>8, <1>9 DEF Next, UpdateMouse

\* Whichever way the program takes back to the menu, no ENTER waits there.
THEOREM NoEnterIsStale == Spec => []NoStaleEnter
<1>1. Init => ScreenInv
  BY DEF Init, ScreenInv, NoStaleEnter, ScreenMatchesState
<1>2. ScreenInv => NoStaleEnter
  BY DEF ScreenInv
<1> QED  BY <1>1, <1>2, ScreenStep, PTL DEF Spec

\* A screen that is not due to be drawn is the one the program is in.
THEOREM ScreenFollowsState == Spec => []ScreenMatchesState
<1>1. Init => ScreenInv
  BY DEF Init, ScreenInv, NoStaleEnter, ScreenMatchesState
<1>2. ScreenInv => ScreenMatchesState
  BY DEF ScreenInv
<1> QED  BY <1>1, <1>2, ScreenStep, PTL DEF Spec

\* Every step keeps the swipe recognizer within its bounds, given the types.
LEMMA SwipeInductive == LoopInv /\ SwipeDiscipline /\ [Next]_vars => SwipeDiscipline'
<1> SUFFICES ASSUME LoopInv, SwipeDiscipline, [Next]_vars  PROVE SwipeDiscipline'
  OBVIOUS
<1>t. /\ x_gesture \in Nat /\ SwipeLength \in Nat /\ stars \in 0..MaxStars /\ MaxStars \in Nat
      /\ gestureState \in {"GESTURE_ZERO", "GESTURE_LB"}
  BY LoopAssumption DEF LoopInv, TypeOK
<1>s. /\ x_gesture <= SwipeLength
      /\ gestureState = "GESTURE_ZERO" => x_gesture = 0
      /\ currentState = "GAME" /\ stars = 0 /\ MaxStars > 0 => gestureState = "GESTURE_ZERO"
  BY DEF SwipeDiscipline
<1>u. ASSUME UNCHANGED swipeVars,
             currentState' = "GAME" =>
               (currentState = "GAME" /\ stars' = stars) \/ stars' = MaxStars
      PROVE  SwipeDiscipline'
  BY <1>t, <1>s, <1>u DEF swipeVars, SwipeDiscipline
<1>1. ASSUME NEW calls \in SUBSET Calls, Receive(calls)  PROVE SwipeDiscipline'
  BY <1>1, <1>u DEF Receive, gameVars
<1>2. ASSUME NEW code \in Codes, KeyHandler(code)  PROVE SwipeDiscipline'
  BY <1>2, <1>u DEF KeyHandler, EnterTimers, EnterMenu, SetState, gameVars
<1>3. CASE UpdateTimer
  BY <1>3, <1>u DEF UpdateTimer, GameTick, EnterStatistics, SetState, gameVars
<1>4. CASE GameDrawer
  BY <1>4, <1>u DEF GameDrawer, gameVars
<1>5. CASE Click
  BY <1>5, <1>u DEF Click, ClickInMenu, ClickInTimers, BackToMenu, PlayAgain, BackFromHighScores,
                    EnterMenu, EnterTimers, EnterInstructions, EnterHighScores, EnterGame, SetState
<1>6. ASSUME NEW lb \in BOOLEAN, NEW dx \in Deltas, Gesture(lb, dx)  PROVE SwipeDiscipline'
  <2>1. CheckGesture(lb, dx) /\ currentState' = currentState /\ currentState = "GAME"
    BY <1>6 DEF Gesture
  <2>2. CASE stars = 0
    BY <1>u, <2>1, <2>2 DEF CheckGesture, swipeVars
  <2>3. CASE stars # 0 /\ gestureState = "GESTURE_ZERO"
    BY <1>t, <1>s, <2>1, <2>3 DEF CheckGesture, SwipeDiscipline
  <2>4. CASE stars # 0 /\ gestureState = "GESTURE_LB"
    <3>1. Swiped(dx) \in Nat
      BY <1>t, LoopAssumption DEF Swiped
    <3> QED  BY <1>t, <1>s, <2>1, <2>4, <3>1 DEF CheckGesture, SwipeStep, SwipeDiscipline
  <2> QED  BY <1>t, <2>2, <2>3, <2>4
<1>7. CASE NoAction
  BY <1>7, <1>u DEF NoAction, gameVars
<1>8. CASE Quit
  BY <1>8, <1>u DEF Quit, gameVars
<1>9. CASE UNCHANGED vars
  BY <1>9, <1>u DEF vars, gameVars
<1> QED  BY <1>1, <1>2, <1>3, <1>4, <1>5, <1>6, <1>7, <1>8, <1>9 DEF Next, UpdateMouse

\* The swipe recognizer never holds more than a swipe and is at rest once the
\* stars of a game are used up.
THEOREM SwipeIsBounded == Spec => []SwipeDiscipline
<1>1. Init => SwipeDiscipline
  BY LoopAssumption DEF Init, SwipeDiscipline
<1> QED  BY <1>1, LoopInit, LoopStep, SwipeInductive, PTL DEF Spec

----------------------------------------------------------------------------
(* The length of a game                                                    *)

\* How far into a second of the counter the game began, computed from the
\* seconds and the ticks that have passed since.
Phase == TicksPerSecond * (time - timer) + counter - gameTicks

ClockInv ==
  currentState = "GAME" =>
    /\ Phase \in 0..(TicksPerSecond - 1)
    /\ timer = 0 => counter = 0

\* A tick of a game that goes on does not change where in a second it began.
LEMMA TickKeepsPhase ==
  ASSUME LoopInv, ClockInv, currentState = "GAME", timer # 0, UpdateTimer
  PROVE  ClockInv'
<1>1. /\ timer \in Nat /\ time \in Nat /\ gameTicks \in Nat
      /\ counter \in 0..(TicksPerSecond - 1) /\ TicksPerSecond \in Nat \ {0}
  BY LoopAssumption DEF LoopInv, TypeOK
<1>2. /\ counter' = (counter + 1) % TicksPerSecond
      /\ gameTicks' = gameTicks + 1 /\ time' = time
      /\ timer' = IF counter' = 0 THEN timer - 1 ELSE timer
  BY DEF UpdateTimer, GameTick
<1>3. TicksPerSecond * (time - timer) \in Int
  BY <1>1
<1>4. Phase' = Phase /\ (timer' = 0 => counter' = 0)
  <2>1. CASE counter + 1 < TicksPerSecond
    <3>1. counter' = counter + 1
      BY <1>1, <1>2, <2>1
    <3>2. timer' = timer
      BY <1>1, <1>2, <3>1
    <3> QED  BY <1>1, <1>2, <1>3, <3>1, <3>2 DEF Phase
  <2>2. CASE counter + 1 = TicksPerSecond
    <3>1. counter' = 0
      BY <1>1, <1>2, <2>2
    <3>2. timer' = timer - 1 /\ time' - timer' = (time - timer) + 1
      BY <1>1, <1>2, <3>1
    <3>3. TicksPerSecond * ((time - timer) + 1) = TicksPerSecond * (time - timer) + TicksPerSecond
      BY <1>1, OneMore
    <3> QED  BY <1>1, <1>2, <1>3, <2>2, <3>1, <3>2, <3>3 DEF Phase
  <2> QED  BY <1>1, <2>1, <2>2
<1> QED  BY <1>4 DEF ClockInv

\* A game begins with its phase at the counter.
LEMMA GameStartsInPhase ==
  ASSUME LoopInv, NEW seconds \in Durations, EnterGame(seconds, currentKey)
  PROVE  ClockInv'
<1>1. seconds \in Nat \ {0} /\ counter \in 0..(TicksPerSecond - 1) /\ TicksPerSecond \in Nat
  BY LoopAssumption DEF LoopInv, TypeOK
<1>2. timer' = seconds /\ time' = seconds /\ gameTicks' = 0 /\ counter' = counter
  BY DEF EnterGame
<1>3. TicksPerSecond * (seconds - seconds) = 0
  BY <1>1
<1>4. Phase' = counter
  BY <1>1, <1>2, <1>3 DEF Phase
<1> QED  BY <1>1, <1>2, <1>4 DEF ClockInv

\* Every step keeps the relation of seconds and ticks.
LEMMA ClockStep == LoopInv /\ ClockInv /\ [Next]_vars => ClockInv'
<1> SUFFICES ASSUME LoopInv, ClockInv, [Next]_vars  PROVE ClockInv'
  OBVIOUS
<1>u. ASSUME \/ currentState' # "GAME"
             \/ currentState' = currentState /\ UNCHANGED <<timer, counter, time, gameTicks>>
      PROVE  ClockInv'
  BY <1>u DEF ClockInv, Phase
<1>1. ASSUME NEW calls \in SUBSET Calls, Receive(calls)  PROVE ClockInv'
  BY <1>1, <1>u DEF Receive, gameVars, clockVars
<1>2. ASSUME NEW code \in Codes, KeyHandler(code)  PROVE ClockInv'
  BY <1>2, <1>u DEF KeyHandler, EnterTimers, EnterMenu, SetState, gameVars, clockVars
<1>3. CASE UpdateTimer
  <2>1. CASE currentState = "GAME" /\ timer # 0
    BY <1>3, <2>1, TickKeepsPhase
  <2>2. CASE currentState = "GAME" /\ timer = 0
    BY <1>3, <1>u, <2>2 DEF UpdateTimer, GameTick, EnterStatistics, SetState
  <2>3. CASE currentState # "GAME"
    BY <1>3, <1>u, <2>3 DEF UpdateTimer
  <2> QED  BY <2>1, <2>2, <2>3
<1>4. CASE GameDrawer
  BY <1>4, <1>u DEF GameDrawer, gameVars, clockVars
<1>5. CASE Click
  <2>1. CASE ClickInTimers
    BY <2>1, GameStartsInPhase DEF ClickInTimers
  <2>2. CASE ClickInMenu \/ BackToMenu \/ PlayAgain \/ BackFromHighScores
    BY <1>u, <2>2 DEF ClickInMenu, BackToMenu, PlayAgain, BackFromHighScores, EnterMenu,
                      EnterTimers, EnterInstructions, EnterHighScores, SetState
  <2> QED  BY <1>5, <2>1, <2>2 DEF Click
<1>6. ASSUME NEW lb \in BOOLEAN, NEW dx \in Deltas, Gesture(lb, dx)  PROVE ClockInv'
  BY <1>6, <1>u DEF Gesture, clockVars
<1>7. CASE NoAction
  BY <1>7, <1>u DEF NoAction, gameVars, clockVars
<1>8. CASE Quit
  BY <1>8, <1>u DEF Quit, gameVars, clockVars
<1>9. CASE UNCHANGED vars
  BY <1>9, <1>u DEF vars, gameVars, clockVars
<1> QED  BY <1>1, <1>2, <1>3, <1>4, <1>5, <1>6, <1>7, <1>8, <1>9 DEF Next, UpdateMouse

\* A game that ends by itself has handled its duration's ticks, up to a second.
LEMMA EndOfGame ==
  ASSUME LoopInv, ClockInv, [Next]_vars, currentState = "GAME", currentState' = "STATISTICS"
  PROVE  gameTicks' \in (TicksPerSecond * (time - 1) + 2)..(TicksPerSecond * time + 1)
<1>1. /\ timer \in Nat /\ time \in Nat /\ gameTicks \in Nat
      /\ counter \in Int /\ TicksPerSecond \in Nat \ {0}
  BY LoopAssumption DEF LoopInv, TypeOK
<1>2. UpdateTimer
  BY DEF Next, Receive, KeyHandler, EnterTimers, EnterMenu, SetState, GameDrawer, UpdateMouse, Click,
         ClickInMenu, ClickInTimers, BackToMenu, PlayAgain, BackFromHighScores, Gesture, NoAction,
         Quit, vars
<1>3. timer = 0 /\ gameTicks' = gameTicks + 1
  BY <1>2 DEF UpdateTimer, GameTick
<1>4. Phase = TicksPerSecond * time - gameTicks /\ Phase \in 0..(TicksPerSecond - 1)
  BY <1>1, <1>3 DEF ClockInv, Phase
<1>5. /\ TicksPerSecond * time \in Int /\ TicksPerSecond * (time - 1) \in Int
      /\ TicksPerSecond * time = TicksPerSecond * (time - 1) + TicksPerSecond
  <2>1. time - 1 \in Int /\ (time - 1) + 1 = time
    BY <1>1
  <2> QED  BY <1>1, <2>1, OneMore
<1> QED  BY <1>1, <1>3, <1>4, <1>5

\* A game that runs to its end lasts as long as its duration says, up to a
\* second, at any tick rate and wherever in a second it began.
THEOREM GamesLastTheirTime == Spec => GameLength
<1>1. Init => LoopInv /\ ClockInv
  BY LoopInit DEF Init, ClockInv
<1>2. LoopInv /\ ClockInv /\ [Next]_vars => (LoopInv /\ ClockInv)'
  BY LoopStep, ClockStep
<1>3. LoopInv /\ ClockInv /\ [Next]_vars =>
        [currentState = "GAME" /\ currentState' = "STATISTICS" =>
           gameTicks' \in (TicksPerSecond * (time - 1) + 2)..(TicksPerSecond * time + 1)]_vars
  BY EndOfGame
<1> QED  BY <1>1, <1>2, <1>3, PTL DEF Spec, GameLength

----------------------------------------------------------------------------
(* The refinement                                                          *)

\* The operators on the table are those of the session.
LEMMA SameTable ==
  /\ Player!ZeroTable = ZeroTable
  /\ \A opened : Player!LoadHighScores(opened) <=> LoadHighScores(opened)
  /\ \A wpm, when, opened :
       Player!UpdateHighScores(wpm, when, opened) <=> UpdateHighScores(wpm, when, opened)
  /\ Player!Opening = Opening /\ Player!OpeningToRead = OpeningToRead
  /\ Player!InitialFiles = InitialFiles
<1>1. Player!ZeroTable = ZeroTable
  BY DEF Player!ZeroTable, ZeroTable, Player!Ranks, Ranks
<1>2. \A opened : Player!LoadHighScores(opened) <=> LoadHighScores(opened)
  BY Zenon DEF Player!LoadHighScores, LoadHighScores, Player!LoadedTable, LoadedTable,
     Player!Cleared, Cleared, Player!Ranks, Ranks
<1>3. \A wpm, when, opened :
        Player!UpdateHighScores(wpm, when, opened) <=> UpdateHighScores(wpm, when, opened)
  BY Zenon DEF Player!UpdateHighScores, UpdateHighScores, Player!Inserted, Inserted, Player!Written,
     Written, Player!FirstBeaten, FirstBeaten, Player!Beaten, Beaten, Player!Ranks, Ranks
<1>4. Player!Opening = Opening /\ Player!OpeningToRead = OpeningToRead
  BY DEF Player!Opening, Opening, Player!OpeningToRead, OpeningToRead
<1>5. \A when : Player!Written(Player!ShippedTable(when)) = Written(ShippedTable(when))
  BY <1>1, Zenon DEF Player!Written, Written, Player!ShippedTable, ShippedTable,
     Player!ShippedSpeed, ShippedSpeed
<1>6. Player!InitialFiles = InitialFiles
  BY <1>5, Zenon DEF Player!InitialFiles, InitialFiles
<1> QED  BY <1>1, <1>2, <1>3, <1>4, <1>6

\* Once the loop is left no call is made.
NoCallAfterEnd == ended => pending = {}

\* The initial states are those of a session.
LEMMA SessionInit == Init => Player!Init /\ NoCallAfterEnd
BY SameTable DEF Init, Player!Init, InGame, NoCallAfterEnd

\* Receiving, calls and leaving the loop keep to it.
LEMMA NoCallStep == NoCallAfterEnd /\ [Next]_vars => NoCallAfterEnd'
<1> SUFFICES ASSUME NoCallAfterEnd, [Next]_vars  PROVE NoCallAfterEnd'
  OBVIOUS
<1> USE DEF NoCallAfterEnd
<1>1. ASSUME NEW call, Turn(call), Return(call)  PROVE NoCallAfterEnd'
  BY <1>1 DEF Turn, Return
<1>2. ASSUME NEW calls \in SUBSET Calls, Receive(calls)  PROVE NoCallAfterEnd'
  BY <1>2 DEF Receive
<1>3. CASE Quit
  BY <1>3 DEF Quit
<1>4. CASE UNCHANGED vars
  BY <1>4 DEF vars, loopVars
<1> QED  BY <1>1, <1>2, <1>3, <1>4 DEF Next, KeyHandler, UpdateTimer, GameDrawer, UpdateMouse,
                                      Click, Gesture, NoAction

\* A step the player does not see.
LEMMA Unseen ==
  ASSUME UNCHANGED <<currentState, ended, highScores, file>>, InGame => UNCHANGED <<time, typedWords>>
  PROVE  UNCHANGED Player!vars
BY DEF Player!vars, Player!scoreVars, InGame

\* A change of screen on which nothing else happens is a way of the session.
LEMMA IsWalk ==
  ASSUME ~ended, UNCHANGED <<ended, highScores, file>>,
         <<currentState, currentState'>> \in Player!Ways
  PROVE  Player!Next
<1>1. currentState # "GAME" /\ currentState' # "GAME"
  BY DEF Player!Ways
<1>2. Player!Walk(currentState')
  BY <1>1 DEF Player!Walk, Player!scoreVars, InGame
<1>3. \E way \in Player!Ways : Player!Walk(way[2])
  <2> WITNESS <<currentState, currentState'>> \in Player!Ways
  <2> QED  BY <1>2
<1> QED  BY <1>3 DEF Player!Next

\* A key is a way between screens, a word, the end of a game, or not seen.
LEMMA KeyIsSession ==
  ASSUME LoopInv, NoCallAfterEnd, NEW code \in Codes, KeyHandler(code)
  PROVE  Player!Next \/ UNCHANGED Player!vars
<1>1. ~ended /\ UNCHANGED <<ended, time>> /\ typedWords' = WordsAfter(code)
  BY DEF KeyHandler, Turn, Return, NoCallAfterEnd, EnterTimers, gameVars
<1>2. UNCHANGED <<highScores, file>>
  BY DEF KeyHandler, EnterTimers, EnterMenu, scoreVars
<1>3. CASE currentState = "MENU" /\ currentState' = "TIMERS"
  BY <1>1, <1>2, <1>3, IsWalk DEF Player!Ways
<1>4. CASE currentState \notin {"MENU", "GAME"} /\ currentState' = "MENU"
  <2>1. currentState \in {"TIMERS", "STATISTICS", "INSTRUCTIONS", "HIGHSCORES"}
    BY <1>4 DEF LoopInv, TypeOK, States
  <2> QED  BY <1>1, <1>2, <1>4, <2>1, IsWalk DEF Player!Ways
<1>5. CASE currentState = "GAME" /\ currentState' = "MENU"
  <2>1. Player!AbandonGame
    BY <1>1, <1>2, <1>5 DEF Player!AbandonGame, Player!scoreVars, InGame
  <2> QED  BY <2>1 DEF Player!Next
<1>6. CASE currentState' = currentState /\ currentState = "GAME" /\ code = "SPACE"
  <2>1. Player!TypeWord
    BY <1>1, <1>2, <1>6 DEF Player!TypeWord, Player!scoreVars, InGame, WordsAfter
  <2> QED  BY <2>1 DEF Player!Next
<1>7. CASE currentState' = currentState /\ ~(currentState = "GAME" /\ code = "SPACE")
  BY <1>1, <1>2, <1>7, Unseen DEF WordsAfter
<1>8. \/ currentState = "MENU" /\ currentState' = "TIMERS"
      \/ currentState # "MENU" /\ currentState' = "MENU"
      \/ currentState' = currentState
  BY DEF KeyHandler, EnterTimers, EnterMenu, SetState
<1> QED  BY <1>3, <1>4, <1>5, <1>6, <1>7, <1>8

\* A tick is the end of a game or not seen.
LEMMA TickIsSession ==
  ASSUME NoCallAfterEnd, UpdateTimer
  PROVE  Player!Next \/ UNCHANGED Player!vars
<1>1. ~ended /\ UNCHANGED <<ended, typedWords>>
  BY DEF UpdateTimer, Turn, Return, NoCallAfterEnd
<1>2. CASE currentState = "GAME" /\ timer = 0
  <2>1. EnterStatistics(currentKey)
    BY <1>2 DEF UpdateTimer, GameTick
  <2>2. PICK when \in Times, opened \in Opening : UpdateHighScores(WordsPerMinute, when, opened)
    BY <2>1 DEF EnterStatistics
  <2>3. Player!UpdateHighScores(WordsPerMinute, when, opened) /\ opened \in Player!Opening
    BY <2>2, SameTable
  <2>4. currentState' = "STATISTICS" /\ InGame /\ ~InGame'
    BY <1>2, <2>1 DEF EnterStatistics, SetState, InGame
  <2>5. WordsPerMinute = ((IF InGame THEN typedWords ELSE 0) * 60) \div (IF InGame THEN time ELSE 0)
    BY <2>4 DEF WordsPerMinute
  <2>6. Player!FinishGame
    BY <1>1, <1>2, <2>3, <2>4, <2>5 DEF Player!FinishGame
  <2> QED  BY <2>6 DEF Player!Next
<1>3. CASE ~(currentState = "GAME" /\ timer = 0)
  BY <1>1, <1>3, Unseen DEF UpdateTimer, GameTick, gameVars, scoreVars
<1> QED  BY <1>2, <1>3

\* A click is a way between screens, the start of a game or a look at the scores.
LEMMA ClickIsSession ==
  ASSUME NoCallAfterEnd, Click
  PROVE  Player!Next \/ UNCHANGED Player!vars
<1>1. ~ended /\ UNCHANGED ended
  BY DEF Click, Turn, Return, NoCallAfterEnd
<1>2. CASE ClickInMenu
  <2>1. CASE EnterHighScores(currentKey)
    <3>1. Player!ShowScores
      BY <1>1, <1>2, <2>1, SameTable
      DEF Player!ShowScores, ClickInMenu, EnterHighScores, SetState, InGame
    <3> QED  BY <3>1 DEF Player!Next
  <2>2. CASE EnterTimers(currentKey) \/ EnterInstructions(currentKey)
    BY <1>1, <1>2, <2>2, IsWalk
    DEF ClickInMenu, EnterTimers, EnterInstructions, SetState, scoreVars, Player!Ways
  <2> QED  BY <1>2, <2>1, <2>2 DEF ClickInMenu
<1>3. CASE ClickInTimers
  <2>1. PICK seconds \in Durations : EnterGame(seconds, currentKey)
    BY <1>3 DEF ClickInTimers
  <2>2. Player!StartGame(seconds)
    BY <1>1, <1>3, <2>1
    DEF Player!StartGame, ClickInTimers, EnterGame, SetState, InGame, scoreVars, Player!scoreVars
  <2> QED  BY <2>2 DEF Player!Next
<1>4. CASE BackToMenu \/ PlayAgain \/ BackFromHighScores
  BY <1>1, <1>4, IsWalk
  DEF BackToMenu, PlayAgain, BackFromHighScores, EnterMenu, EnterTimers, SetState, scoreVars,
      Player!Ways
<1> QED  BY <1>2, <1>3, <1>4 DEF Click

\* Every step of the program is a step of the session or not seen.
LEMMA SessionStep ==
  LoopInv /\ NoCallAfterEnd /\ [Next]_vars => [Player!Next]_(Player!vars)
<1> SUFFICES ASSUME LoopInv, NoCallAfterEnd, [Next]_vars
             PROVE  Player!Next \/ UNCHANGED Player!vars
  OBVIOUS
<1>1. ASSUME NEW calls \in SUBSET Calls, Receive(calls)  PROVE UNCHANGED Player!vars
  BY <1>1, Unseen DEF Receive, gameVars, scoreVars
<1>2. CASE GameDrawer
  BY <1>2, Unseen DEF GameDrawer, Return, gameVars, scoreVars
<1>3. ASSUME NEW lb \in BOOLEAN, NEW dx \in Deltas, Gesture(lb, dx)
      PROVE  UNCHANGED Player!vars
  BY <1>3, Unseen DEF Gesture, Return, scoreVars
<1>4. CASE NoAction
  BY <1>4, Unseen DEF NoAction, Return, gameVars, scoreVars
<1>5. CASE Quit
  <2>1. Player!LeaveProgram
    BY <1>5 DEF Quit, LoopCondition, Player!LeaveProgram, InGame, scoreVars, Player!scoreVars
  <2> QED  BY <2>1 DEF Player!Next
<1>6. CASE UNCHANGED vars
  BY <1>6, Unseen DEF vars, loopVars, gameVars, scoreVars
<1> QED  BY <1>1, <1>2, <1>3, <1>4, <1>5, <1>6, KeyIsSession, TickIsSession, ClickIsSession
         DEF Next, UpdateMouse

\* The program implements Session, for any durations, tick rate and coalescing of
\* interrupts: the player sees only the screens and the ways between them, a game
\* is entered in the table once, when its time is over, and nothing else changes
\* the table but reading it back from its file.
THEOREM ProgramIsSession == Spec => ImplementsSession
<1>1. LoopInv /\ NoCallAfterEnd /\ [Next]_vars => (LoopInv /\ NoCallAfterEnd)'
  BY LoopStep, NoCallStep
<1> QED  BY <1>1, SessionInit, LoopInit, SessionStep, PTL DEF Spec, ImplementsSession, Player!Spec

=============================================================================

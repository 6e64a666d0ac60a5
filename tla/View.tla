-------------------------------- MODULE View --------------------------------
(***************************************************************************)
(* What is on the screen: the three frame buffers and the panda's          *)
(* animations (proj/src/view/view.c, and update_timer, startAnimation and  *)
(* updateAnimation of proj/src/model/model.c).                             *)
(*                                                                         *)
(* Backgrounds, texts and the panda are drawn into                         *)
(* secondary_frame_buffer_no_mouse, which lasts; what moves is drawn into  *)
(* secondary_frame_buffer.  Each tick copies the second to the main buffer *)
(* and the first over the second before anything is drawn, so a picture is *)
(* on the screen two ticks after it was begun, and the handlers of keys    *)
(* and mouse draw, or change the screen the program is in, in between.     *)
(*                                                                         *)
(* A buffer is what was drawn into it since its background, not its        *)
(* pixels.  The text is the place of the cursor in it: words of one        *)
(* length, of which the one numbered ScrollAt ends the last line but one.  *)
(* One coordinate of the mouse cursor stands for both.                     *)
(***************************************************************************)
EXTENDS Integers, FiniteSets

CONSTANTS
  Durations,       \* seconds a game may last (15, 30 and 60)
  TicksPerSecond,  \* timer interrupts a second (60)
  MaxStars,        \* fills granted by a game (3)
  Length,          \* letters of a word
  ScrollAt,        \* the word after which the text scrolls
  AfterScroll,     \* the word the cursor is at then
  FrameCount,      \* frames of an animation (9)
  FrameDuration,   \* ticks a frame lasts (3)
  MaxX,            \* the last position of the mouse cursor
  MaxMove,         \* bound on the way of the mouse cursor past the screen
  MaxHandled       \* bound on the keys and mouse packets handled

ASSUME ViewAssumption ==
  /\ Durations \subseteq Nat \ {0} /\ TicksPerSecond \in Nat \ {0} /\ MaxStars \in Nat
  /\ Length \in Nat \ {0} /\ ScrollAt \in Nat \ {0} /\ AfterScroll \in 1..ScrollAt
  /\ FrameCount \in Nat \ {0} /\ FrameDuration \in Nat \ {0}
  /\ MaxX \in Nat /\ MaxMove \in Nat /\ MaxHandled \in Nat

VARIABLES
  currentState,     \* the screen the program is in
  gameStateChange,  \* it has to be drawn in full
  timer, counter,   \* seconds left; ticks, modulo TicksPerSecond
  main,             \* main_frame_buffer, the one that is displayed
  secondary,        \* secondary_frame_buffer
  no_mouse,         \* secondary_frame_buffer_no_mouse
  x,                \* CURSOR_SPRITE->x
  place,            \* the cursor in the text: word and letter
  caret,            \* where the caret was drawn last
  carets,           \* the carets in secondary_frame_buffer_no_mouse
  stars,            \* fills left
  happy, mad,       \* happyAnimation and madAnimation
  handled,          \* keys and mouse packets handled so far
  drawn,            \* history: ticks since the change of screen, up to 3
  quiet             \* history: ticks since an animation was started, up to Quiet

textVars == <<place, caret, carets, stars>>
pandaVars == <<happy, mad, quiet>>
frames == <<main, secondary, no_mouse>>
vars == <<currentState, gameStateChange, timer, counter, frames, x, textVars, pandaVars, handled, drawn>>

States == {"MENU", "TIMERS", "GAME", "STATISTICS", "INSTRUCTIONS", "HIGHSCORES"}
Places == (1..ScrollAt) \X (0..Length)
Nowhere == <<0, 0>>

\* A buffer: the screen its background is of, whether the words of a game and
\* the box of the statistics are on it, the panda and what moves.
Empty(state) ==
  [base |-> state, text |-> FALSE, box |-> FALSE, panda |-> "none", moving |-> {}]

\* An animation lasts so many ticks, and two more until it is off the screen.
Run == FrameCount * FrameDuration
Quiet == Run + 2

Init ==
  /\ currentState = "MENU" /\ gameStateChange = TRUE /\ drawn = 0 /\ handled = 0
  /\ timer = 0 /\ counter = 0
  /\ main = Empty("none") /\ secondary = Empty("none") /\ no_mouse = Empty("none")
  /\ x = 0
  /\ place = Nowhere /\ caret = Nowhere /\ carets = {} /\ stars = 0
  /\ happy = [isActive |-> FALSE, currentFrame |-> 0, frameCounter |-> 0]
  /\ mad = happy
  /\ quiet = Quiet

----------------------------------------------------------------------------
(* The text                                                                *)

\* drawWords: the caret is moved to the letter at the cursor.  Past the last
\* letter of a word none is drawn, and the old one not deleted.
MoveCaretOnly(shown, at) ==
  IF at[2] < Length THEN carets' = shown \cup {at} /\ caret' = at
                    ELSE carets' = shown /\ UNCHANGED caret
MoveCaret(shown, at) ==
  IF at[2] < Length THEN carets' = (shown \ {caret}) \cup {at} /\ caret' = at
                    ELSE carets' = shown /\ UNCHANGED caret

DrawWords(buffer, shown, at) ==
  /\ no_mouse' = [buffer EXCEPT !.text = TRUE]
  /\ MoveCaret(shown, at)
  /\ place' = at

----------------------------------------------------------------------------
(* The animations                                                          *)

Started == [isActive |-> TRUE, currentFrame |-> 0, frameCounter |-> 0]

updateAnimationForever(a) ==
  IF ~a.isActive THEN a
  ELSE IF a.frameCounter + 1 < FrameDuration THEN [a EXCEPT !.frameCounter = @ + 1]
  ELSE [a EXCEPT !.frameCounter = 0, !.currentFrame = (@ + 1) % FrameCount]
updateAnimationPastEnd(a) ==
  IF ~a.isActive THEN a
  ELSE IF a.frameCounter + 1 < FrameDuration THEN [a EXCEPT !.frameCounter = @ + 1]
  ELSE IF a.currentFrame < FrameCount
       THEN [a EXCEPT !.frameCounter = 0, !.currentFrame = @ + 1]
       ELSE [isActive |-> FALSE, currentFrame |-> 0, frameCounter |-> 0]
updateAnimation(a) ==
  IF ~a.isActive THEN a
  ELSE IF a.frameCounter + 1 < FrameDuration THEN [a EXCEPT !.frameCounter = @ + 1]
  ELSE IF a.currentFrame + 1 < FrameCount
       THEN [a EXCEPT !.frameCounter = 0, !.currentFrame = @ + 1]
       ELSE [isActive |-> FALSE, currentFrame |-> 0, frameCounter |-> 0]

\* The sprite of a frame; the first and the last are the panda at rest.
Frame(a, mood) == IF a.currentFrame \in {0, FrameCount - 1} THEN "rest" ELSE mood

\* drawAnimationBoth, of the animations after the update.
Panda == IF happy'.isActive THEN Frame(happy', "happy")
         ELSE IF mad'.isActive THEN Frame(mad', "mad")
         ELSE "rest"

----------------------------------------------------------------------------
(* Keys and mouse.  Each handler returns before the next tick.             *)

Handle == handled < MaxHandled /\ handled' = handled + 1

\* setGameState of a key or a click, entering a game included.
Leads == [MENU |-> {"TIMERS", "INSTRUCTIONS", "HIGHSCORES"}, TIMERS |-> {"GAME", "MENU"},
          GAME |-> {"MENU"}, STATISTICS |-> {"MENU", "TIMERS"},
          INSTRUCTIONS |-> {"MENU"}, HIGHSCORES |-> {"MENU"}]

GoToQuietly(state) ==
  /\ Handle /\ state \in Leads[currentState]
  /\ currentState' = state /\ drawn' = 0
  /\ IF state = "GAME"
     THEN timer' \in Durations /\ stars' = MaxStars /\ place' = <<1, 0>>
     ELSE UNCHANGED <<timer, stars, place>>
  /\ UNCHANGED <<gameStateChange, counter, frames, x, caret, carets, pandaVars>>
GoTo(state) ==
  /\ Handle /\ state \in Leads[currentState]
  /\ currentState' = state /\ gameStateChange' = TRUE /\ drawn' = 0
  /\ IF state = "GAME"
     THEN timer' \in Durations /\ stars' = MaxStars /\ place' = <<1, 0>>
     ELSE UNCHANGED <<timer, stars, place>>
  /\ UNCHANGED <<counter, frames, x, caret, carets, pandaVars>>

InText ==
  /\ Handle /\ currentState = "GAME"
  /\ UNCHANGED <<currentState, gameStateChange, timer, counter, main, secondary, x, drawn>>

\* process_key: before the last letter of the word the caret is deleted.
ProcessKey ==
  /\ InText /\ place[2] < Length
  /\ DrawWords(no_mouse, IF place[2] = Length - 1 THEN carets \ {caret} ELSE carets,
               <<place[1], place[2] + 1>>)
  /\ UNCHANGED <<stars, pandaVars>>

HandleDeleteKey ==
  /\ InText
  /\ DrawWords(no_mouse, carets, IF place[2] > 0 THEN <<place[1], place[2] - 1>> ELSE place)
  /\ UNCHANGED <<stars, pandaVars>>

\* Only a word typed to its end can be correct.  shift_words_up clears the
\* buffer, the panda included, before the words are drawn again.
HandleSpaceKey(correct) ==
  /\ InText /\ (correct => place[2] = Length)
  /\ IF correct THEN happy' = Started /\ UNCHANGED mad ELSE mad' = Started /\ UNCHANGED happy
  /\ quiet' = 0
  /\ IF place[1] = ScrollAt
     THEN DrawWords(Empty("GAME"), {}, <<AfterScroll, 0>>)
     ELSE DrawWords(no_mouse, carets, <<place[1] + 1, 0>>)
  /\ UNCHANGED stars

FillCurrentWord ==
  /\ InText /\ stars > 0
  /\ DrawWords(no_mouse, carets, <<place[1], Length>>)
  /\ stars' = stars - 1
  /\ UNCHANGED pandaVars

\* parse moves the cursor, as far as the packet says.
Parse(dx) ==
  /\ Handle
  /\ x + dx \in -MaxMove..(MaxX + MaxMove)
  /\ x' = x + dx
  /\ UNCHANGED <<currentState, gameStateChange, timer, counter, frames, textVars, pandaVars, drawn>>

----------------------------------------------------------------------------
(* update_timer and GameDrawer                                             *)

Clamp(p) == IF p < 0 THEN 0 ELSE IF p > MaxX THEN MaxX ELSE p

\* drawCursor, and in a game drawRecordedTime.  The stars and the time of day are
\* drawn in the same way.
Moving(state) ==
  {<<"cursor", x'>>} \cup (IF state = "GAME" THEN {<<"time", timer'>>} ELSE {})

\* What lasts: the screen in full after a change, and in a game the panda.  The
\* statistics are drawn over what is there.
DrawFull(state) ==
  \/ state = "GAME"
     /\ no_mouse' = [Empty(state) EXCEPT !.text = TRUE, !.panda = Panda]
     /\ MoveCaret({}, place)
  \/ state = "STATISTICS"
     /\ no_mouse' = [no_mouse EXCEPT !.box = TRUE]
     /\ UNCHANGED <<caret, carets>>
  \/ state \notin {"GAME", "STATISTICS"}
     /\ no_mouse' = Empty(state)
     /\ carets' = {} /\ UNCHANGED caret

DrawPanda(state) ==
  /\ no_mouse' = IF state = "GAME" THEN [no_mouse EXCEPT !.panda = Panda] ELSE no_mouse
  /\ UNCHANGED <<caret, carets>>

\* A game is over when the timer was at zero; the seconds are counted after.
GameOverCountingFirst == currentState = "GAME" /\ (timer = 0 \/ (timer = 1 /\ counter' = 0))
GameOver == currentState = "GAME" /\ timer = 0

CopyBuffersOnce(moving) ==
  /\ main' = secondary
  /\ secondary' = [secondary EXCEPT !.base = no_mouse.base, !.text = no_mouse.text, !.box = no_mouse.box,
                                    !.panda = no_mouse.panda, !.moving = @ \cup moving]
CopyBuffers(moving) ==
  /\ main' = secondary
  /\ secondary' = [no_mouse EXCEPT !.moving = @ \cup moving]

\* update_timer and GameDrawer, which the loop calls one after the other.
Tick ==
  LET state  == IF GameOver THEN "STATISTICS" ELSE currentState
      change == gameStateChange \/ GameOver
  IN  /\ happy' = updateAnimation(happy) /\ mad' = updateAnimation(mad)
      /\ counter' = (counter + 1) % TicksPerSecond
      /\ timer' = IF currentState = "GAME" /\ counter' = 0 /\ timer > 0 THEN timer - 1 ELSE timer
      /\ currentState' = state /\ gameStateChange' = FALSE
      /\ x' = Clamp(x)
      /\ CopyBuffers(Moving(state))
      /\ IF change THEN DrawFull(state) ELSE DrawPanda(state)
      /\ drawn' = IF GameOver THEN 1 ELSE IF drawn < 3 THEN drawn + 1 ELSE 3
      /\ quiet' = IF quiet < Quiet THEN quiet + 1 ELSE Quiet
      /\ UNCHANGED <<place, stars, handled>>

----------------------------------------------------------------------------

Next ==
  \/ Tick
  \/ \E state \in States : GoTo(state)
  \/ ProcessKey
  \/ HandleDeleteKey
  \/ \E correct \in BOOLEAN : HandleSpaceKey(correct)
  \/ FillCurrentWord
  \/ \E dx \in {-1, 1} : Parse(dx)

Spec == Init /\ [][Next]_vars

----------------------------------------------------------------------------
(* Properties                                                              *)

Buffers == {main, secondary, no_mouse}

Animation ==
  [isActive : BOOLEAN, currentFrame : 0..(FrameCount - 1), frameCounter : 0..(FrameDuration - 1)]

TypeOK ==
  /\ currentState \in States /\ gameStateChange \in BOOLEAN
  /\ timer \in Nat /\ counter \in 0..(TicksPerSecond - 1)
  /\ \A buffer \in Buffers :
       /\ buffer.base \in States \cup {"none"} /\ buffer.text \in BOOLEAN /\ buffer.box \in BOOLEAN
       /\ buffer.panda \in {"none", "rest", "happy", "mad"}
  /\ x \in Int /\ place \in Places \cup {Nowhere} /\ caret \in Places \cup {Nowhere}
  /\ carets \subseteq Places /\ handled \in 0..MaxHandled
  /\ stars \in 0..MaxStars
  /\ happy \in Animation /\ mad \in Animation
  /\ drawn \in 0..3 /\ quiet \in 0..Quiet

\* Background, words and box of the screen, and nothing of another.
Shows(buffer, state) ==
  /\ buffer.base = IF state = "STATISTICS" THEN "GAME" ELSE state
  /\ buffer.text <=> state \in {"GAME", "STATISTICS"}
  /\ buffer.box <=> state = "STATISTICS"

\* A change of screen is displayed, whole, with the third tick after it, however
\* keys and mouse have drawn and changed screens in between: the lasting buffer
\* has it with the first, the second with the second.
DisplayFollows ==
  /\ drawn >= 1 => Shows(no_mouse, currentState)
  /\ drawn >= 2 => Shows(secondary, currentState)
  /\ drawn >= 3 => Shows(main, currentState)

\* The box of the statistics, drawn without a background of its own, is over the
\* game it is about and over no other screen: a game is drawn before it ends.
StatisticsOverGame == \A buffer \in Buffers : buffer.box => buffer.base = "GAME" /\ buffer.text

\* There is one caret, the one the program would delete next, and it is under the
\* letter to be typed.
CaretFollows ==
  /\ carets \subseteq {caret}
  /\ currentState = "GAME" /\ ~gameStateChange /\ place[2] < Length => carets = {place}

\* What moves leaves no trail: a picture has one cursor, on the screen, and in a
\* game one time, which is not more than a second behind.
NoTrails ==
  /\ \A buffer \in {main, secondary} :
       /\ Cardinality({m \in buffer.moving : m[1] = "cursor"}) <= 1
       /\ Cardinality({m \in buffer.moving : m[1] = "time"}) <= 1
       /\ \A m \in buffer.moving : m[1] = "cursor" => m[2] \in 0..MaxX
  /\ currentState = "GAME" /\ drawn = 3 => \E t \in {timer, timer + 1} : <<"time", t>> \in main.moving

\* When no word has been finished for the length of an animation the panda on
\* the screen is at rest, whatever animations ran before, one or both.
PandaRests ==
  currentState = "GAME" /\ drawn = 3 /\ quiet = Quiet => main.panda = "rest"

=============================================================================

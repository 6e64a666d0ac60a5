----------------------------- MODULE ViewProofs -----------------------------
(***************************************************************************)
(* Proofs about View, from one inductive invariant (ViewInv): the screens  *)
(* and their changes (ScreenInv), what moves in each buffer (MovingInv),   *)
(* how far the animations have run and where the panda at rest has come to *)
(* (PandaInv), and the properties of the screen, which are inductive with  *)
(* them.                                                                   *)
(***************************************************************************)
EXTENDS View, FiniteSetTheorems, TLAPS

----------------------------------------------------------------------------
(* Buffers                                                                 *)

Picture ==
  [base : States \cup {"none"}, text : BOOLEAN, box : BOOLEAN,
   panda : {"none", "rest", "happy", "mad"}, moving : SUBSET ({"cursor", "time"} \X Int)]

\* The changes a drawing routine makes to a buffer.
LEMMA EmptyPicture ==
  ASSUME NEW state \in States \cup {"none"}
  PROVE  /\ Empty(state) \in Picture
         /\ Empty(state).base = state /\ Empty(state).text = FALSE /\ Empty(state).box = FALSE
         /\ Empty(state).panda = "none" /\ Empty(state).moving = {}
BY DEF Empty, Picture

LEMMA WithText ==
  ASSUME NEW b \in Picture, NEW c, c = [b EXCEPT !.text = TRUE]
  PROVE  /\ c \in Picture
         /\ c.base = b.base /\ c.text = TRUE /\ c.box = b.box /\ c.panda = b.panda /\ c.moving = b.moving
BY DEF Picture

LEMMA WithBox ==
  ASSUME NEW b \in Picture, NEW c, c = [b EXCEPT !.box = TRUE]
  PROVE  /\ c \in Picture
         /\ c.base = b.base /\ c.text = b.text /\ c.box = TRUE /\ c.panda = b.panda /\ c.moving = b.moving
BY DEF Picture

LEMMA WithPanda ==
  ASSUME NEW b \in Picture, NEW p \in {"none", "rest", "happy", "mad"}, NEW c, c = [b EXCEPT !.panda = p]
  PROVE  /\ c \in Picture
         /\ c.base = b.base /\ c.text = b.text /\ c.box = b.box /\ c.panda = p /\ c.moving = b.moving
BY DEF Picture

LEMMA WithMoving ==
  ASSUME NEW b \in Picture, NEW m \in SUBSET ({"cursor", "time"} \X Int), NEW c,
         c = [b EXCEPT !.moving = @ \cup m]
  PROVE  /\ c \in Picture
         /\ c.base = b.base /\ c.text = b.text /\ c.box = b.box /\ c.panda = b.panda
         /\ c.moving = b.moving \cup m
BY DEF Picture

----------------------------------------------------------------------------
(* The animations                                                          *)

\* The ticks an animation has run.
Progress(a) == a.currentFrame * FrameDuration + a.frameCounter

LEMMA RunIsPositive == Run \in Nat /\ Run > 0 /\ Quiet = Run + 2
<1>1. FrameCount \in Nat /\ FrameDuration \in Nat /\ FrameCount > 0 /\ FrameDuration > 0
  BY ViewAssumption
<1> QED  BY <1>1 DEF Run, Quiet

\* An active animation is not at its end.
LEMMA ProgressBound ==
  ASSUME NEW a \in Animation
  PROVE  Progress(a) \in Nat /\ Progress(a) < Run
<1> DEFINE c == a.currentFrame
           f == a.frameCounter
           D == FrameDuration
           N == FrameCount
<1>1. c \in Nat /\ f \in Nat /\ D \in Nat /\ N \in Nat /\ c + 1 <= N /\ f < D
  BY ViewAssumption DEF Animation
<1> HIDE DEF c, f, D, N
<1>2. c * D \in Nat /\ (c + 1) * D = c * D + D /\ (c + 1) * D <= N * D
  BY <1>1
<1>3. c * D + f \in Nat /\ c * D + f < N * D
  BY <1>1, <1>2
<1> QED  BY <1>3 DEF Progress, Run, c, f, D, N

\* A tick takes an animation one on, or ends it.
LEMMA AnimationStep ==
  ASSUME NEW a \in Animation
  PROVE  /\ updateAnimation(a) \in Animation
         /\ updateAnimation(a).isActive => a.isActive /\ Progress(updateAnimation(a)) = Progress(a) + 1
<1> DEFINE u == updateAnimation(a)
<1>0. /\ a.currentFrame \in Nat /\ a.currentFrame < FrameCount
      /\ a.frameCounter \in Nat /\ a.frameCounter < FrameDuration
      /\ FrameDuration \in Nat /\ FrameCount \in Nat /\ a.isActive \in BOOLEAN
  BY ViewAssumption DEF Animation
<1>1. CASE ~a.isActive
  BY <1>1 DEF updateAnimation
<1>2. CASE a.isActive /\ a.frameCounter + 1 < FrameDuration
  <2>1. u = [a EXCEPT !.frameCounter = @ + 1]
    BY <1>2 DEF updateAnimation
  <2>2. u \in Animation
    BY <1>0, <1>2, <2>1 DEF Animation
  <2>3. u.frameCounter = a.frameCounter + 1 /\ u.currentFrame = a.currentFrame
    BY <2>1 DEF Animation
  <2> HIDE DEF u
  <2>4. Progress(u) = Progress(a) + 1
    BY <1>0, <2>3 DEF Progress
  <2> QED  BY <1>2, <2>2, <2>4 DEF u
<1>3. CASE a.isActive /\ ~(a.frameCounter + 1 < FrameDuration) /\ a.currentFrame + 1 < FrameCount
  <2>1. u = [a EXCEPT !.frameCounter = 0, !.currentFrame = @ + 1]
    BY <1>3 DEF updateAnimation
  <2>2. u \in Animation
    <3>1. 0 \in 0..(FrameDuration - 1) /\ a.currentFrame + 1 \in 0..(FrameCount - 1)
      BY <1>0, <1>3
    <3> QED  BY <2>1, <3>1 DEF Animation
  <2>3. u.frameCounter = 0 /\ u.currentFrame = a.currentFrame + 1
    BY <2>1 DEF Animation
  <2> HIDE DEF u
  <2>4. (a.currentFrame + 1) * FrameDuration = a.currentFrame * FrameDuration + FrameDuration
    BY <1>0
  <2>5. FrameDuration = a.frameCounter + 1
    BY <1>0, <1>3
  <2>6. Progress(u) = Progress(a) + 1
    BY <1>0, <2>3, <2>4, <2>5 DEF Progress
  <2> QED  BY <1>3, <2>2, <2>6 DEF u
<1>4. CASE a.isActive /\ ~(a.frameCounter + 1 < FrameDuration) /\ ~(a.currentFrame + 1 < FrameCount)
  <2>1. u = [isActive |-> FALSE, currentFrame |-> 0, frameCounter |-> 0]
    BY <1>4 DEF updateAnimation
  <2>2. u \in Animation /\ ~u.isActive
    BY <1>0, <2>1 DEF Animation
  <2> QED  BY <2>2
<1> QED  BY <1>1, <1>2, <1>3, <1>4

LEMMA StartedType == Started \in Animation /\ Progress(Started) = 0
<1>1. Started \in Animation
  BY ViewAssumption DEF Started, Animation
<1>2. Started.currentFrame = 0 /\ Started.frameCounter = 0
  BY DEF Started
<1> QED  BY <1>1, <1>2, ViewAssumption DEF Progress

----------------------------------------------------------------------------
(* The invariant                                                           *)

ViewTypes ==
  /\ currentState \in States /\ gameStateChange \in BOOLEAN
  /\ timer \in Nat /\ counter \in 0..(TicksPerSecond - 1)
  /\ main \in Picture /\ secondary \in Picture /\ no_mouse \in Picture
  /\ x \in Int /\ place \in Places \cup {Nowhere} /\ caret \in Places \cup {Nowhere}
  /\ carets \subseteq Places /\ handled \in 0..MaxHandled
  /\ stars \in 0..MaxStars
  /\ happy \in Animation /\ mad \in Animation
  /\ drawn \in 0..3 /\ quiet \in 0..Quiet

\* A change of screen waits to be drawn exactly until the next tick; the statistics
\* come with a tick and never wait.  A game has a place in the text, and time left
\* until it has been drawn.
ScreenInv ==
  /\ gameStateChange <=> drawn = 0
  /\ gameStateChange => currentState # "STATISTICS"
  /\ currentState = "GAME" => place \in Places /\ (drawn = 0 => timer > 0)

\* What one tick draws of what moves.
OnePicture(moving) ==
  \/ moving = {}
  \/ \E p \in 0..MaxX : moving = {<<"cursor", p>>}
  \/ \E p \in 0..MaxX, t \in Nat : moving = {<<"cursor", p>>, <<"time", t>>}

\* The lasting buffer has nothing that moves; the others have it of one tick, the
\* second of the last and the main one of the tick before.
MovingInv ==
  /\ no_mouse.moving = {} /\ OnePicture(secondary.moving) /\ OnePicture(main.moving)
  /\ currentState = "GAME" =>
       /\ drawn >= 1 => <<"time", timer>> \in secondary.moving
       /\ drawn >= 2 => \E t \in {timer, timer + 1} : <<"time", t>> \in main.moving

\* An animation has run since the last one was started, at least; when all have
\* ended the panda at rest passes through the buffers.
PandaInv ==
  /\ happy.isActive => Progress(happy) >= quiet
  /\ mad.isActive => Progress(mad) >= quiet
  /\ currentState = "GAME" =>
       /\ drawn >= 1 /\ quiet >= Run => no_mouse.panda = "rest"
       /\ drawn >= 2 /\ quiet >= Run + 1 => secondary.panda = "rest"
       /\ drawn >= 3 /\ quiet >= Run + 2 => main.panda = "rest"

ScreenParts == StatisticsOverGame /\ DisplayFollows /\ CaretFollows

ViewInv == ViewTypes /\ ScreenInv /\ ScreenParts /\ MovingInv /\ PandaInv

LEMMA ViewInitially == Init => ViewInv
<1> SUFFICES ASSUME Init  PROVE ViewInv
  OBVIOUS
<1>0. /\ Empty("none") \in Picture /\ Empty("none").moving = {} /\ Empty("none").box = FALSE
  BY EmptyPicture
<1>1. happy \in Animation /\ mad \in Animation /\ ~happy.isActive /\ ~mad.isActive
  BY ViewAssumption DEF Init, Animation
<1>2. gameStateChange \in BOOLEAN
  BY Zenon DEF Init
<1>3. ViewTypes
  BY <1>0, <1>1, <1>2, ViewAssumption, RunIsPositive DEF Init, ViewTypes, States
<1>4. ScreenInv
  BY DEF Init, ScreenInv
<1>5. StatisticsOverGame
  BY <1>0 DEF Init, StatisticsOverGame, Buffers
<1>6. DisplayFollows /\ CaretFollows
  BY DEF Init, DisplayFollows, CaretFollows
<1>7. MovingInv
  BY <1>0 DEF Init, MovingInv, OnePicture
<1>8. PandaInv
  BY <1>1 DEF Init, PandaInv
<1> QED  BY <1>3, <1>4, <1>5, <1>6, <1>7, <1>8 DEF ViewInv, ScreenParts

----------------------------------------------------------------------------
(* The text                                                                *)

\* The words are drawn: there is one caret, at the place, if a letter is there.
LEMMA TextDrawn ==
  ASSUME ViewTypes, carets \subseteq {caret},
         NEW buffer \in Picture, NEW shown \in SUBSET carets, NEW at \in Places,
         DrawWords(buffer, shown, at)
  PROVE  /\ no_mouse' \in Picture
         /\ no_mouse'.base = buffer.base /\ no_mouse'.text = TRUE /\ no_mouse'.box = buffer.box
         /\ no_mouse'.panda = buffer.panda /\ no_mouse'.moving = buffer.moving
         /\ place' = at
         /\ caret' \in Places \cup {Nowhere} /\ carets' \subseteq Places
         /\ carets' \subseteq {caret'} /\ (at[2] < Length => carets' = {at})
<1>1. no_mouse' = [buffer EXCEPT !.text = TRUE] /\ MoveCaret(shown, at) /\ place' = at
  BY DEF DrawWords
<1>2. /\ caret' \in Places \cup {Nowhere} /\ carets' \subseteq Places
      /\ carets' \subseteq {caret'} /\ (at[2] < Length => carets' = {at})
  BY <1>1 DEF MoveCaret, ViewTypes
<1> QED  BY <1>1, <1>2, WithText

\* A handler in a game draws the words, over what is there or over an empty screen.
LEMMA TextStep ==
  ASSUME ViewInv, InText,
         NEW buffer \in {no_mouse, Empty("GAME")}, NEW shown \in SUBSET carets, NEW at \in Places,
         DrawWords(buffer, shown, at)
  PROVE  /\ ScreenInv' /\ ScreenParts' /\ MovingInv' /\ no_mouse' \in Picture
         /\ no_mouse'.panda = buffer.panda
         /\ place' \in Places /\ caret' \in Places \cup {Nowhere} /\ carets' \subseteq Places
<1>t. ViewTypes /\ carets \subseteq {caret}
  BY DEF ViewInv, ScreenParts, CaretFollows
<1>0. /\ currentState = "GAME" /\ currentState' = currentState /\ gameStateChange' = gameStateChange
      /\ timer' = timer /\ main' = main /\ secondary' = secondary /\ drawn' = drawn
  BY DEF InText
<1>b. /\ buffer \in Picture /\ buffer.moving = {} /\ (buffer.box => buffer.base = "GAME")
      /\ drawn >= 1 => buffer.base = "GAME" /\ ~buffer.box
  <2>1. CASE buffer = no_mouse
    <3>1. no_mouse.box => no_mouse.base = "GAME"
      BY DEF ViewInv, ScreenParts, StatisticsOverGame, Buffers
    <3>2. drawn >= 1 => no_mouse.base = "GAME" /\ ~no_mouse.box
      BY <1>0 DEF ViewInv, ScreenParts, DisplayFollows, Shows
    <3> QED  BY <1>t, <2>1, <3>1, <3>2 DEF ViewInv, ViewTypes, MovingInv
  <2>2. CASE buffer = Empty("GAME")
    BY <2>2, EmptyPicture DEF States
  <2> QED  BY <2>1, <2>2
<1>1. /\ no_mouse' \in Picture
      /\ no_mouse'.base = buffer.base /\ no_mouse'.text = TRUE /\ no_mouse'.box = buffer.box
      /\ no_mouse'.panda = buffer.panda /\ no_mouse'.moving = buffer.moving
      /\ place' = at
      /\ caret' \in Places \cup {Nowhere} /\ carets' \subseteq Places
      /\ carets' \subseteq {caret'} /\ (at[2] < Length => carets' = {at})
  BY <1>t, <1>b, TextDrawn
<1>2. ScreenInv'
  BY <1>0, <1>1 DEF ViewInv, ScreenInv
<1>3. StatisticsOverGame'
  <2>1. no_mouse'.box => no_mouse'.base = "GAME" /\ no_mouse'.text
    BY <1>b, <1>1
  <2>2. \A b \in {main', secondary'} : b.box => b.base = "GAME" /\ b.text
    BY <1>0 DEF ViewInv, ScreenParts, StatisticsOverGame, Buffers
  <2> QED  BY <2>1, <2>2 DEF StatisticsOverGame, Buffers
<1>4. DisplayFollows'
  <2>1. drawn >= 1 => no_mouse'.base = "GAME" /\ no_mouse'.text /\ ~no_mouse'.box
    BY <1>b, <1>1
  <2> QED  BY <1>0, <2>1 DEF ViewInv, ScreenParts, DisplayFollows, Shows
<1>5. CaretFollows'
  BY <1>0, <1>1 DEF CaretFollows
<1>6. MovingInv'
  BY <1>0, <1>1, <1>b DEF ViewInv, MovingInv
<1> QED  BY <1>1, <1>2, <1>3, <1>4, <1>5, <1>6 DEF ScreenParts

\* A handler that starts no animation.
LEMMA TypedStep ==
  ASSUME ViewInv, InText, NEW shown \in SUBSET carets, NEW at \in Places,
         DrawWords(no_mouse, shown, at), stars' \in 0..MaxStars, UNCHANGED pandaVars
  PROVE  ViewInv'
<1>1. /\ ScreenInv' /\ ScreenParts' /\ MovingInv' /\ no_mouse' \in Picture
      /\ no_mouse'.panda = no_mouse.panda
      /\ place' \in Places /\ caret' \in Places \cup {Nowhere} /\ carets' \subseteq Places
  BY TextStep
<1>2. /\ UNCHANGED <<currentState, gameStateChange, timer, counter, main, secondary, x, drawn>>
      /\ happy' = happy /\ mad' = mad /\ quiet' = quiet /\ handled' \in 0..MaxHandled
  BY ViewAssumption DEF InText, Handle, pandaVars, ViewInv, ViewTypes
<1>3. ViewTypes'
  BY <1>1, <1>2 DEF ViewInv, ViewTypes
<1>4. PandaInv'
  BY <1>1, <1>2 DEF ViewInv, PandaInv, Progress
<1> QED  BY <1>1, <1>3, <1>4 DEF ViewInv

LEMMA PlaceTypes ==
  ASSUME NEW p \in Places
  PROVE  p[1] \in 1..ScrollAt /\ p[2] \in 0..Length /\ p = <<p[1], p[2]>>
BY DEF Places

LEMMA ProcessKeyStep ==
  ASSUME ViewInv, ProcessKey
  PROVE  ViewInv'
<1>0. place \in Places /\ InText
  BY DEF ProcessKey, InText, ViewInv, ScreenInv
<1>1. <<place[1], place[2] + 1>> \in Places
  BY <1>0, PlaceTypes, ViewAssumption DEF ProcessKey, Places
<1>2. stars' \in 0..MaxStars /\ UNCHANGED pandaVars
  BY DEF ProcessKey, ViewInv, ViewTypes
<1>3. \E shown \in SUBSET carets : DrawWords(no_mouse, shown, <<place[1], place[2] + 1>>)
  BY DEF ProcessKey
<1> QED  BY <1>0, <1>1, <1>2, <1>3, TypedStep

LEMMA DeleteStep ==
  ASSUME ViewInv, HandleDeleteKey
  PROVE  ViewInv'
<1>0. place \in Places /\ InText
  BY DEF HandleDeleteKey, InText, ViewInv, ScreenInv
<1> DEFINE to == IF place[2] > 0 THEN <<place[1], place[2] - 1>> ELSE place
<1>1. to \in Places
  BY <1>0, PlaceTypes, ViewAssumption DEF Places
<1>2. stars' \in 0..MaxStars /\ UNCHANGED pandaVars /\ DrawWords(no_mouse, carets, to)
  BY DEF HandleDeleteKey, ViewInv, ViewTypes
<1> HIDE DEF to
<1> QED  BY <1>0, <1>1, <1>2, TypedStep

LEMMA FillStep ==
  ASSUME ViewInv, FillCurrentWord
  PROVE  ViewInv'
<1>0. place \in Places /\ InText
  BY DEF FillCurrentWord, InText, ViewInv, ScreenInv
<1>1. <<place[1], Length>> \in Places
  BY <1>0, PlaceTypes, ViewAssumption DEF Places
<1>2. stars' \in 0..MaxStars /\ UNCHANGED pandaVars
  BY ViewAssumption DEF FillCurrentWord, ViewInv, ViewTypes
<1>3. DrawWords(no_mouse, carets, <<place[1], Length>>)
  BY DEF FillCurrentWord
<1> QED  BY <1>0, <1>1, <1>2, <1>3, TypedStep

LEMMA SpaceStep ==
  ASSUME ViewInv, NEW correct \in BOOLEAN, HandleSpaceKey(correct)
  PROVE  ViewInv'
<1>0. place \in Places /\ InText /\ quiet' = 0 /\ stars' = stars
  BY DEF HandleSpaceKey, InText, ViewInv, ScreenInv
<1>1. PICK buffer \in {no_mouse, Empty("GAME")}, shown \in SUBSET carets, at \in Places :
        DrawWords(buffer, shown, at)
  <2>1. CASE place[1] = ScrollAt
    <3>1. <<AfterScroll, 0>> \in Places
      BY ViewAssumption DEF Places
    <3> QED  BY <2>1, <3>1 DEF HandleSpaceKey
  <2>2. CASE place[1] # ScrollAt
    <3>1. <<place[1] + 1, 0>> \in Places
      BY <1>0, <2>2, PlaceTypes, ViewAssumption DEF Places
    <3> QED  BY <2>2, <3>1 DEF HandleSpaceKey
  <2> QED  BY <2>1, <2>2
<1>2. /\ ScreenInv' /\ ScreenParts' /\ MovingInv' /\ no_mouse' \in Picture
      /\ place' \in Places /\ caret' \in Places \cup {Nowhere} /\ carets' \subseteq Places
  BY <1>0, <1>1, TextStep
<1>3. happy' \in {happy, Started} /\ mad' \in {mad, Started}
  BY DEF HandleSpaceKey
<1>4. happy' \in Animation /\ mad' \in Animation
  BY <1>3, StartedType DEF ViewInv, ViewTypes
<1>5. /\ UNCHANGED <<currentState, gameStateChange, timer, counter, main, secondary, x, drawn>>
      /\ handled' \in 0..MaxHandled
  BY <1>0, ViewAssumption DEF InText, Handle, ViewInv, ViewTypes
<1>6. ViewTypes'
  BY <1>0, <1>2, <1>4, <1>5, RunIsPositive DEF ViewInv, ViewTypes
<1>7. Progress(happy') >= 0 /\ Progress(mad') >= 0
  BY <1>4, ProgressBound
<1>8. PandaInv'
  BY <1>0, <1>7, RunIsPositive DEF PandaInv, Progress
<1> QED  BY <1>2, <1>6, <1>8 DEF ViewInv

----------------------------------------------------------------------------
(* Screens and mouse                                                       *)

LEMMA GoToStep ==
  ASSUME ViewInv, NEW state \in States, GoTo(state)
  PROVE  ViewInv'
<1>1. /\ currentState' = state /\ gameStateChange' = TRUE /\ drawn' = 0
      /\ UNCHANGED <<counter, main, secondary, no_mouse, x, caret, carets, happy, mad, quiet>>
  BY DEF GoTo, frames, pandaVars
<1>2. state # "STATISTICS"
  BY DEF GoTo, Leads, ViewInv, ViewTypes, States
<1>3. /\ timer' \in Nat /\ stars' \in 0..MaxStars /\ place' \in Places \cup {Nowhere}
      /\ state = "GAME" => timer' > 0 /\ place' \in Places
  <2>1. CASE state = "GAME"
    <3>1. timer' \in Durations /\ stars' = MaxStars /\ place' = <<1, 0>>
      BY <2>1 DEF GoTo
    <3>2. timer' \in Nat /\ timer' > 0 /\ stars' \in 0..MaxStars
      BY <3>1, ViewAssumption
    <3>3. place' \in Places
      BY <3>1, ViewAssumption DEF Places
    <3> QED  BY <3>2, <3>3
  <2>2. CASE state # "GAME"
    BY <2>2 DEF GoTo, ViewInv, ViewTypes
  <2> QED  BY <2>1, <2>2
<1>4. ViewTypes'
  <2>1. gameStateChange' \in BOOLEAN
    BY <1>1, Zenon
  <2>2. handled' \in 0..MaxHandled
    BY ViewAssumption DEF GoTo, Handle, ViewInv, ViewTypes
  <2> QED  BY <1>1, <1>3, <2>1, <2>2 DEF ViewInv, ViewTypes
<1>5. ScreenInv'
  BY <1>1, <1>2, <1>3 DEF ScreenInv
<1>6. StatisticsOverGame'
  BY <1>1 DEF ViewInv, ScreenParts, StatisticsOverGame, Buffers
<1>7. DisplayFollows'
  BY <1>1 DEF DisplayFollows
<1>8. CaretFollows'
  BY <1>1 DEF ViewInv, ScreenParts, CaretFollows
<1>9. MovingInv'
  BY <1>1 DEF ViewInv, MovingInv
<1>10. PandaInv'
  BY <1>1 DEF ViewInv, PandaInv, Progress
<1> QED  BY <1>4, <1>5, <1>6, <1>7, <1>8, <1>9, <1>10 DEF ViewInv, ScreenParts

LEMMA ParseStep ==
  ASSUME ViewInv, NEW dx \in {-1, 1}, Parse(dx)
  PROVE  ViewInv'
<1>1. /\ UNCHANGED <<currentState, gameStateChange, timer, counter, main, secondary, no_mouse, place, caret,
                     carets, stars, happy, mad, quiet, drawn>>
      /\ x' = x + dx
  BY DEF Parse, frames, textVars, pandaVars
<1>2. ViewTypes'
  <2>1. handled' \in 0..MaxHandled /\ x' \in Int
    BY <1>1, ViewAssumption DEF Parse, Handle, ViewInv, ViewTypes
  <2> QED  BY <1>1, <2>1 DEF ViewInv, ViewTypes
<1>3. ScreenInv' /\ CaretFollows'
  BY <1>1 DEF ViewInv, ScreenInv, ScreenParts, CaretFollows
<1>4. StatisticsOverGame' /\ DisplayFollows'
  BY <1>1 DEF ViewInv, ScreenParts, StatisticsOverGame, Buffers, DisplayFollows, Shows
<1>5. MovingInv' /\ PandaInv'
  BY <1>1 DEF ViewInv, MovingInv, PandaInv, Progress
<1> QED  BY <1>2, <1>3, <1>4, <1>5 DEF ViewInv, ScreenParts

----------------------------------------------------------------------------
(* The tick                                                                *)

\* The screen a tick draws.
Screen == IF GameOver THEN "STATISTICS" ELSE currentState

\* The panda is at rest once the animations are over.
LEMMA PandaDrawn ==
  ASSUME ViewInv, Tick
  PROVE  /\ happy' \in Animation /\ mad' \in Animation
         /\ happy'.isActive => Progress(happy') >= quiet'
         /\ mad'.isActive => Progress(mad') >= quiet'
         /\ Panda \in {"none", "rest", "happy", "mad"}
         /\ quiet' \in 0..Quiet /\ quiet' <= quiet + 1
         /\ quiet' >= Run => Panda = "rest"
<1>1. /\ happy' = updateAnimation(happy) /\ mad' = updateAnimation(mad)
      /\ quiet' = IF quiet < Quiet THEN quiet + 1 ELSE Quiet
  BY DEF Tick
<1>2. happy \in Animation /\ mad \in Animation /\ quiet \in Nat /\ quiet <= Quiet
  BY RunIsPositive DEF ViewInv, ViewTypes
<1>3. quiet' \in 0..Quiet /\ quiet' <= quiet + 1
  BY <1>1, <1>2, RunIsPositive
<1>4. /\ happy' \in Animation /\ mad' \in Animation
      /\ happy'.isActive => happy.isActive /\ Progress(happy') = Progress(happy) + 1
      /\ mad'.isActive => mad.isActive /\ Progress(mad') = Progress(mad) + 1
  BY <1>1, <1>2, AnimationStep
<1>5. Progress(happy) \in Nat /\ Progress(mad) \in Nat
  BY <1>2, ProgressBound
<1>6. /\ happy'.isActive => Progress(happy') >= quiet'
      /\ mad'.isActive => Progress(mad') >= quiet'
  <2>1. /\ happy.isActive => Progress(happy) >= quiet
        /\ mad.isActive => Progress(mad) >= quiet
    BY DEF ViewInv, PandaInv
  <2> QED  BY <1>2, <1>3, <1>4, <1>5, <2>1
<1>7. Progress(happy') < Run /\ Progress(mad') < Run /\ Progress(happy') \in Nat /\ Progress(mad') \in Nat
  BY <1>4, ProgressBound
<1>8. Panda \in {"none", "rest", "happy", "mad"}
  BY DEF Panda, Frame
<1>9. quiet' >= Run => ~happy'.isActive /\ ~mad'.isActive
  BY <1>3, <1>6, <1>7, RunIsPositive
<1> QED  BY <1>3, <1>4, <1>6, <1>8, <1>9 DEF Panda

\* What moves is drawn once.
LEMMA MovingDrawn ==
  ASSUME ViewInv, Tick
  PROVE  /\ timer' \in Nat /\ x' \in 0..MaxX /\ timer \in {timer', timer' + 1}
         /\ Moving(Screen) \in SUBSET ({"cursor", "time"} \X Int) /\ OnePicture(Moving(Screen))
         /\ Screen = "GAME" => <<"time", timer'>> \in Moving(Screen)
<1>1. timer' \in Nat /\ timer \in {timer', timer' + 1}
  BY DEF Tick, ViewInv, ViewTypes
<1>2. x' \in 0..MaxX
  BY ViewAssumption DEF Tick, Clamp, ViewInv, ViewTypes
<1>3. Moving(Screen) = {<<"cursor", x'>>} \/ Moving(Screen) = {<<"cursor", x'>>, <<"time", timer'>>}
  BY DEF Moving
<1>4. Moving(Screen) \in SUBSET ({"cursor", "time"} \X Int)
  BY <1>1, <1>2, <1>3
<1>5. OnePicture(Moving(Screen))
  BY <1>1, <1>2, <1>3 DEF OnePicture
<1>6. Screen = "GAME" => <<"time", timer'>> \in Moving(Screen)
  BY DEF Moving
<1> QED  BY <1>1, <1>2, <1>4, <1>5, <1>6

\* What a tick draws into the lasting buffer: the screen the program is in then.
LEMMA ScreenDrawn ==
  ASSUME ViewInv, Tick
  PROVE  /\ no_mouse' \in Picture /\ no_mouse'.moving = {} /\ Shows(no_mouse', Screen)
         /\ Screen = "GAME" => no_mouse'.panda = Panda
         /\ caret' \in Places \cup {Nowhere} /\ carets' \subseteq Places /\ carets' \subseteq {caret'}
         /\ Screen = "GAME" /\ place[2] < Length => carets' = {place}
<1>0. /\ no_mouse \in Picture /\ no_mouse.moving = {} /\ carets \subseteq {caret} /\ carets \subseteq Places
      /\ caret \in Places \cup {Nowhere} /\ Panda \in {"none", "rest", "happy", "mad"}
      /\ currentState \in States /\ drawn \in 0..3
  BY PandaDrawn DEF ViewInv, ViewTypes, MovingInv, ScreenParts, CaretFollows
<1>1. IF gameStateChange \/ GameOver THEN DrawFull(Screen) ELSE DrawPanda(Screen)
  BY DEF Tick, Screen
<1>2. GameOver => drawn >= 1
  BY <1>0 DEF GameOver, ViewInv, ScreenInv
<1>3. drawn >= 1 => Shows(no_mouse, currentState)
  BY DEF ViewInv, ScreenParts, DisplayFollows
<1>4. Screen \in States
  BY <1>0 DEF Screen, States
<1>5. CASE DrawFull(Screen) /\ Screen = "GAME"
  <2>1. no_mouse' = [Empty("GAME") EXCEPT !.text = TRUE, !.panda = Panda] /\ MoveCaret({}, place)
    BY <1>5 DEF DrawFull
  <2>2. /\ no_mouse' \in Picture /\ no_mouse'.moving = {} /\ no_mouse'.panda = Panda
        /\ no_mouse'.base = "GAME" /\ no_mouse'.text = TRUE /\ no_mouse'.box = FALSE
    BY <1>0, <2>1 DEF Empty, Picture, States
  <2>3. Shows(no_mouse', Screen)
    BY <1>5, <2>2 DEF Shows
  <2>4. place \in Places
    BY <1>5 DEF Screen, ViewInv, ScreenInv
  <2>5. /\ caret' \in Places \cup {Nowhere} /\ carets' \subseteq Places /\ carets' \subseteq {caret'}
        /\ place[2] < Length => carets' = {place}
    BY <1>0, <2>1, <2>4 DEF MoveCaret
  <2> QED  BY <2>2, <2>3, <2>5
<1>6. CASE DrawFull(Screen) /\ Screen = "STATISTICS" /\ (gameStateChange \/ GameOver)
  <2>1. no_mouse' = [no_mouse EXCEPT !.box = TRUE] /\ caret' = caret /\ carets' = carets
    BY <1>6 DEF DrawFull
  <2>2. GameOver
    BY <1>6 DEF Screen, ViewInv, ScreenInv
  <2>3. no_mouse.base = "GAME" /\ no_mouse.text
    BY <1>2, <1>3, <2>2 DEF GameOver, Shows
  <2>4. /\ no_mouse' \in Picture /\ no_mouse'.base = no_mouse.base /\ no_mouse'.text = no_mouse.text
        /\ no_mouse'.box = TRUE /\ no_mouse'.moving = no_mouse.moving
    BY <1>0, <2>1, WithBox
  <2>5. Shows(no_mouse', Screen)
    BY <1>6, <2>3, <2>4 DEF Shows
  <2> QED  BY <1>0, <1>6, <2>1, <2>4, <2>5
<1>7. CASE DrawFull(Screen) /\ Screen \notin {"GAME", "STATISTICS"}
  <2>1. no_mouse' = Empty(Screen) /\ caret' = caret /\ carets' = {}
    BY <1>7 DEF DrawFull
  <2>2. /\ no_mouse' \in Picture /\ no_mouse'.moving = {}
        /\ no_mouse'.base = Screen /\ no_mouse'.text = FALSE /\ no_mouse'.box = FALSE
    BY <1>4, <2>1, EmptyPicture
  <2>3. Shows(no_mouse', Screen)
    BY <1>7, <2>2 DEF Shows
  <2> QED  BY <1>0, <1>7, <2>1, <2>2, <2>3
<1>8. CASE DrawPanda(Screen) /\ ~gameStateChange /\ ~GameOver
  <2>0. Screen = currentState /\ drawn >= 1 /\ caret' = caret /\ carets' = carets
    BY <1>0, <1>8 DEF Screen, ViewInv, ScreenInv, DrawPanda
  <2>1. Shows(no_mouse, Screen)
    BY <1>3, <2>0
  <2>2. Screen = "GAME" /\ place[2] < Length => carets = {place}
    BY <1>8, <2>0 DEF ViewInv, ScreenParts, CaretFollows
  <2>3. CASE Screen = "GAME"
    <3>1. no_mouse' = [no_mouse EXCEPT !.panda = Panda]
      BY <1>8, <2>3 DEF DrawPanda
    <3>2. /\ no_mouse' \in Picture /\ no_mouse'.base = no_mouse.base /\ no_mouse'.text = no_mouse.text
          /\ no_mouse'.box = no_mouse.box /\ no_mouse'.moving = no_mouse.moving /\ no_mouse'.panda = Panda
      BY <1>0, <3>1, WithPanda
    <3>3. Shows(no_mouse', Screen)
      BY <2>1, <3>2 DEF Shows
    <3> QED  BY <1>0, <2>0, <2>2, <3>2, <3>3
  <2>4. CASE Screen # "GAME"
    <3>1. no_mouse' = no_mouse
      BY <1>8, <2>4 DEF DrawPanda
    <3> QED  BY <1>0, <2>0, <2>1, <2>4, <3>1
  <2> QED  BY <2>3, <2>4
<1> QED  BY <1>1, <1>5, <1>6, <1>7, <1>8

LEMMA TickStep ==
  ASSUME ViewInv, Tick
  PROVE  ViewInv'
<1>0. /\ main' = secondary /\ secondary' = [no_mouse EXCEPT !.moving = @ \cup Moving(Screen)]
      /\ currentState' = Screen /\ gameStateChange' = FALSE
      /\ drawn' = IF GameOver THEN 1 ELSE IF drawn < 3 THEN drawn + 1 ELSE 3
      /\ counter' = (counter + 1) % TicksPerSecond
      /\ place' = place /\ stars' = stars /\ handled' = handled
  BY DEF Tick, CopyBuffers, Screen
<1>n. /\ no_mouse' \in Picture /\ no_mouse'.moving = {} /\ Shows(no_mouse', Screen)
      /\ Screen = "GAME" => no_mouse'.panda = Panda
      /\ caret' \in Places \cup {Nowhere} /\ carets' \subseteq Places /\ carets' \subseteq {caret'}
      /\ Screen = "GAME" /\ place[2] < Length => carets' = {place}
  BY ScreenDrawn
<1>m. /\ timer' \in Nat /\ x' \in 0..MaxX /\ timer \in {timer', timer' + 1}
      /\ Moving(Screen) \in SUBSET ({"cursor", "time"} \X Int) /\ OnePicture(Moving(Screen))
      /\ Screen = "GAME" => <<"time", timer'>> \in Moving(Screen)
  BY MovingDrawn
<1>p. /\ happy' \in Animation /\ mad' \in Animation
      /\ happy'.isActive => Progress(happy') >= quiet'
      /\ mad'.isActive => Progress(mad') >= quiet'
      /\ quiet' \in 0..Quiet /\ quiet' <= quiet + 1
      /\ quiet' >= Run => Panda = "rest"
  BY PandaDrawn
<1>t. /\ no_mouse \in Picture /\ no_mouse.moving = {} /\ secondary \in Picture /\ drawn \in 0..3
      /\ currentState \in States /\ quiet \in Nat
  BY RunIsPositive DEF ViewInv, ViewTypes, MovingInv
<1>s. /\ secondary' \in Picture /\ secondary'.base = no_mouse.base /\ secondary'.text = no_mouse.text
      /\ secondary'.box = no_mouse.box /\ secondary'.panda = no_mouse.panda
      /\ secondary'.moving = Moving(Screen)
  BY <1>0, <1>m, <1>t, WithMoving
<1>d. /\ drawn' \in 1..3
      /\ drawn' >= 2 => Screen = currentState /\ drawn >= 1
      /\ drawn' >= 3 => drawn >= 2
  BY <1>0, <1>t DEF Screen
<1>1. ViewTypes'
  <2>1. gameStateChange' \in BOOLEAN
    BY <1>0, Zenon
  <2>2. counter' \in 0..(TicksPerSecond - 1)
    BY <1>0, ViewAssumption DEF ViewInv, ViewTypes
  <2>3. Screen \in States /\ x' \in Int
    BY <1>t, <1>m, ViewAssumption DEF Screen, States
  <2> QED  BY <1>0, <1>n, <1>m, <1>p, <1>t, <1>s, <1>d, <2>1, <2>2, <2>3 DEF ViewInv, ViewTypes
<1>2. ScreenInv'
  BY <1>0, <1>d DEF ViewInv, ScreenInv, Screen
<1>3. StatisticsOverGame'
  <2>1. no_mouse'.box => no_mouse'.base = "GAME" /\ no_mouse'.text
    BY <1>n DEF Shows
  <2>2. secondary'.box => secondary'.base = "GAME" /\ secondary'.text
    BY <1>s DEF ViewInv, ScreenParts, StatisticsOverGame, Buffers
  <2>3. main'.box => main'.base = "GAME" /\ main'.text
    BY <1>0 DEF ViewInv, ScreenParts, StatisticsOverGame, Buffers
  <2> QED  BY <2>1, <2>2, <2>3 DEF StatisticsOverGame, Buffers
<1>4. DisplayFollows'
  <2>1. drawn >= 1 => Shows(no_mouse, currentState)
    BY DEF ViewInv, ScreenParts, DisplayFollows
  <2>2. drawn >= 2 => Shows(secondary, currentState)
    BY DEF ViewInv, ScreenParts, DisplayFollows
  <2>3. drawn' >= 2 => Shows(secondary', Screen)
    BY <1>s, <1>d, <2>1 DEF Shows
  <2>4. drawn' >= 3 => Shows(main', Screen)
    BY <1>0, <1>d, <2>2 DEF Shows
  <2> QED  BY <1>0, <1>n, <2>3, <2>4 DEF DisplayFollows, Shows
<1>5. CaretFollows'
  BY <1>0, <1>n DEF CaretFollows
<1>6. MovingInv'
  <2>1. OnePicture(secondary'.moving) /\ OnePicture(main'.moving)
    BY <1>0, <1>m, <1>s DEF ViewInv, MovingInv
  <2>2. Screen = "GAME" => <<"time", timer'>> \in secondary'.moving
    BY <1>m, <1>s
  <2>3. Screen = "GAME" /\ drawn' >= 2 => <<"time", timer>> \in main'.moving
    BY <1>0, <1>d DEF ViewInv, MovingInv
  <2> QED  BY <1>0, <1>m, <1>n, <2>1, <2>2, <2>3 DEF MovingInv, OnePicture
<1>7. PandaInv'
  <2> SUFFICES ASSUME Screen = "GAME"
               PROVE  /\ quiet' >= Run => no_mouse'.panda = "rest"
                      /\ drawn' >= 2 /\ quiet' >= Run + 1 => secondary'.panda = "rest"
                      /\ drawn' >= 3 /\ quiet' >= Run + 2 => main'.panda = "rest"
    BY <1>0, <1>p DEF PandaInv, Progress
  <2>0. /\ drawn >= 1 /\ quiet >= Run => no_mouse.panda = "rest"
        /\ drawn >= 2 /\ quiet >= Run + 1 => secondary.panda = "rest"
    BY DEF Screen, ViewInv, PandaInv
  <2>1. quiet' >= Run => no_mouse'.panda = "rest"
    BY <1>n, <1>p
  <2>2. drawn' >= 2 /\ quiet' >= Run + 1 => secondary'.panda = "rest"
    BY <1>d, <1>p, <1>s, <1>t, <2>0, RunIsPositive
  <2>3. drawn' >= 3 /\ quiet' >= Run + 2 => main'.panda = "rest"
    BY <1>0, <1>d, <1>p, <1>t, <2>0, RunIsPositive
  <2> QED  BY <2>1, <2>2, <2>3
<1> QED  BY <1>1, <1>2, <1>3, <1>4, <1>5, <1>6, <1>7 DEF ViewInv, ScreenParts

----------------------------------------------------------------------------
(* The theorems                                                            *)

LEMMA ViewStep == ViewInv /\ [Next]_vars => ViewInv'
<1> SUFFICES ASSUME ViewInv, [Next]_vars  PROVE ViewInv'
  OBVIOUS
<1>1. CASE Next
  BY <1>1, TickStep, GoToStep, ProcessKeyStep, DeleteStep, SpaceStep, FillStep, ParseStep DEF Next
<1>2. CASE UNCHANGED vars
  <2>0. UNCHANGED <<currentState, gameStateChange, timer, counter, main, secondary, no_mouse, x, place,
                    caret, carets, stars, happy, mad, quiet, handled, drawn>>
    BY <1>2 DEF vars, frames, textVars, pandaVars
  <2>1. ViewTypes' /\ ScreenInv'
    BY <2>0 DEF ViewInv, ViewTypes, ScreenInv
  <2>2. ScreenParts'
    BY <2>0 DEF ViewInv, ScreenParts, StatisticsOverGame, Buffers, DisplayFollows, Shows, CaretFollows
  <2>3. MovingInv' /\ PandaInv'
    BY <2>0 DEF ViewInv, MovingInv, PandaInv, Progress
  <2> QED  BY <2>1, <2>2, <2>3 DEF ViewInv
<1> QED  BY <1>1, <1>2

LEMMA ViewInvariant == Spec => []ViewInv
BY ViewInitially, ViewStep, PTL DEF Spec

\* The types of the view: the place in the text is on it, and the frames and
\* counters of the animations stay within their arrays.
THEOREM ViewTypeCorrect == Spec => []TypeOK
<1>1. ViewInv => TypeOK
  <2> SUFFICES ASSUME ViewTypes  PROVE TypeOK
    BY DEF ViewInv
  <2>1. \A buffer \in Buffers :
          /\ buffer.base \in States \cup {"none"} /\ buffer.text \in BOOLEAN /\ buffer.box \in BOOLEAN
          /\ buffer.panda \in {"none", "rest", "happy", "mad"}
    BY DEF ViewTypes, Buffers, Picture
  <2> QED  BY <2>1 DEF ViewTypes, TypeOK
<1> QED  BY <1>1, ViewInvariant, PTL

\* GameDrawer: the box of the statistics is over the game it is about.
THEOREM StatisticsAreOverGame == Spec => []StatisticsOverGame
<1>1. ViewInv => StatisticsOverGame
  BY DEF ViewInv, ScreenParts
<1> QED  BY <1>1, ViewInvariant, PTL

\* GameDrawer and the copying of the buffers: a change of screen is on display three
\* ticks later.
THEOREM DisplayIsCurrent == Spec => []DisplayFollows
<1>1. ViewInv => DisplayFollows
  BY DEF ViewInv, ScreenParts
<1> QED  BY <1>1, ViewInvariant, PTL

\* drawWords: one caret, under the letter to be typed, for words of every length.
THEOREM CaretIsAtLetter == Spec => []CaretFollows
<1>1. ViewInv => CaretFollows
  BY DEF ViewInv, ScreenParts
<1> QED  BY <1>1, ViewInvariant, PTL

\* One cursor and one time in what moves.
LEMMA OneOfEach ==
  ASSUME NEW moving, OnePicture(moving)
  PROVE  /\ Cardinality({m \in moving : m[1] = "cursor"}) <= 1
         /\ Cardinality({m \in moving : m[1] = "time"}) <= 1
         /\ \A m \in moving : m[1] = "cursor" => m[2] \in 0..MaxX
<1> DEFINE Of(kind) == {m \in moving : m[1] = kind}
<1>1. \A kind \in {"cursor", "time"} : Of(kind) = {} \/ \E m : Of(kind) = {m}
  <2>1. CASE moving = {}
    BY <2>1
  <2>2. ASSUME NEW p \in 0..MaxX, moving = {<<"cursor", p>>}
        PROVE  Of("cursor") = {<<"cursor", p>>} /\ Of("time") = {}
    BY <2>2
  <2>3. ASSUME NEW p \in 0..MaxX, NEW t \in Nat, moving = {<<"cursor", p>>, <<"time", t>>}
        PROVE  Of("cursor") = {<<"cursor", p>>} /\ Of("time") = {<<"time", t>>}
    BY <2>3
  <2> HIDE DEF Of
  <2> QED  BY <2>1, <2>2, <2>3 DEF OnePicture
<1>2. \A kind \in {"cursor", "time"} : Cardinality(Of(kind)) <= 1
  <2> HIDE DEF Of
  <2> TAKE kind \in {"cursor", "time"}
  <2>1. CASE Of(kind) = {}
    BY <2>1, FS_EmptySet
  <2>2. ASSUME NEW m, Of(kind) = {m}  PROVE Cardinality(Of(kind)) <= 1
    <3>1. Cardinality({m}) = 1
      BY FS_Singleton, Zenon
    <3> QED  BY <2>2, <3>1
  <2> QED  BY <1>1, <2>1, <2>2
<1>3. \A m \in moving : m[1] = "cursor" => m[2] \in 0..MaxX
  BY DEF OnePicture
<1> QED  BY <1>2, <1>3

\* drawCursor and drawRecordedTime: no trails on the screen, and no stale time.
THEOREM NothingTrails == Spec => []NoTrails
<1>1. ViewInv => NoTrails
  <2> SUFFICES ASSUME ViewInv  PROVE NoTrails
    OBVIOUS
  <2>1. \A buffer \in {main, secondary} : OnePicture(buffer.moving)
    BY DEF ViewInv, MovingInv
  <2>2. \A buffer \in {main, secondary} :
          /\ Cardinality({m \in buffer.moving : m[1] = "cursor"}) <= 1
          /\ Cardinality({m \in buffer.moving : m[1] = "time"}) <= 1
          /\ \A m \in buffer.moving : m[1] = "cursor" => m[2] \in 0..MaxX
    BY <2>1, OneOfEach
  <2>3. currentState = "GAME" /\ drawn = 3 => \E t \in {timer, timer + 1} : <<"time", t>> \in main.moving
    BY DEF ViewInv, MovingInv
  <2> QED  BY <2>2, <2>3 DEF NoTrails
<1> QED  BY <1>1, ViewInvariant, PTL

\* startAnimation and updateAnimation: the panda comes to rest on the screen, whatever
\* animations overlapped, for every number of frames and every duration.
THEOREM PandaComesToRest == Spec => []PandaRests
<1>1. ViewInv => PandaRests
  BY RunIsPositive DEF ViewInv, PandaInv, PandaRests
<1> QED  BY <1>1, ViewInvariant, PTL

============================================================================

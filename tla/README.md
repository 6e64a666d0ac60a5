# A verification of the typing tutor

The program (`proj/src`) is a typing tutor for Minix: a single process that
subscribes to the interrupts of keyboard, timer and mouse, shows a menu, runs
typing tests of 15, 30 or 60 seconds, shows their statistics and keeps a table of
high scores. This directory holds TLA+ models of it, the configurations that
model-check them with TLC, and proofs that TLAPS checks. `PROJECT.json` lists
components, runs, the source lines behind every definition, findings, hazards and
theorems.

## The system

| Component | State | Operations | Hard about it |
|---|---|---|---|
| Main loop (`proj.c`) | the interrupts of one notification | receive, call the handlers, leave | handlers of one notification run in a fixed order and the exit condition is read only after all of them |
| State machine (`model.c`: `setGameState`, `key_handler`, `update_timer`, `checkActions`) | `currentState`, `currentKey`, `timer`, `counter`, pointers `test` and `stats` | change of screen, tick, click | memory allocated and freed on the way between states; keys and swipes that outlive their call |
| Typing test (`model.c`, `drawWords` of `view.c`) | words with letters, verdicts and lines; cursor; stars; statistics | letter, delete, fill, space, scroll | handlers decide by the line numbers the last drawing left in the words |
| High scores (`model.c`) | table of ten, `highscores.txt` | insert and save, load | the file is emptied before it is written; loading happens only on one screen |
| Drawing (`view.c`) | three frame buffers, two animations, caret, cursor, `gameStateChange` | `GameDrawer` at each tick, `drawWords` at keys | pictures pass through three buffers while keys draw and screens change |
| Start and end (`proj.c`) | interrupt lines, video mode, data reporting, sprites | `setup`, `end` | every call may fail, and the loop runs all the same |
| Mouse driver | bytes of a packet, last byte read | `mouse_ih`, `sync`, `parse`, `mouse_command` | a byte that could not be read is used all the same; retries with left-over answers |
| Keyboard driver | last scan code `data` | `kbc_ih` | the old code is processed again after an error; it does not look whose byte it reads |
| Timer driver | the chip's counter and control word | `timer_set_frequency`, `timer_get_conf` | three port calls, one of them unchecked |
| Real-time clock driver | six registers | `rtc_read_time` | read one by one while the clock runs |
| Graphics and serial port drivers | device registers | draw, (unused) | |

Interaction: the loop calls `key_handler`, `update_timer` with `GameDrawer`, and
`update_mouse`, in this order. All of them may call `setGameState`. Keys and
mouse act on the test through `process_key`, `handle_space_key`,
`handle_delete_key` and `fill_current_word`, and all of these end in `drawWords`.
`setGameState(STATISTICS)` calls `update_high_scores`, `setGameState(HIGHSCORES)`
calls `load_high_scores`. There are no threads; what interleaves are interrupts,
runs of the program, and a crash of the machine with the writing of the file.

What makes each part correct:

* main loop and state machine: memory used only while allocated; every game ends
  and lasts its time; a key acts once; the screen shown is the state;
* typing test: the cursor stays in the text (it does in texts of three lines or more,
  and need not in texts of two); letters, verdicts, cursor and
  statistics agree through deletion, fill and scroll; scrolling loses nothing;
* high scores: the table is the best of the games, in order; the file agrees with
  it; what is read back was earned;
* display: what is shown is the screen the program is in, soon and unmixed; nothing
  that moves or is deleted leaves anything behind;
* start and end: they return; what was taken is given back or the failure reported;
* drivers: packets stay in step with their bytes; a handler reads the byte it was
  called for; commands reach the mouse; a time is one the clock showed; the timer
  runs at the frequency asked for.

## Modules

| Module | Models | Extends |
|---|---|---|
| `TypingTest` | one game's text, cursor, layout, scrolling, statistics | |
| `ScoreTable` | the operators on table and file | |
| `HighScores` | table and file over several runs of the program | `ScoreTable` |
| `Session` | abstract: what the player is promised | `ScoreTable` |
| `MainLoop` | the interrupt loop and the state machine; implements `Session` | `ScoreTable` |
| `View` | frame buffers, caret, cursor, animations | |
| `MousePackets` | the mouse driver byte by byte, with failed reads | |
| `Controller` | the i8042 both devices share, `kbc_ih`, `mouse_ih`, `mouse_command` | |
| `Lifecycle` | `setup`, loop and `end`, run after run, with failures | `Controller` |
| `Rtc`, `Timer` | the drivers of the two clocks | |
| `Clocks` | both together | `Rtc`, `Timer` |
| `MCTypingTest`, `MCMainLoop`, `MCClocks` | values of constants for TLC | their module |
| `TypingTestProofs`, `ScoreTableProofs`, `HighScoresProofs`, `MainLoopProofs`, `MousePacketsProofs`, `LifecycleProofs`, `ClocksProofs`, `ViewProofs` | the proofs | their module |

How they fit. `MainLoop` sees of the text the number of words left, of the mouse
complete packets, and of the controller that keyboard and mouse never interrupt in one
notification. The last is what `CallFindsItsByte` of `Lifecycle` shows: a byte is
announced when it enters the one output buffer, and the next can enter only when the
handler has read it. `MousePackets` takes from `Controller` that an answer to
`mouse_command` may be left for `mouse_ih` (`ReadAnswer`). `View` takes from `MainLoop`
the ways between the screens, from `TypingTest` the moves of the cursor in the text.

### TypingTest

A word is a record of its text, length, status (0, 1, -1), letters (status of each)
and line. `words` is the array of `initializeTest` with its terminator. Which letter
a key is does not matter, only whether it is the right one: `ProcessKey(correct)`.
`Layout` is the loop of `drawWords` as a recursive function over words, in
characters of 16 pixels; `LineChars` is the width of a line, 46 in the program's
video mode. Every handler ends with `DrawWords`, as in the code. Before the first
drawing a word's line is uninitialised (`StaleLines`): `newWord.line` is never
assigned, and every copy carries the same stale value. `handle_space_key` is
`SpaceNextWord` or `SpaceScroll`, by what the code tests. `shift_words_up` copies in
place; because it never writes beyond the word it reads, the result is the sequence
of kept words (`KeptAt`) followed by new ones. Beyond the terminator the program
reads memory that is not the text; there the model stops (`InArray`).

Left out: coordinates and colours, the caret (in `View`), and `currentInput` letter by
letter (nothing but the fill writes it, nothing reads it). One thing the model makes
plain and no run is kept for: `fill_current_word` marks all letters of the word
correct, also those typed wrong before.

The cursor leaves the text only in texts of two lines. Such a text scrolls once, at the
end of its first line, to itself; then nothing stops the cursor (`text_overrun`). The
pool of the program has words of one and two letters, so 40 words can take two lines of
46 characters, however improbable that is. With three lines or more a scroll always
comes first (`CursorInText`). That a text never fits on one line is an assumption
(`TextAssumption`) the program meets: 40 words of a letter and a space take more than
a line.

### ScoreTable and HighScores

An entry is a speed and a time; times are opaque, `MixedTime` stands for one read or
cleared in part. `FileContents` says how many lines are whole and what number the
cut one, if any, begins with; this is all `fscanf` can tell apart. `GameOver`,
`ShowHighScores` and `Restart` are the program; `CrashWhileSaving` is a stop of the
machine between `fopen` and the last byte. With `OpenMayFail` the file may fail to
open: for writing, and the table is ahead of it; for reading, and `load_high_scores`
clears the table, as it does when there is no file. The next game after a failed read
then saves the cleared table over the full file. The first run of the program finds no
file or the `highscores.txt` of the repository (`InitialFiles`), whose one speed counts
as earned in an earlier run.

`earned` records the speeds of all games, `faults` which of the three has happened.
After a crash and a failed save a table can be a mixture of a cut file and of scores
that were never saved; `Sorted` and `OnlyEarnedScores` hold up to there (`NoMixture`).
`FileHoldsTable` holds from a save that wrote the file until a save or a read fails,
and `TopScores` in the first run until one does.

### MainLoop

`pending` holds the calls the loop still has to make for the notification in hand;
`Turn` gives them in the order of the code. `setGameState` is one definition per
state (`EnterMenu`, `EnterGame`, ...). `test` and `stats` are what the pointers refer
to: never allocated, live or freed. `counter` is kept modulo the tick rate, which is
how it is read. `update_mouse` either completes a packet (`Click`, `Gesture`) or not
(`NoAction`); buttons of one screen do not overlap (their places are fixed in
`initialize_sprites`), so at most one acts. The scan code is any, which covers the
code left over after a failed read. A game's text is abstracted to the number of
words left, which is what the speed is computed from.

A game that is left with ESC leaves `test` live, and the next game allocates another
one over it (`EnterMenu`, `EnterGame`; proj.c:78 says that `destroy_test` should be
called when leaving the game). It is a leak and no run is kept for it.

`ImplementsSession` is the refinement: with keys, clock, swipes, drawing and memory
hidden, `MainLoop` is a `Session`. `Session` has the screens and the ways between them,
games that enter the table once, with the words typed in them, when their time is over
and not when they are left, and a table that changes at no other time.

### View

A frame buffer is a record of what was drawn into it since its background: the screen
the background is of, whether words and statistics box are on it, the panda, and the
set of things that move. `Tick` is `update_timer` and `GameDrawer`, which the loop calls
one after the other: animations, the two copies, the clock of the game, the drawing. The
other actions are the handlers of keys and mouse between two ticks; those in a game draw
at once into the lasting buffer. `place` is the cursor in the text, `caret` where the
program believes the caret to be and `carets` where there are carets.

The display lags: after a change of screen the first tick draws it, the second shows
for one tick the things that move over the old background, the third shows it whole
(`DisplayFollows`). A scroll takes the panda off for one tick. A mood that starts while
the happy animation runs is drawn only when that is over. None of this is called wrong
by the repository.

### Controller and Lifecycle

`Controller` is the hardware as the drivers use it and the drivers on it, port call by
port call: one output buffer `ob`, filled by a device when empty and emptied by a read
of port 0x60; one interrupt per byte (`Announce`), for a line that is subscribed; an
input buffer that takes 0xD4 and then a command; a mouse that does a command and
answers 0xFA, or asks again with 0xFE, or is not there. Answers queue in the mouse.
Reading port 0x60 with nothing in the buffer gives the byte read before. `ReadAnswer`
waits until the command was taken and the mouse has answered if it could: the delay of
20 ms is assumed to be enough. `Lifecycle` runs `setup` call by call, then the loop,
then `end`; each call may fail, within `MaxFaults`; a run that finds no sprites is
killed; the next run starts on the hardware as it was left.

### Rtc, Timer and Clocks

`Rtc` reads field after field while `SecondPasses` may happen in between. The clock is
assumed in BCD and 24-hour mode, showing the old or the new value at any time (the
update-in-progress flag is not looked at by the code, and its 2 ms of undefined values
are not modelled). A failed port call leaves the old register selected or the old value
in `temp`, at first an uninitialised one (`Garbage`). `Timer` is the counter of one
timer and the port calls of `timer_set_frequency`. Arithmetic is that of the code, in
16 bits. The drivers share nothing; `Clocks` only puts them one after the other, as
`setup` and the loop do.

### MousePackets

A byte is where it comes from (packet and place) and its bit 3, which is all `sync`
looks at; `pp` is the packet `parse` made last, and what `checkActions` then sees.
`MouseSends` is the hardware: it fills the output buffer `ob` when that is free, and
bit 3 is set in the first byte of a packet and free in the others. `ReadByte` and
`ReadFails` are the two outcomes of `update_mouse`. `mouse_ih` reports nothing, so in
both cases `sync` runs on `byte_received`; after a failure that is the byte of the
call before, and the byte in the buffer is still there or was taken by somebody else.
Two history variables state the promise: `calm` (the packet in hand was read without
a failure, and its movement bytes have bit 3 clear) and `trusted` (a calm packet has
been read to its end since the last failure). The reduction of bytes to button and
displacement is left out.

Definitions that stand directly before another one and are used by nothing
(`LastBeaten` before `FirstBeaten`, ...) are mutations of it: each is a plausible
slip in that code, and with it in place TLC finds the property violated that
`PROJECT.json` names.

## Runs

| Run | Checks | Result |
|---|---|---|
| `typing_test` | `TypeOK`, `CursorInText`, `TypedPrefix`, `VerdictMatchesLetters`, `StatsCoverText`, `ScrollPreservesText` | hold |
| `scroll_drops_word` | `LastLineMovesToSecond` (model.h:452) | violated: the last word is lost |
| `text_overrun` | `CursorAtWord` (model.h:200) | violated: a text of two lines is typed past its end |
| `high_scores` | `TypeOK`, `Sorted`, `TopScores`, `FileHoldsTable`, `OnlyEarnedScores` | hold |
| `high_scores_restart` | `BestSinceStart` (report) | violated: a game after a restart overwrites the file |
| `main_loop` | `TypeOK`, `Lifetimes`, `NoStaleEnter`, `ScreenMatchesState`, `SwipeDiscipline`, `GameLength`, `GameEnds`, `EscInMenuQuits`, `ImplementsSession` | hold |
| `mouse_packets` | `TypeOK`, `Resynchronised`, `WholePackets` | hold |
| `mouse_stale_byte` | `ErrorIsDiscarded` (mouse.h:43) | violated: the byte before is stored again |
| `lifecycle` | `TypeOK`, `CallFindsItsByte`, `CommandsReachMouse`, `CleanExit`, `SetupAndEndReturn`, `NoByteBlocks` | hold |
| `sprites_freed` | `SpritesFreed` (model.h:328) | violated: digits freed twice, one button never |
| `clocks` | `NeverBehind`, `MixedOnlyByCarry`, `TwoDigits`, `SetsFrequency`, `TypeOK` | hold |
| `view` | `TypeOK`, `StatisticsOverGame`, `DisplayFollows`, `CaretFollows`, `NoTrails`, `PandaRests` | hold |

Bounds. `typing_test`: five words of one or two letters on lines of five
characters, two letters typed, seven words left, one fill; texts then take two or three
lines and change from one to the other, scroll several times, and a scroll keeps two to
four words. It may stop because the model stops behind the terminator of a text of two
lines; `text_overrun` has the same texts. `scroll_drops_word` has shorter lines. `MaxLetters`
and `MaxWords` bound the counters, nothing else. `high_scores`: a table of three and four
games over three runs, so the table overflows and a cut file can
be read, saved and cut again; speeds 24, 30 and 48 have prefixes 2, 3 and 4 that
fall among the others; saves and reads may fail. `main_loop`: games of two seconds of two ticks,
one star, one word, a table of one; a game can begin at either phase of the counter and
swipes outlive it. The file always opens in this run (the theorems about `MainLoop` do
not assume it, and `high_scores` has it). It may stop because the program may end. `mouse_packets`: six
packets and three faults, enough to leave and find the step again more than once; it
may stop when the packets are used up. `lifecycle`: two runs of the program, two
attempts of `mouse_command`, two keys, a whole packet of the mouse and two faults
between them, so that a failure in one run can meet a failure in the next; it may stop
when the last run has ended. `clocks`: two calls of `timer_set_frequency` with
frequencies on both sides of its bounds and two faults, one of them possibly in each
call; readings from every time of a clock with minutes of twelve seconds and other
fields of two values, two seconds passing and two faults. `view`: games of two and ten
ticks, animations of six, words of two letters with a scroll after the second, eight
keys or packets in all and any number of ticks; that is enough for a game after a game,
or for the way through menu and timers with six keys in the game.

Fairness. `main_loop`: a handler that was called returns, and the loop goes on: weak
fairness of each call and of leaving the loop. The hardware timer keeps interrupting,
and a pending interrupt is part of the next notification: strong fairness of receiving
one with the timer's bit. `lifecycle`: the process runs when it can; the controller
takes what is written, the mouse sends the answers it has, a byte gets its interrupt.
Nothing is assumed of the player or of faults.

`EscInMenuQuits` holds although the loop reads its exit condition only after all
handlers of a notification: the handlers that can run after the key's are the timer's,
which change no state in the menu.

## Proofs

Every invariant and every action property of a passing run, and the refinement, is
proved, for all values of the constants that satisfy the assumptions named in the
modules: any number of words, games, runs, faults, keys and packets, any frequency, any
table. Most of the properties are not inductive as they stand; what each needs is:

* `TypingTestProofs`. `TypeCorrect` uses `TypeInv`: the types, and that lines are
  either all stale and equal or those of the layout; a scroll needs this to know that
  what it keeps is an interval. The other five theorems hold for every pool whose
  texts do not fit on one line (`TextAssumption`, `TwoLines`), as those of the program.
  `CursorInText` is not inductive: `SafeInv` says that in a text of three lines or more
  the cursor is above the last line. It is kept because a scroll moves the last line but
  one to the top, where the same words take one line again (`MovedLine`), so the cursor
  is on the second line of whatever the new words make of the text. In a text of two
  lines the cursor may pass the end; what the other theorems say of the words goes on to
  hold there (`PastEnd`). `VerdictInv` then gives `TypedPrefix` and `VerdictMatchesLetters`,
  and the shape of a scroll (`ScrollShape`) gives `ScrollPreservesText`. `CoverInv`
  gives `StatsCoverText`: each handler adds at most one wrong letter or one correct
  word and counts it; a scroll maps what is wrong after it one to one into what was
  wrong before (`BoundMapped`). Layout is a recursive function; that it satisfies its
  definition is proved (`LayoutUnfolds`) by an induction over a set of natural numbers.
* `HighScoresProofs`. `Sorted` is not inductive, because a cut file is read into part
  of the table. `OrderInv` says why the whole stays in order, by which fault has not
  happened yet: without a crash every file is whole; while all saves succeed, the table
  a cut file is read into has no speeds, as at the start and after a failed read, or is
  what the same file gave such a one. In both the
  file's lines are in order and a cut number is at most the number. `EarnedInv` says of
  table and file that more than i games are at least as good as a speed at rank i,
  `TopInv` that at most i games are better; `InsertedEarned` and `InsertedBeaten` show
  that an insertion keeps both, and together they are `TopScores`.
* `MainLoopProofs`. Types and `Lifetimes` are proved together, since the speed is a
  number only if the division is defined. `GameLength` rests on `ClockInv`: seconds
  passed times the tick rate, plus the counter, minus the ticks of the game is the
  phase at which the game began, and stays the same. `ProgramIsSession` is the
  refinement, handler by handler (`KeyIsSession`, `TickIsSession`, `ClickIsSession`):
  each is a step of `Session` or changes nothing the player sees. It needs `LoopInv` and
  that no call is made after the loop is left (`NoCallAfterEnd`).
* `MousePacketsProofs`. `Resynchronised` is not inductive. `CalmInv` adds that after
  the second byte of a calm packet the driver has stored two bytes or none: a byte
  without bit 3 is either refused or fills the last place or the last but one.
  `StepInv` says that a driver in step holds the first bytes of the packet that is
  being read; from it follows `WholePackets`. A mouse whose movement bytes always have
  bit 3 set may keep the driver out of step for ever; the theorems do not say more.
* `LifecycleProofs`. `LifeInv` has three parts besides `CleanExit`. `CommandInv`: a
  command is in the input buffer only behind a 0xD4 and only while its answer is waited
  for, so an attempt never finds the command of an earlier one there. `LineInv`: the
  lines held at each call of `setup` and `end`; the line of the real-time clock is
  subscribed after everything else that can fail, so `end`, which stops where it is not
  held, reaches its last calls only after a full `setup`. `ByteInv`: an interrupt that
  waits is for the byte in the buffer, and there is one.
* `ClocksProofs`. `ChipInv` follows control word, low and high byte into the chip and
  gives `SetsFrequency` with the arithmetic of the quotient (`QuotientFits`). For a
  reading, `LateInv` compares the call with `Seen`, the time that would result if the
  clock now stood still; `MixInv` says that while the minute is that of the call the
  fields read are those of one time shown, and that a minute does not come back;
  `DigitInv` that from the second field on `temp` is a register's value.
* `ViewProofs`. `ViewInv` adds to the properties of the screen what passes through the
  buffers: `MovingInv` (each buffer holds what moves of one tick) and `PandaInv` (an
  animation that runs has run at least since the last word, and when its time is over
  the panda at rest is in one buffer more with each tick).

Only model-checked: the liveness properties (`GameEnds`, `EscInMenuQuits`,
`SetupAndEndReturn`, `NoByteBlocks`), which need fairness and are out of the reach of
the prover, and the violations, which are counterexamples.

## Not modelled, and the plan

Not modelled, because there is no behaviour of the program in it to check: pixels,
fonts, images, BIOS calls and memory mapping (pure output); the tables of key maps and
sprites (data, filled once); the serial port driver, `process_packet`, `obf_full`,
`kbc_polling`, `kbc_activate_interrupts` and `timer_display_conf`, which nothing in the
program calls; the labs (`lab0` to `lab7`) and the headers of Minix (`.minix-src`), which
are not part of it.

One hazard is left to the reader: buttons act on the level of the left button at every
packet, and some buttons of successive screens overlap (PLAY and the 60 seconds, BACK TO
MENU and PLAY, PLAY AGAIN and the 60 seconds), so a button held down while the mouse
moves may act on several screens. The models allow every such chain; that one press
should be one click is said nowhere in the repository.

What is left is what ties the models to each other: that the abstraction of a text to a
number of words in `MainLoop`, and the cursor of `View`, are those of `TypingTest`, is
argued above and neither checked nor proved.

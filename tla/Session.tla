------------------------------ MODULE Session -------------------------------
(***************************************************************************)
(* What the program promises its player: the screens and the ways between  *)
(* them, games that score when their time is over and not when they are    *)
(* left, and a table of high scores that changes at no other time.         *)
(*                                                                         *)
(* Nothing is said of interrupts, keys, clocks, swipes, drawing or memory. *)
(* MainLoop implements this specification.                                 *)
(***************************************************************************)
EXTENDS ScoreTable

CONSTANTS
  Durations  \* seconds a game may last

VARIABLES
  screen,   \* the screen the player is on
  seconds,  \* what the game being played lasts, 0 without a game
  words,    \* words typed in it
  over      \* the player has left the program

vars == <<screen, seconds, words, over, scoreVars>>

Init ==
  /\ screen = "MENU" /\ seconds = 0 /\ words = 0 /\ over = FALSE
  /\ highScores = ZeroTable /\ file \in InitialFiles

\* The ways between screens on which nothing happens but the change.
Ways == {<<"MENU", "TIMERS">>, <<"MENU", "INSTRUCTIONS">>, <<"TIMERS", "MENU">>,
         <<"INSTRUCTIONS", "MENU">>, <<"HIGHSCORES", "MENU">>, <<"STATISTICS", "MENU">>,
         <<"STATISTICS", "TIMERS">>}

Walk(to) ==
  /\ ~over /\ <<screen, to>> \in Ways
  /\ screen' = to
  /\ UNCHANGED <<seconds, words, over, scoreVars>>

\* The table is read back from the file when it is shown, or cleared.
ShowScores ==
  /\ ~over /\ screen = "MENU"
  /\ screen' = "HIGHSCORES"
  /\ \E opened \in OpeningToRead : LoadHighScores(opened)
  /\ UNCHANGED <<seconds, words, over>>

StartGame(duration) ==
  /\ ~over /\ screen = "TIMERS"
  /\ screen' = "GAME" /\ seconds' = duration /\ words' = 0
  /\ UNCHANGED <<over, scoreVars>>

TypeWord ==
  /\ ~over /\ screen = "GAME"
  /\ words' = words + 1
  /\ UNCHANGED <<screen, seconds, over, scoreVars>>

\* The time is over: the speed of the game is entered, once.
FinishGame ==
  /\ ~over /\ screen = "GAME"
  /\ screen' = "STATISTICS" /\ seconds' = 0 /\ words' = 0
  /\ \E when \in Times, opened \in Opening :
       UpdateHighScores((words * 60) \div seconds, when, opened)
  /\ UNCHANGED over

\* The player gives the game up; it leaves no trace in the table.
AbandonGame ==
  /\ ~over /\ screen = "GAME"
  /\ screen' = "MENU" /\ seconds' = 0 /\ words' = 0
  /\ UNCHANGED <<over, scoreVars>>

LeaveProgram ==
  /\ ~over /\ screen = "MENU"
  /\ over' = TRUE
  /\ UNCHANGED <<screen, seconds, words, scoreVars>>

Next ==
  \/ \E way \in Ways : Walk(way[2])
  \/ ShowScores
  \/ \E duration \in Durations : StartGame(duration)
  \/ TypeWord \/ FinishGame \/ AbandonGame
  \/ LeaveProgram

Spec == Init /\ [][Next]_vars

=============================================================================

----------------------------- MODULE ScoreTable -----------------------------
(***************************************************************************)
(* The high-score table and the file it is kept in (update_high_scores,    *)
(* save_high_scores, load_high_scores and initialize_high_scores of        *)
(* proj/src/model/model.c).  The operators below are the parts of actions  *)
(* of the modules that extend this one: HighScores, where sessions end and *)
(* are started again, and MainLoop, where the state machine calls them.    *)
(*                                                                         *)
(* A table entry is a speed in words per minute and the time and date it   *)
(* was reached, which nothing but the screen reads.                        *)
(***************************************************************************)
EXTENDS Integers, FiniteSets

CONSTANTS
  MaxHighScores,  \* entries of the table (MAX_HIGH_SCORES, 10)
  Times,          \* time and date as read from the real-time clock
  NoTime,         \* the time of an entry nobody reached
  MixedTime,      \* the time of an entry that was read or cleared only in part
  NoFile,         \* highscores.txt does not exist
  OpenMayFail     \* fopen of the file, for reading or writing, may fail

ASSUME ScoreAssumption ==
  /\ MaxHighScores \in Nat \ {0}
  /\ OpenMayFail \in BOOLEAN
  /\ NoFile \notin [lines : [0..(MaxHighScores - 1) ->
                               [wpm : Nat, when : Times \cup {NoTime, MixedTime}]],
                    whole : 0..MaxHighScores, torn : Nat \cup {-1}]

VARIABLES
  highScores,  \* the table in memory, best entry first
  file         \* what highscores.txt holds

scoreVars == <<highScores, file>>

Ranks == 0..(MaxHighScores - 1)
Entry == [wpm : Nat, when : Times \cup {NoTime, MixedTime}]
Table == [Ranks -> Entry]

\* The first "whole" lines of the table "lines" are in the file.  "torn" is the
\* number a cut line starts with, or -1 when nothing of the next line is there.
FileContents == [lines : Table, whole : 0..MaxHighScores, torn : Nat \cup {-1}]

\* The table of a program that has just started.
ZeroTable == [i \in Ranks |-> [wpm |-> 0, when |-> NoTime]]

\* highscores.txt of the repository: one game of somebody's.
ShippedSpeed == 36
ShippedTable(when) == [ZeroTable EXCEPT ![0] = [wpm |-> ShippedSpeed, when |-> when]]

----------------------------------------------------------------------------

\* update_high_scores: the first entry that wpm beats, and those after it, move
\* down one rank.
Beaten(wpm) == {i \in Ranks : wpm > highScores[i].wpm}

LastBeaten(wpm) == CHOOSE r \in Beaten(wpm) : \A i \in Beaten(wpm) : r >= i
FirstBeaten(wpm) == CHOOSE r \in Beaten(wpm) : \A i \in Beaten(wpm) : r <= i

Overwritten(wpm, when) ==
  IF Beaten(wpm) = {} THEN highScores
  ELSE [highScores EXCEPT ![FirstBeaten(wpm)] = [wpm |-> wpm, when |-> when]]
InsertedShiftingDown(wpm, when) ==
  IF Beaten(wpm) = {} THEN highScores
  ELSE LET r == FirstBeaten(wpm)
       IN  [i \in Ranks |-> CASE i < r -> highScores[i]
                              [] i = r -> [wpm |-> wpm, when |-> when]
                              [] i > r -> highScores[r]]
Inserted(wpm, when) ==
  IF Beaten(wpm) = {} THEN highScores
  ELSE LET r == FirstBeaten(wpm)
       IN  [i \in Ranks |-> CASE i < r -> highScores[i]
                              [] i = r -> [wpm |-> wpm, when |-> when]
                              [] i > r -> highScores[i - 1]]

\* save_high_scores, called at the end of update_high_scores.
WrittenOneMore(table) == [lines |-> table, whole |-> MaxHighScores + 1, torn |-> -1]
Written(table) == [lines |-> table, whole |-> MaxHighScores, torn |-> -1]

\* fopen as a Boolean: when it fails for writing the table is not saved; for
\* reading it also fails when there is no file.
Opening == IF OpenMayFail THEN BOOLEAN ELSE {TRUE}
OpeningToRead == IF file = NoFile THEN {FALSE} ELSE Opening

SaveThenUpdate(wpm, when, opened) ==
  /\ highScores' = Inserted(wpm, when)
  /\ file' = IF opened THEN Written(highScores) ELSE file
UpdateHighScores(wpm, when, opened) ==
  /\ highScores' = Inserted(wpm, when)
  /\ file' = IF opened THEN Written(highScores') ELSE file

\* initialize_high_scores: the day and the month are not cleared.
Cleared ==
  [i \in Ranks |-> [wpm |-> 0, when |-> IF highScores[i].when = NoTime THEN NoTime ELSE MixedTime]]

\* load_high_scores: a file that does not open, or does not exist, clears the
\* table.  Otherwise fscanf fills entry after entry and the loop stops at the
\* first line that does not hold all six numbers.  Of a cut line the numbers
\* that are there have been stored; the entries after it keep their values.
LoadedTable(opened) ==
  IF ~opened THEN Cleared
  ELSE [i \in Ranks |->
          CASE i < file.whole -> file.lines[i]
            [] i = file.whole /\ file.torn # -1 -> [wpm |-> file.torn, when |-> MixedTime]
            [] OTHER -> highScores[i]]

LoadHighScores(opened) ==
  /\ highScores' = LoadedTable(opened)
  /\ UNCHANGED file

----------------------------------------------------------------------------

\* The file a program that is started for the first time finds.
InitialFiles == {NoFile} \cup {Written(ShippedTable(when)) : when \in Times}

IsSorted(table) == \A i, j \in Ranks : i <= j => table[i].wpm >= table[j].wpm

=============================================================================

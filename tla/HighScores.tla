----------------------------- MODULE HighScores -----------------------------
(***************************************************************************)
(* The high scores over several runs of the program: games that end, the   *)
(* high-score screen, the program leaving and being started again, and a   *)
(* crash (of the machine, or a kill of the service) while the file is      *)
(* being written.  The table in memory starts at zero in each run of the   *)
(* program; load_high_scores is called when the high-score screen is       *)
(* entered and at no other time.                                           *)
(***************************************************************************)
EXTENDS ScoreTable, Sequences

CONSTANTS
  Speeds,       \* speeds a game may end with
  MayCrash,     \* the machine may stop while the file is written
  MaxGames,     \* bound on the games that end
  MaxSessions   \* bound on the runs of the program

ASSUME SessionAssumption ==
  /\ Speeds \subseteq Nat /\ MayCrash \in BOOLEAN
  /\ MaxGames \in Nat /\ MaxSessions \in Nat

VARIABLES
  earned,    \* history: the speeds of all games, of all sessions
  session,   \* number of this run of the program
  saved,     \* history: this session has written the file, and since then the
             \* file has always opened
  faults,    \* history: what went wrong so far
  onScreen   \* the high-score screen shows the table

vars == <<highScores, file, earned, session, saved, faults, onScreen>>

\* The file could not be opened for writing; it is there and could not be opened
\* for reading; the machine stopped while writing.
Faults == {"save", "read", "crash"}

\* The first run of the program at all, or one with the file of the repository,
\* which is the result of an earlier run.
Init ==
  /\ highScores = ZeroTable
  /\ file \in InitialFiles
  /\ earned = IF file = NoFile THEN <<>> ELSE <<ShippedSpeed>>
  /\ session = IF file = NoFile THEN 1 ELSE 2
  /\ saved = FALSE
  /\ faults = {}
  /\ onScreen = FALSE

\* setGameState(STATISTICS): the speed of the game goes into the table.
GameOver(wpm, when, opened) ==
  /\ Len(earned) < MaxGames
  /\ UpdateHighScores(wpm, when, opened)
  /\ earned' = Append(earned, wpm)
  /\ saved' = opened
  /\ faults' = IF opened THEN faults ELSE faults \cup {"save"}
  /\ onScreen' = FALSE
  /\ UNCHANGED session

\* setGameState(HIGHSCORES).
ShowHighScores(opened) ==
  /\ LoadHighScores(opened)
  /\ saved' = (saved /\ opened)
  /\ faults' = IF opened \/ file = NoFile THEN faults ELSE faults \cup {"read"}
  /\ onScreen' = TRUE
  /\ UNCHANGED <<earned, session>>

StartAgain ==
  /\ session < MaxSessions
  /\ highScores' = ZeroTable
  /\ session' = session + 1
  /\ saved' = FALSE
  /\ onScreen' = FALSE

\* The player leaves the program and starts it again.
Restart ==
  /\ StartAgain
  /\ UNCHANGED <<file, earned, faults>>

\* What a number may be when the file ends inside it: some of its digits.
CutNumber(v) == {v} \cup ({v \div 10, v \div 100} \ {0})

\* The machine stops after fopen has emptied the file and before its last line
\* has reached the disk; the program is started again.
CrashWhileSaving(wpm, when) ==
  /\ MayCrash /\ Len(earned) < MaxGames
  /\ StartAgain
  /\ earned' = Append(earned, wpm)
  /\ faults' = faults \cup {"crash"}
  /\ \E n \in 0..(MaxHighScores - 1) :
       \E digits \in {-1} \cup CutNumber(Inserted(wpm, when)[n].wpm) :
         file' = [lines |-> Inserted(wpm, when), whole |-> n, torn |-> digits]

Next ==
  \/ \E wpm \in Speeds, when \in Times, opened \in Opening : GameOver(wpm, when, opened)
  \/ \E opened \in OpeningToRead : ShowHighScores(opened)
  \/ Restart
  \/ \E wpm \in Speeds, when \in Times : CrashWhileSaving(wpm, when)

Spec == Init /\ [][Next]_vars

----------------------------------------------------------------------------
(* Properties                                                              *)

TypeOK ==
  /\ highScores \in Table
  /\ file \in FileContents \cup {NoFile}
  /\ earned \in Seq(Nat)
  /\ session \in Nat /\ saved \in BOOLEAN /\ onScreen \in BOOLEAN
  /\ faults \subseteq Faults

\* A cut file is the whole of what the table is taken from, or is not read: the
\* first save after the crash has replaced it, unless it could not be opened.
\* With both a crash and such a failure the remains of an old table are read
\* over part of a newer one.  A read that fails leaves nothing to be mixed.
NoMixture == ~({"save", "crash"} \subseteq faults)

\* The table is in descending order, also after a cut file has been read into
\* part of it, and after saves and reads that failed.
Sorted == NoMixture => IsSorted(highScores)

\* v is the speed of rank i among the speeds s.
HasRank(s, i, v) ==
  LET above   == Cardinality({k \in DOMAIN s : s[k] > v})
      atLeast == Cardinality({k \in DOMAIN s : s[k] >= v})
  IN  above <= i /\ (v = 0 \/ i < atLeast)

IsTopOf(table, s) == \A i \in Ranks : HasRank(s, i, table[i].wpm)

\* In the first run of the program, which finds no file, the table always holds
\* the best speeds of the games played, in order, whether or not it went through
\* the file and back, as long as the file opened whenever it was there.
TopScores == session = 1 /\ faults = {} => IsTopOf(highScores, earned)

\* Once the file is written it holds the table, until a save or a read fails:
\* loading it can then neither lose nor bring back an entry.
FileHoldsTable == saved => file = Written(highScores)

\* No entry is better or there more often than the games that were played
\* account for: the speed of rank i was reached in more than i games, however
\* often the file was cut and its remains were read and saved again, or the
\* table fell back to the file because it could not be saved or was cleared
\* because the file could not be read.
OnlyEarnedScores ==
  NoMixture =>
    \A i \in Ranks :
      \/ highScores[i].wpm = 0
      \/ Cardinality({k \in DOMAIN earned : earned[k] >= highScores[i].wpm}) > i

\* The report on the high scores: "making the top 10 the best results since the
\* start", the start of the first session.
BestSinceStart == onScreen => IsTopOf(highScores, earned)

=============================================================================

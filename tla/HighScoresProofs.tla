-------------------------- MODULE HighScoresProofs --------------------------
(***************************************************************************)
(* Proofs about HighScores, for a table of any size, any speeds and any    *)
(* number of games, sessions, crashes, failed saves and failed reads: the  *)
(* types, the order of the table, the agreement of the file with the       *)
(* table, that every speed in the table was earned, and that none better   *)
(* is missing.                                                             *)
(*                                                                         *)
(* The order of the table is not inductive: load_high_scores may fill part *)
(* of it from a cut file and leave the rest.  OrderInv says what the rest  *)
(* can be.  EarnedInv and TopInv bound how many of the games are as good   *)
(* as an entry, and better than it, by its rank; update_high_scores is     *)
(* shown to keep both counts (InsertedEarned, InsertedBeaten).             *)
(***************************************************************************)
EXTENDS HighScores, ScoreTableProofs, FiniteSetTheorems

----------------------------------------------------------------------------
(* Types                                                                   *)

\* update_high_scores keeps the types of table and file.
LEMMA UpdateType ==
  ASSUME TypeOK, NEW wpm \in Nat, NEW when \in Times, NEW opened \in Opening,
         UpdateHighScores(wpm, when, opened)
  PROVE  highScores' \in Table /\ file' \in FileContents \cup {NoFile}
<1>1. highScores' \in Table
  BY InsertedType DEF TypeOK, UpdateHighScores
<1>2. Written(highScores') \in FileContents
  BY <1>1, WrittenType
<1> QED  BY <1>1, <1>2 DEF TypeOK, UpdateHighScores

\* What a crash leaves of the file is a file.
LEMMA CutFileType ==
  ASSUME NEW table \in Table, NEW n \in 0..(MaxHighScores - 1),
         NEW digits \in {-1} \cup CutNumber(table[n].wpm)
  PROVE  /\ [lines |-> table, whole |-> n, torn |-> digits] \in FileContents
         /\ digits <= table[n].wpm
<1>1. table[n].wpm \in Nat
  BY DEF Table, Entry, Ranks
<1>2. digits \in Nat \cup {-1} /\ digits <= table[n].wpm
  BY <1>1 DEF CutNumber
<1>3. n \in 0..MaxHighScores
  BY ScoreAssumption
<1> QED  BY <1>2, <1>3 DEF FileContents

\* The initial state has the right types.
LEMMA TypeInit == Init => TypeOK
<1> SUFFICES ASSUME Init  PROVE TypeOK
  OBVIOUS
<1>1. highScores \in Table /\ file \in FileContents \cup {NoFile}
  BY ZeroTableFacts, InitialFilesFacts, WrittenType DEF Init
<1>2. earned \in Seq(Nat)
  BY DEF Init, ShippedSpeed
<1>3. session \in Nat /\ saved \in BOOLEAN /\ onScreen \in BOOLEAN /\ faults \subseteq Faults
  BY DEF Init
<1> QED  BY <1>1, <1>2, <1>3 DEF TypeOK

\* Every step keeps the types.
LEMMA TypeStep == TypeOK /\ [Next]_vars => TypeOK'
<1> SUFFICES ASSUME TypeOK, [Next]_vars  PROVE TypeOK'
  OBVIOUS
<1>1. ASSUME NEW wpm \in Speeds, NEW when \in Times, NEW opened \in Opening,
             GameOver(wpm, when, opened)
      PROVE  TypeOK'
  <2>1. wpm \in Nat
    BY SessionAssumption
  <2>2. highScores' \in Table /\ file' \in FileContents \cup {NoFile}
    BY <1>1, <2>1, UpdateType DEF GameOver
  <2>3. earned' \in Seq(Nat)
    BY <1>1, <2>1 DEF GameOver, TypeOK
  <2>4. session' \in Nat /\ saved' \in BOOLEAN /\ onScreen' \in BOOLEAN
    BY <1>1 DEF GameOver, TypeOK, Opening
  <2>5. faults' \subseteq Faults
    BY <1>1 DEF GameOver, TypeOK, Faults
  <2> QED  BY <2>2, <2>3, <2>4, <2>5 DEF TypeOK
<1>2. ASSUME NEW opened \in OpeningToRead, ShowHighScores(opened)
      PROVE  TypeOK'
  <2>1. highScores' \in Table /\ file' \in FileContents \cup {NoFile}
    BY <1>2, LoadedType DEF ShowHighScores, LoadHighScores, TypeOK
  <2>2. earned' \in Seq(Nat) /\ session' \in Nat
    BY <1>2 DEF ShowHighScores, TypeOK
  <2>3. saved' \in BOOLEAN /\ onScreen' \in BOOLEAN
    BY <1>2, Zenon DEF ShowHighScores, TypeOK
  <2>4. faults' \subseteq Faults
    BY <1>2 DEF ShowHighScores, TypeOK, Faults
  <2> QED  BY <2>1, <2>2, <2>3, <2>4 DEF TypeOK
<1>3. CASE Restart
  <2>1. highScores' \in Table /\ file' \in FileContents \cup {NoFile}
    BY <1>3, ZeroTableFacts DEF Restart, StartAgain, TypeOK
  <2>2. earned' \in Seq(Nat) /\ session' \in Nat
    BY <1>3 DEF Restart, StartAgain, TypeOK
  <2>3. saved' \in BOOLEAN /\ onScreen' \in BOOLEAN /\ faults' \subseteq Faults
    BY <1>3 DEF Restart, StartAgain, TypeOK
  <2> QED  BY <2>1, <2>2, <2>3 DEF TypeOK
<1>4. ASSUME NEW wpm \in Speeds, NEW when \in Times, CrashWhileSaving(wpm, when)
      PROVE  TypeOK'
  <2>1. wpm \in Nat
    BY SessionAssumption
  <2>2. Inserted(wpm, when) \in Table
    BY <2>1, InsertedType DEF TypeOK
  <2>3. file' \in FileContents
    BY <1>4, <2>2, CutFileType DEF CrashWhileSaving
  <2>4. highScores' \in Table
    BY <1>4, ZeroTableFacts DEF CrashWhileSaving, StartAgain
  <2>5. earned' \in Seq(Nat) /\ session' \in Nat
    BY <1>4, <2>1 DEF CrashWhileSaving, StartAgain, TypeOK
  <2>6. saved' \in BOOLEAN /\ onScreen' \in BOOLEAN /\ faults' \subseteq Faults
    BY <1>4 DEF CrashWhileSaving, StartAgain, TypeOK, Faults
  <2> QED  BY <2>3, <2>4, <2>5, <2>6 DEF TypeOK
<1>5. CASE UNCHANGED vars
  BY <1>5 DEF vars, TypeOK
<1> QED  BY <1>1, <1>2, <1>3, <1>4, <1>5 DEF Next

\* Table, file and history keep their types through games, screens, restarts
\* and crashes.
THEOREM ScoresTypeCorrect == Spec => []TypeOK
BY TypeInit, TypeStep, PTL DEF Spec

----------------------------------------------------------------------------
(* Order, and agreement with the file                                      *)

\* The lines of the file are in order, and so is what is left of a cut line.
FileInOrder ==
  file # NoFile =>
    /\ IsSorted(file.lines)
    /\ \A i \in Ranks : i = file.whole => file.torn <= file.lines[i].wpm

\* The table holds no speed: the program has just started, or a read has failed.
NoSpeed == \A i \in Ranks : highScores[i].wpm = 0

\* The speeds are those that reading the file into a table without speeds gives.
JustLoaded ==
  /\ file # NoFile
  /\ \A i \in Ranks :
       highScores[i].wpm = CASE i < file.whole -> file.lines[i].wpm
                             [] i = file.whole /\ file.torn # -1 -> file.torn
                             [] OTHER -> 0

\* Until a crash and a failed save have both happened the table is in order.  Why
\* depends on which has not happened: without a crash a file is whole; while all
\* saves succeed, a table that a cut file was read into held no speed before.
OrderInv ==
  /\ FileInOrder
  /\ IsSorted(highScores)
  /\ "crash" \notin faults /\ file # NoFile => file.whole = MaxHighScores
  /\ "save" \notin faults =>
       /\ saved => file = Written(highScores)
       /\ ~saved => NoSpeed \/ JustLoaded

\* The inductive invariant.
TableInv == TypeOK /\ (NoMixture => OrderInv)

\* A file in order, read into a table without speeds, gives a table in order.
LEMMA LoadedInOrder ==
  ASSUME NEW f \in FileContents, NEW table, IsSorted(f.lines),
         \A i \in Ranks : i = f.whole => f.torn <= f.lines[i].wpm,
         \A i \in Ranks :
           table[i].wpm = CASE i < f.whole -> f.lines[i].wpm
                            [] i = f.whole /\ f.torn # -1 -> f.torn
                            [] OTHER -> 0
  PROVE  IsSorted(table)
<1>1. f.lines \in Table /\ f.whole \in Nat /\ (f.torn # -1 => f.torn \in Nat)
  BY DEF FileContents
<1>2. \A i \in Ranks : f.lines[i].wpm \in Nat
  BY <1>1 DEF Table, Entry
<1>3. \A i \in Ranks : i \in Nat
  BY DEF Ranks
<1>4. \A i \in Ranks : table[i].wpm = IF i < f.whole THEN f.lines[i].wpm
                                      ELSE IF i = f.whole /\ f.torn # -1 THEN f.torn
                                      ELSE 0
  BY <1>1, <1>3
<1>5. \A i, j \in Ranks : i <= j => f.lines[i].wpm >= f.lines[j].wpm
  BY DEF IsSorted
<1>6. ASSUME NEW i \in Ranks, NEW j \in Ranks, i <= j
      PROVE  table[i].wpm >= table[j].wpm
  <2>1. CASE j < f.whole
    BY <1>1, <1>3, <1>4, <1>5, <1>6, <2>1
  <2>2. CASE j = f.whole /\ f.torn # -1
    <3>1. table[j].wpm = f.torn /\ f.torn \in Nat /\ f.torn <= f.lines[j].wpm
      BY <1>1, <1>3, <1>4, <2>2
    <3>2. CASE i = j
      BY <3>1, <3>2
    <3>3. CASE i < f.whole
      <4>1. table[i].wpm = f.lines[i].wpm /\ f.lines[i].wpm >= f.lines[j].wpm
        BY <1>4, <1>5, <1>6, <3>3
      <4> QED  BY <1>2, <3>1, <4>1
    <3> QED  BY <1>1, <1>3, <1>6, <2>2, <3>2, <3>3
  <2>3. CASE ~(j < f.whole) /\ ~(j = f.whole /\ f.torn # -1)
    <3>1. table[j].wpm = 0 /\ table[i].wpm \in Nat
      BY <1>1, <1>2, <1>4, <2>3
    <3> QED  BY <3>1
  <2> QED  BY <2>1, <2>2, <2>3
<1> QED  BY <1>6 DEF IsSorted

\* Reading back a file that holds the table changes nothing.
LEMMA LoadWritten ==
  ASSUME highScores \in Table, file = Written(highScores), NEW opened, opened
  PROVE  LoadedTable(opened) = highScores
BY DEF LoadedTable, Written, Table, Ranks

\* A read that fails leaves no speed in the table.
LEMMA LoadFailed ==
  ASSUME NEW opened, ~opened
  PROVE  \A i \in Ranks : LoadedTable(opened)[i].wpm = 0
BY DEF LoadedTable, Cleared

\* The faults that have happened stay.
LEMMA MixtureStays == [Next]_vars /\ NoMixture' => NoMixture
<1>1. [Next]_vars => faults \subseteq faults'
  BY DEF Next, GameOver, ShowHighScores, Restart, CrashWhileSaving, vars
<1> QED  BY <1>1 DEF NoMixture

\* The invariant holds when the program is started for the first time.
LEMMA TableInit == Init => TableInv
<1> SUFFICES ASSUME Init  PROVE OrderInv
  BY TypeInit DEF TableInv
<1>1. highScores = ZeroTable /\ saved = FALSE /\ file \in InitialFiles
  BY DEF Init
<1>2. IsSorted(highScores) /\ NoSpeed
  BY <1>1, ZeroTableFacts DEF NoSpeed, ZeroTable
<1>3. FileInOrder /\ (file # NoFile => file.whole = MaxHighScores)
  BY <1>1, InitialFilesFacts DEF FileInOrder, Written, Ranks
<1> QED  BY <1>1, <1>2, <1>3 DEF OrderInv

\* A game keeps the invariant, whether or not its save opens the file.
LEMMA OrderGameOver ==
  ASSUME TypeOK, OrderInv, NEW wpm \in Speeds, NEW when \in Times, NEW opened \in Opening,
         GameOver(wpm, when, opened)
  PROVE  OrderInv'
<1>1. wpm \in Nat /\ opened \in BOOLEAN
  BY SessionAssumption DEF Opening
<1>2. /\ highScores' = Inserted(wpm, when) /\ saved' = opened
      /\ file' = IF opened THEN Written(highScores') ELSE file
      /\ faults' = IF opened THEN faults ELSE faults \cup {"save"}
  BY DEF GameOver, UpdateHighScores
<1>3. IsSorted(highScores) /\ IsSorted(highScores')
  BY <1>1, <1>2, InsertedSorted DEF TypeOK, OrderInv
<1>4. CASE opened
  <2>1. FileInOrder'
    BY <1>2, <1>3, <1>4 DEF FileInOrder, Written, IsSorted, Ranks
  <2> QED  BY <1>2, <1>3, <1>4, <2>1 DEF OrderInv, Written, IsSorted
<1>5. CASE ~opened
  BY <1>2, <1>3, <1>5 DEF OrderInv, FileInOrder, IsSorted
<1> QED  BY <1>1, <1>4, <1>5

\* Showing the high scores keeps the invariant, whether or not the file opens.
LEMMA OrderShow ==
  ASSUME TypeOK, NoMixture, OrderInv, NEW opened \in OpeningToRead, ShowHighScores(opened)
  PROVE  OrderInv'
<1>1. /\ highScores' = LoadedTable(opened) /\ file' = file
      /\ "save" \in faults' <=> "save" \in faults
      /\ "crash" \in faults' <=> "crash" \in faults
      /\ saved' <=> saved /\ opened
  BY DEF ShowHighScores, LoadHighScores
<1>2. FileInOrder' /\ ("crash" \notin faults' /\ file' # NoFile => file'.whole = MaxHighScores)
  BY <1>1 DEF OrderInv, FileInOrder
<1>3. CASE ~opened
  <2>1. NoSpeed'
    BY <1>1, <1>3, LoadFailed DEF NoSpeed
  <2>2. IsSorted(highScores)'
    BY <2>1 DEF NoSpeed, IsSorted
  <2> QED  BY <1>1, <1>2, <1>3, <2>1, <2>2 DEF OrderInv
<1>4. CASE opened /\ "save" \notin faults /\ saved
  <2>1. file = Written(highScores) /\ highScores' = highScores
    BY <1>1, <1>4, LoadWritten DEF OrderInv, TypeOK
  <2> QED  BY <1>1, <1>2, <1>4, <2>1 DEF OrderInv
<1>5. CASE opened /\ "save" \notin faults /\ ~saved
  <2>0. file # NoFile /\ file \in FileContents
    BY <1>5 DEF OpeningToRead, TypeOK
  <2>1. \A i \in Ranks : ~(i < file.whole) /\ ~(i = file.whole /\ file.torn # -1)
                           => highScores[i].wpm = 0
    BY <1>5 DEF OrderInv, JustLoaded, NoSpeed
  <2>2. JustLoaded'
    BY <1>1, <1>5, <2>0, <2>1 DEF JustLoaded, LoadedTable
  <2>3. IsSorted(highScores)'
    BY <1>1, <1>2, <2>0, <2>2, LoadedInOrder DEF JustLoaded, FileInOrder
  <2> QED  BY <1>1, <1>2, <1>5, <2>2, <2>3 DEF OrderInv
<1>6. CASE opened /\ "save" \in faults
  <2>1. "crash" \notin faults /\ file # NoFile
    BY <1>6 DEF NoMixture, OpeningToRead
  <2>2. file.whole = MaxHighScores /\ IsSorted(file.lines)
    BY <2>1 DEF OrderInv, FileInOrder
  <2>3. \A i \in Ranks : LoadedTable(opened)[i] = file.lines[i]
    BY <1>6, <2>2, ScoreAssumption DEF LoadedTable, Ranks
  <2>4. IsSorted(highScores)'
    BY <1>1, <2>2, <2>3 DEF IsSorted
  <2> QED  BY <1>1, <1>2, <1>6, <2>4 DEF OrderInv
<1> QED  BY <1>3, <1>4, <1>5, <1>6

\* A crash keeps the invariant, unless a save has failed before.
LEMMA OrderCrash ==
  ASSUME TypeOK, OrderInv, "save" \notin faults, NEW wpm \in Speeds, NEW when \in Times,
         CrashWhileSaving(wpm, when)
  PROVE  OrderInv'
<1> DEFINE table == Inserted(wpm, when)
<1>1. wpm \in Nat
  BY SessionAssumption
<1>2. table \in Table /\ IsSorted(table)
  BY <1>1, InsertedType, InsertedSorted DEF TypeOK, OrderInv
<1>n. PICK n \in 0..(MaxHighScores - 1) :
        \E digits \in {-1} \cup CutNumber(table[n].wpm) :
          file' = [lines |-> table, whole |-> n, torn |-> digits]
  BY DEF CrashWhileSaving
<1>3. PICK digits \in {-1} \cup CutNumber(table[n].wpm) :
        file' = [lines |-> table, whole |-> n, torn |-> digits]
  BY <1>n
<1> HIDE DEF table
<1>4. digits <= table[n].wpm
  BY <1>2, CutFileType
<1>5. FileInOrder'
  BY <1>2, <1>3, <1>4 DEF FileInOrder, IsSorted, Ranks
<1>6. highScores' = ZeroTable /\ saved' = FALSE /\ "crash" \in faults'
  BY DEF CrashWhileSaving, StartAgain
<1>7. NoSpeed'
  BY <1>6 DEF NoSpeed, ZeroTable
<1> QED  BY <1>5, <1>6, <1>7, ZeroTableFacts DEF OrderInv

\* Every step keeps the invariant.
LEMMA TableStep == TableInv /\ [Next]_vars => TableInv'
<1> SUFFICES ASSUME TableInv, [Next]_vars, NoMixture'  PROVE OrderInv'
  BY TypeStep DEF TableInv
<1>t. TypeOK /\ TypeOK' /\ NoMixture /\ OrderInv
  BY TypeStep, MixtureStays DEF TableInv
<1>1. CASE Restart
  <2>1. highScores' = ZeroTable /\ saved' = FALSE /\ file' = file /\ faults' = faults
    BY <1>1 DEF Restart, StartAgain
  <2>2. NoSpeed'
    BY <2>1 DEF NoSpeed, ZeroTable
  <2> QED  BY <1>t, <2>1, <2>2, ZeroTableFacts DEF OrderInv, FileInOrder
<1>2. ASSUME NEW wpm \in Speeds, NEW when \in Times, CrashWhileSaving(wpm, when)
      PROVE  OrderInv'
  <2>1. "save" \notin faults
    BY <1>t, <1>2 DEF CrashWhileSaving, NoMixture
  <2> QED  BY <1>t, <1>2, <2>1, OrderCrash
<1>3. CASE UNCHANGED vars
  BY <1>t, <1>3 DEF vars, OrderInv, FileInOrder, JustLoaded, NoSpeed, IsSorted
<1> QED  BY <1>t, <1>1, <1>2, <1>3, OrderGameOver, OrderShow DEF Next

\* The table is in descending order, after any number of games, restarts, cut
\* files, failed reads and failed saves, short of a crash and a failed save
\* together.
THEOREM TableStaysSorted == Spec => []Sorted
<1>1. TableInv => Sorted
  BY DEF TableInv, OrderInv, Sorted
<1> QED  BY <1>1, TableInit, TableStep, PTL DEF Spec

----------------------------------------------------------------------------
(* Agreement with the file                                                 *)

\* From the save that wrote the file until an fopen fails, for writing or for
\* reading, the file holds the table, so that showing the high scores changes
\* nothing.
THEOREM FileFollowsTable == Spec => []FileHoldsTable
<1> DEFINE I == TypeOK /\ FileHoldsTable
<1>1. Init => I
  BY TypeInit DEF Init, FileHoldsTable
<1>2. I /\ [Next]_vars => I'
  <2> SUFFICES ASSUME I, [Next]_vars  PROVE FileHoldsTable'
    BY TypeStep
  <2>1. ASSUME NEW wpm \in Speeds, NEW when \in Times, NEW opened \in Opening,
               GameOver(wpm, when, opened)
        PROVE  FileHoldsTable'
    BY <2>1 DEF GameOver, UpdateHighScores, FileHoldsTable
  <2>2. ASSUME NEW opened \in OpeningToRead, ShowHighScores(opened)  PROVE FileHoldsTable'
    <3>1. CASE saved /\ opened
      BY <2>2, <3>1, LoadWritten DEF ShowHighScores, LoadHighScores, FileHoldsTable, TypeOK
    <3>2. CASE ~(saved /\ opened)
      BY <2>2, <3>2, Zenon DEF ShowHighScores, FileHoldsTable
    <3> QED  BY <3>1, <3>2
  <2>3. CASE Restart
    BY <2>3 DEF Restart, StartAgain, FileHoldsTable
  <2>4. ASSUME NEW wpm \in Speeds, NEW when \in Times, CrashWhileSaving(wpm, when)
        PROVE  FileHoldsTable'
    BY <2>4 DEF CrashWhileSaving, StartAgain, FileHoldsTable
  <2>5. CASE UNCHANGED vars
    BY <2>5 DEF vars, FileHoldsTable
  <2> QED  BY <2>1, <2>2, <2>3, <2>4, <2>5 DEF Next
<1>3. I => FileHoldsTable
  OBVIOUS
<1> QED  BY <1>1, <1>2, <1>3, PTL DEF Spec

----------------------------------------------------------------------------
(* Which speeds are in the table                                           *)

\* The games of the history s with at least speed v, and those that beat it.
AtLeast(s, v) == {k \in DOMAIN s : s[k] >= v}
Above(s, v) == {k \in DOMAIN s : s[k] > v}

\* Both sets are finite.
LEMMA CountsAreNumbers ==
  ASSUME NEW s \in Seq(Nat), NEW v \in Nat
  PROVE  /\ IsFiniteSet(AtLeast(s, v)) /\ Cardinality(AtLeast(s, v)) \in Nat
         /\ IsFiniteSet(Above(s, v)) /\ Cardinality(Above(s, v)) \in Nat
<1>1. IsFiniteSet(1..Len(s))
  BY FS_Interval
<1>2. AtLeast(s, v) \in SUBSET (1..Len(s)) /\ Above(s, v) \in SUBSET (1..Len(s))
  BY DEF AtLeast, Above
<1>3. IsFiniteSet(AtLeast(s, v)) /\ IsFiniteSet(Above(s, v))
  BY <1>1, <1>2, FS_Subset
<1> QED  BY <1>3, FS_CardinalityType

\* A lower speed is reached at least as often, and beaten at least as often.
LEMMA CountsFall ==
  ASSUME NEW s \in Seq(Nat), NEW v \in Nat, NEW w \in Nat, v <= w
  PROVE  /\ Cardinality(AtLeast(s, w)) <= Cardinality(AtLeast(s, v))
         /\ Cardinality(Above(s, w)) <= Cardinality(Above(s, v))
<1>1. AtLeast(s, w) \in SUBSET AtLeast(s, v) /\ Above(s, w) \in SUBSET Above(s, v)
  BY DEF AtLeast, Above
<1> QED  BY <1>1, CountsAreNumbers, FS_Subset

\* One more game is counted when it is fast enough.
LEMMA CountsAppend ==
  ASSUME NEW s \in Seq(Nat), NEW x \in Nat, NEW v \in Nat
  PROVE  /\ Cardinality(AtLeast(Append(s, x), v)) =
              Cardinality(AtLeast(s, v)) + (IF x >= v THEN 1 ELSE 0)
         /\ Cardinality(Above(Append(s, x), v)) =
              Cardinality(Above(s, v)) + (IF x > v THEN 1 ELSE 0)
<1> DEFINE t == Append(s, x)
           n == Len(s) + 1
<1>1. /\ DOMAIN t = 1..n /\ t[n] = x /\ n \in Nat
      /\ DOMAIN s = 1..Len(s) /\ \A k \in DOMAIN s : t[k] = s[k]
  OBVIOUS
<1>2. n \notin AtLeast(s, v) /\ n \notin Above(s, v)
  BY <1>1 DEF AtLeast, Above
<1> HIDE DEF t
<1>3. AtLeast(t, v) = IF x >= v THEN AtLeast(s, v) \cup {n} ELSE AtLeast(s, v)
  BY <1>1 DEF AtLeast
<1>4. Above(t, v) = IF x > v THEN Above(s, v) \cup {n} ELSE Above(s, v)
  BY <1>1 DEF Above
<1> HIDE DEF n
<1>5. /\ Cardinality(AtLeast(s, v) \cup {n}) = Cardinality(AtLeast(s, v)) + 1
      /\ Cardinality(Above(s, v) \cup {n}) = Cardinality(Above(s, v)) + 1
  BY <1>2, CountsAreNumbers, FS_AddElement
<1>6. Cardinality(AtLeast(s, v)) \in Nat /\ Cardinality(Above(s, v)) \in Nat
  BY CountsAreNumbers
<1>7. Cardinality(AtLeast(t, v)) = Cardinality(AtLeast(s, v)) + (IF x >= v THEN 1 ELSE 0)
  BY <1>3, <1>5, <1>6
<1>8. Cardinality(Above(t, v)) = Cardinality(Above(s, v)) + (IF x > v THEN 1 ELSE 0)
  BY <1>4, <1>5, <1>6
<1> QED  BY <1>7, <1>8 DEF t

\* Rank i of the table was reached in more than i games, or is empty.
EarnedIn(table, s) ==
  \A i \in Ranks : table[i].wpm = 0 \/ Cardinality(AtLeast(s, table[i].wpm)) > i

\* At most i games beat rank i of the table.
BeatenIn(table, s) == \A i \in Ranks : Cardinality(Above(s, table[i].wpm)) <= i

\* What update_high_scores does to the speed of a rank.
LEMMA InsertedSpeeds ==
  ASSUME highScores \in Table, NEW wpm \in Nat, NEW when \in Times, NEW i \in Ranks
  PROVE  \/ /\ Beaten(wpm) = {} /\ Inserted(wpm, when) = highScores
            /\ wpm <= highScores[i].wpm
         \/ \E r \in Ranks :
              /\ wpm > highScores[r].wpm
              /\ \A j \in Ranks : j < r => wpm <= highScores[j].wpm
              /\ \/ i < r /\ Inserted(wpm, when)[i] = highScores[i]
                 \/ i = r /\ Inserted(wpm, when)[i].wpm = wpm
                 \/ i > r /\ i - 1 \in Ranks /\ Inserted(wpm, when)[i] = highScores[i - 1]
<1>0. \A j \in Ranks : highScores[j].wpm \in Nat /\ j \in Nat
  BY DEF Table, Entry, Ranks
<1>1. CASE Beaten(wpm) = {}
  <2>1. \A j \in Ranks : ~(wpm > highScores[j].wpm)
    BY <1>1 DEF Beaten
  <2> QED  BY <1>0, <1>1, <2>1 DEF Inserted
<1>2. CASE Beaten(wpm) # {}
  <2> DEFINE r == FirstBeaten(wpm)
  <2>1. /\ r \in Ranks /\ wpm > highScores[r].wpm
        /\ \A j \in Ranks : wpm > highScores[j].wpm => r <= j
    BY <1>2, FirstBeatenIsFirst
  <2>2. \A j \in Ranks : j < r => wpm <= highScores[j].wpm
    BY <1>0, <2>1
  <2>3. Inserted(wpm, when)[i] = CASE i < r -> highScores[i]
                                   [] i = r -> [wpm |-> wpm, when |-> when]
                                   [] i > r -> highScores[i - 1]
    BY <1>2 DEF Inserted
  <2>4. i > r => i - 1 \in Ranks
    BY <2>1, ScoreAssumption DEF Ranks
  <2> HIDE DEF r
  <2>5. \/ i < r /\ Inserted(wpm, when)[i] = highScores[i]
        \/ i = r /\ Inserted(wpm, when)[i].wpm = wpm
        \/ i > r /\ i - 1 \in Ranks /\ Inserted(wpm, when)[i] = highScores[i - 1]
    BY <1>0, <2>1, <2>3, <2>4
  <2> QED  BY <2>1, <2>2, <2>5
<1> QED  BY <1>1, <1>2

\* A game entered into a table of earned speeds leaves one: an entry moves down
\* only below a game that beats it.
LEMMA InsertedEarned ==
  ASSUME highScores \in Table, IsSorted(highScores), NEW s \in Seq(Nat), EarnedIn(highScores, s),
         NEW wpm \in Nat, NEW when \in Times
  PROVE  EarnedIn(Inserted(wpm, when), Append(s, wpm))
<1> DEFINE t == Inserted(wpm, when)
           u == Append(s, wpm)
<1> SUFFICES ASSUME NEW i \in Ranks, t[i].wpm # 0
             PROVE  Cardinality(AtLeast(u, t[i].wpm)) > i
  BY DEF EarnedIn
<1>0. i \in Nat /\ \A j \in Ranks : highScores[j].wpm \in Nat /\ j \in Nat
  BY DEF Table, Entry, Ranks
<1>1. t[i].wpm \in Nat
  BY InsertedType DEF Table, Entry
<1>2. \A j \in Ranks : highScores[j].wpm # 0 => Cardinality(AtLeast(s, highScores[j].wpm)) > j
  BY DEF EarnedIn
<1>3. \/ t = highScores
      \/ \E r \in Ranks :
           /\ wpm > highScores[r].wpm
           /\ \A j \in Ranks : j < r => wpm <= highScores[j].wpm
           /\ \/ i < r /\ t[i] = highScores[i]
              \/ i = r /\ t[i].wpm = wpm
              \/ i > r /\ i - 1 \in Ranks /\ t[i] = highScores[i - 1]
  BY InsertedSpeeds
<1> DEFINE before == Cardinality(AtLeast(s, t[i].wpm))
           after  == Cardinality(AtLeast(u, t[i].wpm))
<1>4. before \in Nat /\ after = before + (IF wpm >= t[i].wpm THEN 1 ELSE 0)
  BY <1>1, CountsAppend, CountsAreNumbers
<1> HIDE DEF t, u
<1>5. CASE t[i] = highScores[i]
  <2>1. before > i
    BY <1>2, <1>5
  <2> HIDE DEF before, after
  <2>2. after > i
    BY <1>0, <1>4, <2>1
  <2> QED  BY <2>2 DEF after
<1>6. ASSUME NEW r \in Ranks, wpm > highScores[r].wpm,
             \A j \in Ranks : j < r => wpm <= highScores[j].wpm, i = r, t[i].wpm = wpm
      PROVE  Cardinality(AtLeast(u, t[i].wpm)) > i
  <2>1. before >= i
    <3>1. CASE i = 0
      BY <1>4, <3>1
    <3>2. CASE i # 0
      <4>1. i - 1 \in Ranks /\ i - 1 < r
        BY <1>6, <3>2, ScoreAssumption DEF Ranks
      <4>2. wpm <= highScores[i - 1].wpm /\ highScores[i - 1].wpm # 0
        BY <1>0, <1>6, <4>1
      <4> DEFINE above == Cardinality(AtLeast(s, highScores[i - 1].wpm))
      <4>3. above > i - 1 /\ above <= before /\ above \in Nat
        BY <1>0, <1>2, <1>6, <4>1, <4>2, CountsFall, CountsAreNumbers
      <4> HIDE DEF above, before
      <4> QED  BY <1>0, <1>4, <4>3
    <3> QED  BY <3>1, <3>2
  <2>2. wpm >= t[i].wpm
    BY <1>6
  <2> HIDE DEF before, after
  <2>3. after > i
    BY <1>0, <1>4, <2>1, <2>2
  <2> QED  BY <2>3 DEF after
<1>7. ASSUME NEW r \in Ranks, wpm > highScores[r].wpm, i > r, i - 1 \in Ranks,
             t[i] = highScores[i - 1]
      PROVE  Cardinality(AtLeast(u, t[i].wpm)) > i
  <2>1. highScores[r].wpm >= highScores[i - 1].wpm
    BY <1>0, <1>7 DEF IsSorted
  <2>2. wpm >= t[i].wpm
    BY <1>0, <1>7, <2>1
  <2>3. before > i - 1
    BY <1>2, <1>7
  <2> HIDE DEF before, after
  <2>4. after > i
    BY <1>0, <1>4, <2>2, <2>3
  <2> QED  BY <2>4 DEF after
<1> QED  BY <1>3, <1>5, <1>6, <1>7

\* A game entered into a table of the best speeds leaves no better speed out.
LEMMA InsertedBeaten ==
  ASSUME highScores \in Table, NEW s \in Seq(Nat), BeatenIn(highScores, s),
         NEW wpm \in Nat, NEW when \in Times
  PROVE  BeatenIn(Inserted(wpm, when), Append(s, wpm))
<1> DEFINE t == Inserted(wpm, when)
           u == Append(s, wpm)
<1> SUFFICES ASSUME NEW i \in Ranks  PROVE Cardinality(Above(u, t[i].wpm)) <= i
  BY DEF BeatenIn
<1>0. i \in Nat /\ \A j \in Ranks : highScores[j].wpm \in Nat /\ j \in Nat
  BY DEF Table, Entry, Ranks
<1>1. t[i].wpm \in Nat
  BY InsertedType DEF Table, Entry
<1>2. \A j \in Ranks : Cardinality(Above(s, highScores[j].wpm)) <= j
  BY DEF BeatenIn
<1>3. \/ t = highScores /\ wpm <= highScores[i].wpm
      \/ \E r \in Ranks :
           /\ wpm > highScores[r].wpm
           /\ \A j \in Ranks : j < r => wpm <= highScores[j].wpm
           /\ \/ i < r /\ t[i] = highScores[i]
              \/ i = r /\ t[i].wpm = wpm
              \/ i > r /\ i - 1 \in Ranks /\ t[i] = highScores[i - 1]
  BY InsertedSpeeds
<1> DEFINE before == Cardinality(Above(s, t[i].wpm))
           after  == Cardinality(Above(u, t[i].wpm))
<1>4. before \in Nat /\ after = before + (IF wpm > t[i].wpm THEN 1 ELSE 0)
  BY <1>1, CountsAppend, CountsAreNumbers
<1> HIDE DEF t, u
<1>5. CASE t[i] = highScores[i] /\ wpm <= highScores[i].wpm
  <2>1. before <= i /\ ~(wpm > t[i].wpm)
    BY <1>0, <1>2, <1>5
  <2> HIDE DEF before, after
  <2>2. after <= i
    BY <1>0, <1>4, <2>1
  <2> QED  BY <2>2 DEF after
<1>6. ASSUME NEW r \in Ranks, wpm > highScores[r].wpm, i = r, t[i].wpm = wpm
      PROVE  Cardinality(Above(u, t[i].wpm)) <= i
  <2> DEFINE old == Cardinality(Above(s, highScores[r].wpm))
  <2>0. highScores[r].wpm \in Nat /\ highScores[r].wpm <= wpm
    BY <1>0, <1>6
  <2>1. before <= old /\ old <= i /\ old \in Nat
    BY <1>2, <1>6, <2>0, CountsFall, CountsAreNumbers
  <2>2. ~(wpm > t[i].wpm)
    BY <1>6
  <2> HIDE DEF before, after, old
  <2>3. after <= i
    BY <1>0, <1>4, <2>1, <2>2
  <2> QED  BY <2>3 DEF after
<1>7. ASSUME i - 1 \in Ranks, t[i] = highScores[i - 1]
      PROVE  Cardinality(Above(u, t[i].wpm)) <= i
  <2>1. before <= i - 1
    BY <1>2, <1>7
  <2> HIDE DEF before, after
  <2>2. after <= i
    BY <1>0, <1>4, <2>1
  <2> QED  BY <2>2 DEF after
<1> QED  BY <1>3, <1>5, <1>6, <1>7

\* One more game does not take from what is earned.
LEMMA EarnedKept ==
  ASSUME NEW table \in Table, NEW s \in Seq(Nat), EarnedIn(table, s), NEW wpm \in Nat
  PROVE  EarnedIn(table, Append(s, wpm))
<1> SUFFICES ASSUME NEW i \in Ranks, table[i].wpm # 0
             PROVE  Cardinality(AtLeast(Append(s, wpm), table[i].wpm)) > i
  BY DEF EarnedIn
<1> DEFINE before == Cardinality(AtLeast(s, table[i].wpm))
           after  == Cardinality(AtLeast(Append(s, wpm), table[i].wpm))
<1>1. i \in Nat /\ table[i].wpm \in Nat /\ before > i
  BY DEF Table, Entry, Ranks, EarnedIn
<1>2. before \in Nat /\ after = before + (IF wpm >= table[i].wpm THEN 1 ELSE 0)
  BY <1>1, CountsAppend, CountsAreNumbers
<1> HIDE DEF before, after
<1>3. after > i
  BY <1>1, <1>2
<1> QED  BY <1>3 DEF after

\* What load_high_scores makes of an earned table and a file of earned speeds is
\* earned, also where the file is cut inside a number.
LEMMA LoadedEarned ==
  ASSUME TypeOK, FileInOrder, EarnedIn(highScores, earned),
         file # NoFile => EarnedIn(file.lines, earned), NEW opened \in OpeningToRead
  PROVE  EarnedIn(LoadedTable(opened), earned)
<1>1. CASE ~opened
  BY <1>1, LoadFailed DEF EarnedIn
<1>2. CASE opened
  <2>0. file # NoFile
    BY <1>2 DEF OpeningToRead
  <2> SUFFICES ASSUME NEW i \in Ranks, LoadedTable(opened)[i].wpm # 0
               PROVE  Cardinality(AtLeast(earned, LoadedTable(opened)[i].wpm)) > i
    BY DEF EarnedIn
  <2>1. /\ file.whole \in Nat /\ file.lines \in Table /\ i \in Nat
        /\ file.torn # -1 => file.torn \in Nat
    BY <2>0 DEF TypeOK, FileContents, Ranks
  <2>2. LoadedTable(opened)[i] =
          CASE i < file.whole -> file.lines[i]
            [] i = file.whole /\ file.torn # -1 -> [wpm |-> file.torn, when |-> MixedTime]
            [] OTHER -> highScores[i]
    BY <1>2 DEF LoadedTable
  <2>3. CASE i = file.whole /\ file.torn # -1
    <3>1. LoadedTable(opened)[i].wpm = file.torn /\ file.torn \in Nat
      BY <2>1, <2>2, <2>3
    <3>2. file.lines[i].wpm \in Nat /\ file.torn <= file.lines[i].wpm
      BY <2>0, <2>1, <2>3 DEF FileInOrder, Table, Entry
    <3> DEFINE whole == Cardinality(AtLeast(earned, file.lines[i].wpm))
               cut   == Cardinality(AtLeast(earned, file.torn))
    <3>3. file.lines[i].wpm # 0
      BY <3>1, <3>2
    <3>4. whole > i /\ whole <= cut /\ whole \in Nat /\ cut \in Nat
      BY <2>0, <3>1, <3>2, <3>3, CountsFall, CountsAreNumbers DEF EarnedIn, TypeOK
    <3> HIDE DEF whole, cut
    <3>5. cut > i
      BY <2>1, <3>4
    <3> QED  BY <3>1, <3>5 DEF cut
  <2>4. CASE ~(i = file.whole /\ file.torn # -1)
    <3>1. LoadedTable(opened)[i] = file.lines[i] \/ LoadedTable(opened)[i] = highScores[i]
      BY <2>2, <2>4
    <3> QED  BY <2>0, <3>1 DEF EarnedIn
  <2> QED  BY <2>3, <2>4
<1> QED  BY <1>1, <1>2

\* Table and file hold earned speeds, until a crash and a failed save have both
\* happened.
EarnedInv ==
  NoMixture => /\ EarnedIn(highScores, earned)
               /\ file # NoFile => EarnedIn(file.lines, earned)

\* An empty table is earned by any games.
LEMMA EmptyEarned == ASSUME NEW s  PROVE EarnedIn(ZeroTable, s)
BY DEF EarnedIn, ZeroTable

\* The speed in the file of the repository is that of the game that made it.
LEMMA EarnedInit == Init => EarnedInv
<1> SUFFICES ASSUME Init  PROVE EarnedInv
  OBVIOUS
<1>1. EarnedIn(highScores, earned) /\ file \in InitialFiles
  BY EmptyEarned DEF Init
<1>2. ASSUME file # NoFile  PROVE EarnedIn(file.lines, earned)
  <2>1. earned = <<ShippedSpeed>>
    BY <1>2 DEF Init
  <2>2. \A i \in Ranks : file.lines[i].wpm = IF i = 0 THEN ShippedSpeed ELSE 0
    BY <1>1, <1>2, InitialFilesFacts DEF Written
  <2>3. AtLeast(earned, ShippedSpeed) = {1}
    BY <2>1 DEF AtLeast, ShippedSpeed
  <2>4. Cardinality({1}) = 1
    BY FS_Singleton, Zenon
  <2>5. Cardinality(AtLeast(earned, ShippedSpeed)) > 0
    BY <2>3, <2>4
  <2> QED  BY <2>2, <2>5 DEF EarnedIn
<1> QED  BY <1>1, <1>2 DEF EarnedInv

\* Every step keeps table and file earned.
LEMMA EarnedStep == TableInv /\ EarnedInv /\ [Next]_vars => EarnedInv'
<1> SUFFICES ASSUME TableInv, EarnedInv, [Next]_vars, NoMixture'
             PROVE  /\ EarnedIn(highScores', earned')
                    /\ file' # NoFile => EarnedIn(file'.lines, earned')
  BY DEF EarnedInv
<1>t. /\ TypeOK /\ OrderInv /\ earned \in Seq(Nat) /\ highScores \in Table
      /\ EarnedIn(highScores, earned)
      /\ file # NoFile => EarnedIn(file.lines, earned) /\ file.lines \in Table
  BY MixtureStays DEF TableInv, EarnedInv, TypeOK, FileContents
<1>1. ASSUME NEW wpm \in Speeds, NEW when \in Times, NEW opened \in Opening,
             GameOver(wpm, when, opened)
      PROVE  /\ EarnedIn(highScores', earned')
             /\ file' # NoFile => EarnedIn(file'.lines, earned')
  <2>1. wpm \in Nat /\ earned' = Append(earned, wpm) /\ highScores' = Inserted(wpm, when)
    BY <1>1, SessionAssumption DEF GameOver, UpdateHighScores
  <2>2. EarnedIn(highScores', earned')
    BY <1>t, <2>1, InsertedEarned DEF OrderInv
  <2>3. file' = file \/ file'.lines = highScores'
    BY <1>1 DEF GameOver, UpdateHighScores, Written
  <2>4. file # NoFile => EarnedIn(file.lines, earned')
    BY <1>t, <2>1, EarnedKept
  <2> QED  BY <2>2, <2>3, <2>4
<1>2. ASSUME NEW opened \in OpeningToRead, ShowHighScores(opened)
      PROVE  /\ EarnedIn(highScores', earned')
             /\ file' # NoFile => EarnedIn(file'.lines, earned')
  BY <1>t, <1>2, LoadedEarned DEF ShowHighScores, LoadHighScores, OrderInv
<1>3. CASE Restart
  BY <1>t, <1>3, EmptyEarned DEF Restart, StartAgain
<1>4. ASSUME NEW wpm \in Speeds, NEW when \in Times, CrashWhileSaving(wpm, when)
      PROVE  /\ EarnedIn(highScores', earned')
             /\ file' # NoFile => EarnedIn(file'.lines, earned')
  <2>1. wpm \in Nat /\ earned' = Append(earned, wpm) /\ highScores' = ZeroTable
    BY <1>4, SessionAssumption DEF CrashWhileSaving, StartAgain
  <2>2. file'.lines = Inserted(wpm, when)
    BY <1>4 DEF CrashWhileSaving
  <2> QED  BY <1>t, <2>1, <2>2, InsertedEarned, EmptyEarned DEF OrderInv
<1>5. CASE UNCHANGED vars
  BY <1>t, <1>5 DEF vars
<1> QED  BY <1>1, <1>2, <1>3, <1>4, <1>5 DEF Next

\* No speed is in the table that the games played do not account for, whatever
\* was cut off the file and read back, and whichever saves failed, short of both.
THEOREM ScoresAreEarned == Spec => []OnlyEarnedScores
<1>1. Init => TableInv /\ EarnedInv
  BY TableInit, EarnedInit
<1>2. TableInv /\ EarnedInv /\ [Next]_vars => (TableInv /\ EarnedInv)'
  BY TableStep, EarnedStep
<1>3. TableInv /\ EarnedInv => OnlyEarnedScores
  BY DEF EarnedInv, OnlyEarnedScores, EarnedIn, AtLeast
<1> QED  BY <1>1, <1>2, <1>3, PTL DEF Spec

\* In a first session in which nothing failed no better speed was left out, and
\* before the first save there is nothing to be read.
TopInv ==
  /\ session >= 1
  /\ session = 1 /\ faults = {} =>
       /\ BeatenIn(highScores, earned)
       /\ ~saved => highScores = ZeroTable /\ file = NoFile

\* Every step keeps the best speeds in the table.
LEMMA TopStep == TableInv /\ TopInv /\ [Next]_vars => TopInv'
<1> SUFFICES ASSUME TableInv, TopInv, [Next]_vars  PROVE TopInv'
  OBVIOUS
<1>t. TypeOK /\ session \in Nat /\ session >= 1 /\ highScores \in Table /\ earned \in Seq(Nat)
  BY DEF TableInv, TypeOK, TopInv
<1>1. ASSUME NEW wpm \in Speeds, NEW when \in Times, NEW opened \in Opening,
             GameOver(wpm, when, opened)
      PROVE  TopInv'
  <2>1. wpm \in Nat /\ earned' = Append(earned, wpm) /\ highScores' = Inserted(wpm, when)
    BY <1>1, SessionAssumption DEF GameOver, UpdateHighScores
  <2>2. session' = session /\ (faults' = {} => faults = {} /\ opened /\ saved')
    BY <1>1 DEF GameOver, Opening
  <2>3. BeatenIn(highScores, earned) => BeatenIn(highScores', earned')
    BY <1>t, <2>1, InsertedBeaten
  <2> QED  BY <1>t, <2>2, <2>3 DEF TopInv
<1>2. ASSUME NEW opened \in OpeningToRead, ShowHighScores(opened)
      PROVE  TopInv'
  <2>1. /\ highScores' = LoadedTable(opened)
        /\ UNCHANGED <<file, earned, session>>
        /\ saved' <=> saved /\ opened
        /\ faults' = {} => faults = {} /\ (opened \/ file = NoFile)
    BY <1>2 DEF ShowHighScores, LoadHighScores
  <2>2. CASE session = 1 /\ faults' = {}
    <3>1. OrderInv /\ BeatenIn(highScores, earned) /\ "save" \notin faults
      BY <2>1, <2>2 DEF TableInv, NoMixture, TopInv
    <3>2. CASE saved
      <4>1. file = Written(highScores) /\ file # NoFile
        BY <1>t, <3>1, <3>2, WrittenType DEF OrderInv
      <4>2. opened /\ highScores' = highScores
        BY <1>t, <2>1, <2>2, <4>1, LoadWritten
      <4> QED  BY <1>t, <2>1, <3>1, <3>2, <4>2 DEF TopInv
    <3>3. CASE ~saved
      <4>1. highScores = ZeroTable /\ file = NoFile
        BY <2>1, <2>2, <3>3 DEF TopInv
      <4>2. ~opened
        BY <4>1 DEF OpeningToRead
      <4>3. LoadedTable(opened) = ZeroTable
        BY <4>1, <4>2 DEF LoadedTable, Cleared, ZeroTable
      <4> QED  BY <1>t, <2>1, <2>2, <3>1, <4>1, <4>3 DEF TopInv
    <3> QED  BY <3>2, <3>3
  <2>3. CASE ~(session = 1 /\ faults' = {})
    BY <1>t, <2>1, <2>3 DEF TopInv
  <2> QED  BY <2>2, <2>3
<1>3. CASE StartAgain
  BY <1>t, <1>3 DEF StartAgain, TopInv
<1>4. CASE UNCHANGED vars
  BY <1>4 DEF vars, TopInv
<1> QED  BY <1>1, <1>2, <1>3, <1>4 DEF Next, Restart, CrashWhileSaving

\* In the first run of the program, while the file opens whenever it is there, the
\* table holds the best speeds of the games played, for a table of any size.
THEOREM TableIsTheBest == Spec => []TopScores
<1>1. Init => TableInv /\ EarnedInv /\ TopInv
  <2>1. ASSUME Init, session = 1, NEW i \in Ranks  PROVE Cardinality(Above(earned, highScores[i].wpm)) <= i
    <3>1. Above(earned, highScores[i].wpm) = {} /\ i \in Nat
      BY <2>1 DEF Init, Above, Ranks
    <3> QED  BY <3>1, FS_EmptySet
  <2>2. Init /\ session = 1 => BeatenIn(highScores, earned)
    BY <2>1 DEF BeatenIn
  <2> QED  BY <2>2, TableInit, EarnedInit DEF Init, TopInv
<1>2. TableInv /\ EarnedInv /\ TopInv /\ [Next]_vars => (TableInv /\ EarnedInv /\ TopInv)'
  BY TableStep, EarnedStep, TopStep
<1>3. TableInv /\ EarnedInv /\ TopInv => TopScores
  <2> SUFFICES ASSUME EarnedInv, TopInv, session = 1, faults = {}, NEW i \in Ranks
               PROVE  HasRank(earned, i, highScores[i].wpm)
    BY DEF TopScores, IsTopOf
  <2>1. /\ highScores[i].wpm = 0 \/ Cardinality(AtLeast(earned, highScores[i].wpm)) > i
        /\ Cardinality(Above(earned, highScores[i].wpm)) <= i
    BY DEF EarnedInv, TopInv, EarnedIn, BeatenIn, NoMixture
  <2> QED  BY <2>1 DEF HasRank, AtLeast, Above
<1> QED  BY <1>1, <1>2, <1>3, PTL DEF Spec

=============================================================================

-------------------------- MODULE ScoreTableProofs --------------------------
(***************************************************************************)
(* What the operators of ScoreTable preserve: the type of the table and    *)
(* its order.                                                              *)
(***************************************************************************)
EXTENDS ScoreTable, WellFoundedInduction, TLAPS

\* The rank update_high_scores inserts at is the first one that is beaten.
LEMMA FirstBeatenIsFirst ==
  ASSUME NEW wpm \in Nat, Beaten(wpm) # {}
  PROVE  /\ FirstBeaten(wpm) \in Ranks
         /\ wpm > highScores[FirstBeaten(wpm)].wpm
         /\ \A i \in Ranks : wpm > highScores[i].wpm => FirstBeaten(wpm) <= i
<1>1. Beaten(wpm) \subseteq Nat
  BY ScoreAssumption DEF Beaten, Ranks
<1>2. \E r \in Beaten(wpm) : \A i \in Beaten(wpm) : r <= i
  <2>1. PICK r \in Beaten(wpm) : \A i \in Beaten(wpm) : ~(<<i, r>> \in OpToRel(<, Nat))
    BY <1>1, WFMin, NatLessThanWellFounded, Zenon
  <2>2. ASSUME NEW i \in Beaten(wpm), i < r  PROVE FALSE
    <3>1. <<i, r>> \in Nat \X Nat /\ <<i, r>>[1] < <<i, r>>[2]
      BY <1>1, <2>2
    <3>2. <<i, r>> \in OpToRel(<, Nat)
      BY <3>1, Zenon DEF OpToRel
    <3> QED  BY <2>1, <3>2
  <2> QED  BY <1>1, <2>2
<1>3. /\ FirstBeaten(wpm) \in Beaten(wpm)
      /\ \A i \in Beaten(wpm) : FirstBeaten(wpm) <= i
  BY <1>2 DEF FirstBeaten
<1> QED  BY <1>3 DEF Beaten

\* The table of a program that has just started is a table, in order.
LEMMA ZeroTableFacts ==
  ZeroTable \in Table /\ IsSorted(ZeroTable)
BY DEF ZeroTable, Table, Entry, IsSorted, Ranks

\* update_high_scores keeps the table a table.
LEMMA InsertedType ==
  ASSUME highScores \in Table, NEW wpm \in Nat, NEW when \in Times
  PROVE  Inserted(wpm, when) \in Table
<1>1. CASE Beaten(wpm) = {}
  BY <1>1 DEF Inserted
<1>2. CASE Beaten(wpm) # {}
  <2> DEFINE r == FirstBeaten(wpm)
  <2>1. r \in Ranks
    BY <1>2, FirstBeatenIsFirst
  <2>2. [wpm |-> wpm, when |-> when] \in Entry
    BY DEF Entry
  <2> HIDE DEF r
  <2>3. ASSUME NEW i \in Ranks
        PROVE  (CASE i < r -> highScores[i]
                  [] i = r -> [wpm |-> wpm, when |-> when]
                  [] i > r -> highScores[i - 1]) \in Entry
    BY <2>1, <2>2, ScoreAssumption DEF Ranks, Table
  <2> QED  BY <1>2, <2>3 DEF Inserted, Table, r
<1> QED  BY <1>1, <1>2

\* update_high_scores keeps the table in order.
LEMMA InsertedSorted ==
  ASSUME highScores \in Table, IsSorted(highScores), NEW wpm \in Nat, NEW when \in Times
  PROVE  IsSorted(Inserted(wpm, when))
<1>1. CASE Beaten(wpm) = {}
  BY <1>1 DEF Inserted
<1>2. CASE Beaten(wpm) # {}
  <2> DEFINE r == FirstBeaten(wpm)
             t == Inserted(wpm, when)
  <2>1. /\ r \in Ranks /\ wpm > highScores[r].wpm
        /\ \A i \in Ranks : wpm > highScores[i].wpm => r <= i
    BY <1>2, FirstBeatenIsFirst
  <2>2. \A i \in Ranks : t[i].wpm = IF i < r THEN highScores[i].wpm
                                    ELSE IF i = r THEN wpm ELSE highScores[i - 1].wpm
    BY <1>2, <2>1, ScoreAssumption DEF Inserted, Ranks
  <2>3. \A i \in Ranks : highScores[i].wpm \in Nat
    BY DEF Table, Entry
  <2>4. \A i, j \in Ranks : i <= j => highScores[i].wpm >= highScores[j].wpm
    BY DEF IsSorted
  <2>5. \A i \in Ranks : i \in Int /\ (i > r => i - 1 \in Ranks)
    BY <2>1, ScoreAssumption DEF Ranks
  <2> HIDE DEF r, t
  <2>6. ASSUME NEW i \in Ranks, NEW j \in Ranks, i <= j  PROVE t[i].wpm >= t[j].wpm
    <3>1. CASE j < r
      BY <2>1, <2>2, <2>4, <2>5, <2>6, <3>1
    <3>2. CASE j = r
      BY <2>1, <2>2, <2>3, <2>5, <2>6, <3>2
    <3>3. CASE j > r
      <4>1. t[j].wpm = highScores[j - 1].wpm /\ j - 1 \in Ranks
        BY <2>1, <2>2, <2>5, <3>3
      <4>2. CASE i < r
        BY <2>2, <2>4, <2>5, <3>3, <4>1, <4>2, <2>1
      <4>3. CASE i = r
        BY <2>1, <2>2, <2>3, <2>4, <2>5, <3>3, <4>1, <4>3
      <4>4. CASE i > r
        BY <2>1, <2>2, <2>4, <2>5, <2>6, <4>1, <4>4
      <4>5. i \in Int /\ r \in Int
        BY <2>1, <2>5
      <4> QED  BY <4>2, <4>3, <4>4, <4>5
    <3> QED  BY <2>1, <2>5, <3>1, <3>2, <3>3
  <2> QED  BY <2>6 DEF IsSorted, t
<1> QED  BY <1>1, <1>2

\* What save_high_scores writes is a file.
LEMMA WrittenType ==
  ASSUME NEW table \in Table
  PROVE  Written(table) \in FileContents /\ Written(table) # NoFile
<1>1. Written(table) \in FileContents
  BY ScoreAssumption DEF Written, FileContents
<1> QED  BY <1>1, ScoreAssumption DEF FileContents, Table, Entry, Ranks

\* load_high_scores keeps the table a table, whatever the file holds and whether
\* or not it opens.
LEMMA LoadedType ==
  ASSUME highScores \in Table, file \in FileContents \cup {NoFile}, NEW opened \in OpeningToRead
  PROVE  LoadedTable(opened) \in Table
<1>1. CASE ~opened
  BY <1>1 DEF LoadedTable, Cleared, Table, Entry
<1>2. CASE opened
  <2>0. file # NoFile
    BY <1>2 DEF OpeningToRead
  <2>1. /\ file.lines \in Table /\ file.whole \in Nat
        /\ file.torn # -1 => file.torn \in Nat
    BY <2>0 DEF FileContents
  <2>2. ASSUME NEW i \in Ranks
        PROVE  (CASE i < file.whole -> file.lines[i]
                  [] i = file.whole /\ file.torn # -1 -> [wpm |-> file.torn, when |-> MixedTime]
                  [] OTHER -> highScores[i]) \in Entry
    BY <2>1 DEF Table, Entry, Ranks
  <2> QED  BY <1>2, <2>2 DEF LoadedTable, Table
<1> QED  BY <1>1, <1>2

\* The files a program may find when it is started for the first time hold tables
\* that are in order.
LEMMA InitialFilesFacts ==
  ASSUME NEW f \in InitialFiles, f # NoFile
  PROVE  \E when \in Times : /\ f = Written(ShippedTable(when))
                             /\ ShippedTable(when) \in Table
                             /\ IsSorted(ShippedTable(when))
                             /\ \A i \in Ranks : ShippedTable(when)[i].wpm =
                                                  IF i = 0 THEN ShippedSpeed ELSE 0
<1>1. PICK when \in Times : f = Written(ShippedTable(when))
  BY DEF InitialFiles
<1>2. 0 \in Ranks /\ \A i \in Ranks : i >= 0 /\ i \in Int
  BY ScoreAssumption DEF Ranks
<1>3. \A i \in Ranks : /\ ShippedTable(when)[i] \in Entry
                       /\ ShippedTable(when)[i].wpm = IF i = 0 THEN ShippedSpeed ELSE 0
  BY <1>2 DEF ShippedTable, ZeroTable, ShippedSpeed, Entry
<1>4. ShippedTable(when) \in Table
  BY <1>2, <1>3 DEF ShippedTable, ZeroTable, ShippedSpeed, Entry, Table
<1>5. IsSorted(ShippedTable(when))
  BY <1>2, <1>3 DEF IsSorted, ShippedSpeed
<1> QED  BY <1>1, <1>3, <1>4, <1>5

=============================================================================

-------------------------- MODULE TypingTestProofs --------------------------
(***************************************************************************)
(* Proofs about TypingTest, for every value of the constants that meets    *)
(* the module's assumptions: the types; that only a text of two lines can  *)
(* be typed past its end; that scrolling preserves the text; that letters  *)
(* and verdicts agree with the cursor and with each other; and that the    *)
(* statistics count everything the text shows.                             *)
(*                                                                         *)
(* The order: the layout and what scrolling does to it; one lemma per      *)
(* change of the text; then the inductive invariants: TypeInv (types and   *)
(* the layout of a drawn text), SafeInv on top of it (in a text of three   *)
(* lines or more the cursor is above the last one), and on top of SafeInv  *)
(* both VerdictInv (letters and words) and CoverInv (the counts).  The     *)
(* last two are shown apart for a cursor in the text and for one that has  *)
(* left it (PastEnd).                                                      *)
(***************************************************************************)
EXTENDS TypingTest, FiniteSetTheorems, WellFoundedInduction, TLAPS

----------------------------------------------------------------------------
(* Induction on natural numbers, with a set as the induction hypothesis    *)

\* A nonempty set of natural numbers has a least element.
LEMMA LeastNatural ==
  ASSUME NEW T, T \subseteq Nat, T # {}
  PROVE  \E n \in T : \A m \in T : n <= m
<1>1. PICK n \in T : \A m \in T : ~(<<m, n>> \in OpToRel(<, Nat))
  BY WFMin, NatLessThanWellFounded, Zenon
<1>2. ASSUME NEW m \in T, m < n  PROVE FALSE
  <2>1. <<m, n>> \in Nat \X Nat /\ <<m, n>>[1] < <<m, n>>[2]
    BY <1>2
  <2>2. <<m, n>> \in OpToRel(<, Nat)
    BY <2>1, Zenon DEF OpToRel
  <2> QED  BY <1>1, <2>2
<1> QED  BY <1>2

\* A set that holds 0 and the successor of each of its elements holds Nat.
LEMMA SetInduction ==
  ASSUME NEW S, 0 \in S, \A n \in Nat : n \in S => n + 1 \in S
  PROVE  Nat \subseteq S
<1>1. SUFFICES ASSUME Nat \ S # {}  PROVE FALSE
  OBVIOUS
<1>2. PICK n \in Nat \ S : \A m \in Nat \ S : n <= m
  BY <1>1, LeastNatural
<1>3. n # 0 /\ n - 1 \in Nat /\ n - 1 \in S
  BY <1>2
<1> QED  BY <1>2, <1>3

----------------------------------------------------------------------------
(* The layout                                                              *)

\* The position of word i, from the positions pos of the words before it.
Place(ws, pos, i) ==
  IF i = 0 THEN [x |-> 0, line |-> 0]
  ELSE LET prev == pos[i - 1]
           end  == prev.x + ws[i - 1].length
       IN  IF end + ws[i].length > LineChars
           THEN [x |-> 0, line |-> prev.line + 1]
           ELSE [x |-> end + 1, line |-> prev.line]

\* The recursive definition of Layout has a solution, so Layout satisfies it.
LEMMA LayoutUnfolds ==
  ASSUME NEW ws
  PROVE  Layout(ws) = [i \in Index |-> Place(ws, Layout(ws), i)]
<1> DEFINE S == {n \in Nat : \E g : \A i \in 0..n : g[i] = Place(ws, g, i)}
<1>1. 0 \in S
  <2> DEFINE g == [i \in 0..0 |-> [x |-> 0, line |-> 0]]
  <2>1. \A i \in 0..0 : g[i] = Place(ws, g, i)
    BY DEF Place
  <2> HIDE DEF g
  <2> QED  BY <2>1
<1>2. ASSUME NEW n \in Nat, n \in S  PROVE n + 1 \in S
  <2>1. PICK g : \A i \in 0..n : g[i] = Place(ws, g, i)
    BY <1>2
  <2> DEFINE h == [i \in 0..(n + 1) |-> IF i <= n THEN g[i] ELSE Place(ws, g, n + 1)]
  <2>2. \A i \in 0..n : h[i] = g[i]
    OBVIOUS
  <2>3. ASSUME NEW i \in 0..(n + 1)  PROVE Place(ws, h, i) = Place(ws, g, i)
    <3>1. i # 0 => h[i - 1] = g[i - 1]
      BY <2>2
    <3> HIDE DEF h
    <3> QED  BY <3>1, Zenon DEF Place
  <2>4. ASSUME NEW i \in 0..(n + 1)  PROVE h[i] = Place(ws, g, i)
    <3>1. CASE i \in 0..n
      BY <2>1, <2>2, <3>1
    <3>2. CASE i = n + 1
      BY <3>2
    <3> QED  BY <3>1, <3>2
  <2> HIDE DEF h
  <2>5. \A i \in 0..(n + 1) : h[i] = Place(ws, h, i)
    BY <2>3, <2>4
  <2> QED  BY <2>5
<1>3. WordCount - 1 \in S
  <2> HIDE DEF S
  <2> QED BY <1>1, <1>2, SetInduction, ConstantsAssumption
<1>4. PICK g : \A i \in Index : g[i] = Place(ws, g, i)
  BY <1>3 DEF Index
<1> DEFINE f == [i \in Index |-> g[i]]
<1>5. f = [i \in Index |-> Place(ws, f, i)]
  <2>1. ASSUME NEW i \in Index  PROVE Place(ws, f, i) = Place(ws, g, i)
    <3>1. i # 0 => i - 1 \in Index /\ f[i - 1] = g[i - 1]
      BY ConstantsAssumption DEF Index
    <3> HIDE DEF f
    <3> QED  BY <3>1, Zenon DEF Place
  <2> QED  BY <1>4, <2>1
<1> HIDE DEF f
<1> QED  BY <1>5 DEF Layout, Place

Lengths(ws) == \A i \in Index : ws[i].length \in 1..(LineChars + 1)

\* One step of the layout, and where a word may end.
LEMMA LayoutFacts ==
  ASSUME NEW ws, Lengths(ws)
  PROVE  \A i \in Index :
           LET p == Layout(ws)[i]
               q == Layout(ws)[i - 1]
               e == q.x + ws[i - 1].length
           IN  /\ p.x \in Nat /\ p.line \in 0..i
               /\ p.x + ws[i].length <= LineChars + 1
               /\ i = 0 => p.x = 0 /\ p.line = 0
               /\ i # 0 => \/ /\ e + ws[i].length > LineChars
                             /\ p.x = 0 /\ p.line = q.line + 1
                          \/ /\ e + ws[i].length <= LineChars
                             /\ p.x = e + 1 /\ p.line = q.line
<1> DEFINE L == Layout(ws)
           S == {n \in Nat : n \in Index =>
                   /\ L[n].x \in Nat /\ L[n].line \in 0..n
                   /\ L[n].x + ws[n].length <= LineChars + 1}
<1>1. \A i \in Index : L[i] = Place(ws, L, i)
  <2>1. L = [i \in Index |-> Place(ws, L, i)]
    BY LayoutUnfolds
  <2> HIDE DEF L
  <2> QED  BY <2>1, Zenon
<1> HIDE DEF L
<1>2. L[0].x = 0 /\ L[0].line = 0
  <2>1. Place(ws, L, 0) = [x |-> 0, line |-> 0]
    BY DEF Place
  <2>2. L[0] = Place(ws, L, 0)
    BY <1>1, ConstantsAssumption DEF Index
  <2> QED  BY <2>1, <2>2
<1>3. ASSUME NEW i \in Index, i # 0, L[i - 1].x \in Nat, L[i - 1].line \in 0..(i - 1)
      PROVE  LET e == L[i - 1].x + ws[i - 1].length
             IN  \/ /\ e + ws[i].length > LineChars
                    /\ L[i].x = 0 /\ L[i].line = L[i - 1].line + 1
                 \/ /\ e + ws[i].length <= LineChars
                    /\ L[i].x = e + 1 /\ L[i].line = L[i - 1].line
  <2>1. i - 1 \in Index /\ ws[i - 1].length \in Nat /\ ws[i].length \in Nat /\ LineChars \in Nat
    BY <1>3, ConstantsAssumption DEF Index, Lengths
  <2>2. L[i] = Place(ws, L, i)
    BY <1>1
  <2> QED  BY <1>3, <2>1, <2>2 DEF Place
<1>4. 0 \in S
  BY <1>2, ConstantsAssumption DEF Lengths
<1>5. ASSUME NEW n \in Nat, n \in S  PROVE n + 1 \in S
  <2>1. SUFFICES ASSUME n + 1 \in Index
                 PROVE  /\ L[n + 1].x \in Nat /\ L[n + 1].line \in 0..(n + 1)
                        /\ L[n + 1].x + ws[n + 1].length <= LineChars + 1
    OBVIOUS
  <2>2. n \in Index /\ (n + 1) - 1 = n
    BY <2>1, ConstantsAssumption DEF Index
  <2>3. ws[n + 1].length \in 1..(LineChars + 1) /\ ws[n].length \in 1..(LineChars + 1) /\ LineChars \in Nat
    BY <2>1, <2>2, ConstantsAssumption DEF Lengths
  <2>4. L[n].x \in Nat /\ L[n].line \in 0..n
    BY <1>5, <2>2
  <2>5. LET e == L[n].x + ws[n].length
        IN  \/ /\ e + ws[n + 1].length > LineChars
               /\ L[n + 1].x = 0 /\ L[n + 1].line = L[n].line + 1
            \/ /\ e + ws[n + 1].length <= LineChars
               /\ L[n + 1].x = e + 1 /\ L[n + 1].line = L[n].line
    BY <1>3, <2>1, <2>2, <2>4
  <2> QED  BY <2>3, <2>4, <2>5
<1>6. Nat \subseteq S
  <2> HIDE DEF S
  <2> QED BY <1>4, <1>5, SetInduction
<1>7. ASSUME NEW i \in Index
      PROVE  /\ L[i].x \in Nat /\ L[i].line \in 0..i
             /\ L[i].x + ws[i].length <= LineChars + 1
  BY <1>6, ConstantsAssumption DEF Index
<1>8. ASSUME NEW i \in Index, i # 0
      PROVE  L[i - 1].x \in Nat /\ L[i - 1].line \in 0..(i - 1)
  <2>1. i - 1 \in Index
    BY <1>8, ConstantsAssumption DEF Index
  <2> QED BY <1>7, <2>1
<1> QED  BY <1>2, <1>3, <1>7, <1>8 DEF L

\* Lines are numbered in the order of the words.
LEMMA LineMonotone ==
  ASSUME NEW ws, Lengths(ws), NEW i \in Index, NEW j \in Index, i <= j
  PROVE  Layout(ws)[i].line <= Layout(ws)[j].line
<1> DEFINE L == Layout(ws)
           S == {n \in Nat : n \in Index /\ i <= n => L[i].line <= L[n].line}
<1>1. \A n \in Index : L[n].line \in Int /\ (n # 0 => L[n].line >= L[n - 1].line)
  BY LayoutFacts, ConstantsAssumption DEF Index
<1> HIDE DEF L
<1>2. 0 \in S
  BY <1>1, ConstantsAssumption DEF Index
<1>3. ASSUME NEW n \in Nat, n \in S  PROVE n + 1 \in S
  <2>1. SUFFICES ASSUME n + 1 \in Index, i <= n + 1  PROVE L[i].line <= L[n + 1].line
    OBVIOUS
  <2>2. n \in Index /\ (n + 1) - 1 = n /\ i \in Int
    BY <2>1, ConstantsAssumption DEF Index
  <2>3. CASE i = n + 1
    BY <1>1, <2>3
  <2>4. CASE i <= n
    <3>1. L[i].line <= L[n].line
      BY <1>3, <2>2, <2>4
    <3>2. L[n + 1].line >= L[n].line /\ L[n].line \in Int /\ L[n + 1].line \in Int /\ L[i].line \in Int
      BY <1>1, <2>1, <2>2
    <3> QED  BY <3>1, <3>2
  <2> QED  BY <2>1, <2>2, <2>3, <2>4
<1>4. Nat \subseteq S
  <2> HIDE DEF S
  <2> QED BY <1>2, <1>3, SetInduction
<1> QED  BY <1>4, ConstantsAssumption DEF Index, L

\* The layout depends on the lengths of the words only.
LEMMA LayoutOfLengths ==
  ASSUME NEW ws, NEW vs, Lengths(ws), \A i \in Index : vs[i].length = ws[i].length
  PROVE  \A i \in Index : /\ Layout(vs)[i].x = Layout(ws)[i].x
                          /\ Layout(vs)[i].line = Layout(ws)[i].line
<1> DEFINE L == Layout(ws)
           M == Layout(vs)
           S == {n \in Nat : n \in Index => M[n].x = L[n].x /\ M[n].line = L[n].line}
<1>0. Lengths(vs)
  BY DEF Lengths
<1>1. \A i \in Index : /\ L[i].x \in Nat /\ L[i].line \in Nat
                       /\ i = 0 => L[i].x = 0 /\ L[i].line = 0
                       /\ i # 0 => IF L[i - 1].x + ws[i - 1].length + ws[i].length > LineChars
                                   THEN L[i].x = 0 /\ L[i].line = L[i - 1].line + 1
                                   ELSE /\ L[i].x = L[i - 1].x + ws[i - 1].length + 1
                                        /\ L[i].line = L[i - 1].line
  BY LayoutFacts, ConstantsAssumption DEF Index, Lengths
<1>2. \A i \in Index : /\ M[i].x \in Nat /\ M[i].line \in Nat
                       /\ i = 0 => M[i].x = 0 /\ M[i].line = 0
                       /\ i # 0 => IF M[i - 1].x + vs[i - 1].length + vs[i].length > LineChars
                                   THEN M[i].x = 0 /\ M[i].line = M[i - 1].line + 1
                                   ELSE /\ M[i].x = M[i - 1].x + vs[i - 1].length + 1
                                        /\ M[i].line = M[i - 1].line
  BY <1>0, LayoutFacts, ConstantsAssumption DEF Index, Lengths
<1> HIDE DEF L, M
<1>3. 0 \in S
  BY <1>1, <1>2
<1>4. ASSUME NEW n \in Nat, n \in S  PROVE n + 1 \in S
  <2>1. SUFFICES ASSUME n + 1 \in Index
                 PROVE  M[n + 1].x = L[n + 1].x /\ M[n + 1].line = L[n + 1].line
    OBVIOUS
  <2>2. n \in Index /\ (n + 1) - 1 = n /\ n + 1 # 0
    BY <2>1, ConstantsAssumption DEF Index
  <2>3. M[n].x = L[n].x /\ M[n].line = L[n].line
    BY <1>4, <2>2
  <2>4. vs[n].length = ws[n].length /\ vs[n + 1].length = ws[n + 1].length
    BY <2>1, <2>2
  <2>5. IF L[n].x + ws[n].length + ws[n + 1].length > LineChars
        THEN L[n + 1].x = 0 /\ L[n + 1].line = L[n].line + 1
        ELSE L[n + 1].x = L[n].x + ws[n].length + 1 /\ L[n + 1].line = L[n].line
    BY <1>1, <2>1, <2>2
  <2>6. IF M[n].x + vs[n].length + vs[n + 1].length > LineChars
        THEN M[n + 1].x = 0 /\ M[n + 1].line = M[n].line + 1
        ELSE M[n + 1].x = M[n].x + vs[n].length + 1 /\ M[n + 1].line = M[n].line
    BY <1>2, <2>1, <2>2
  <2> QED  BY <2>3, <2>4, <2>5, <2>6
<1>5. Nat \subseteq S
  <2> HIDE DEF S
  <2> QED BY <1>3, <1>4, SetInduction
<1> QED  BY <1>5, ConstantsAssumption DEF Index, L, M

\* A text of words of m letters or more that is too long for one line takes two.
LEMMA TwoLines ==
  ASSUME NEW ws, Lengths(ws),
         NEW m \in Nat, \A i \in Index : ws[i].length >= m,
         WordCount * (m + 1) > LineChars + 2
  PROVE  Layout(ws)[WordCount - 1].line >= 1
<1> DEFINE L == Layout(ws)
           E(n) == L[n].x + ws[n].length + 1
           S == {n \in Nat : n \in Index /\ L[n].line = 0 => (n + 1) * (m + 1) <= E(n)}
<1>1. \A i \in Index : /\ L[i].x \in Nat /\ L[i].line \in Nat
                       /\ ws[i].length \in Nat /\ ws[i].length >= m
                       /\ E(i) <= LineChars + 2
                       /\ i = 0 => L[i].x = 0 /\ L[i].line = 0
                       /\ i # 0 => \/ L[i].x = 0 /\ L[i].line = L[i - 1].line + 1
                                   \/ /\ L[i].x = L[i - 1].x + ws[i - 1].length + 1
                                      /\ L[i].line = L[i - 1].line
  BY LayoutFacts, ConstantsAssumption DEF Index, Lengths
<1> HIDE DEF L
<1>2. 0 \in S
  <2>1. (0 + 1) * (m + 1) = m + 1
    OBVIOUS
  <2> QED  BY <1>1, <2>1
<1>3. ASSUME NEW n \in Nat, n \in S  PROVE n + 1 \in S
  <2> DEFINE A == (n + 1) * (m + 1)
             B == (n + 2) * (m + 1)
  <2>1. SUFFICES ASSUME n + 1 \in Index, L[n + 1].line = 0
                 PROVE  B <= E(n + 1)
    OBVIOUS
  <2>2. n \in Index /\ (n + 1) - 1 = n /\ n + 1 # 0
    BY <2>1, ConstantsAssumption DEF Index
  <2>3. A \in Nat /\ B = A + m + 1
    OBVIOUS
  <2>4. L[n].line = 0 => A <= E(n)
    BY <1>3, <2>2
  <2>5. \/ L[n + 1].x = 0 /\ L[n + 1].line = L[n].line + 1
        \/ L[n + 1].x = E(n) /\ L[n + 1].line = L[n].line
    BY <1>1, <2>1, <2>2
  <2>6. /\ L[n].line \in Nat /\ L[n].x \in Nat /\ ws[n].length \in Nat /\ E(n) <= LineChars + 2
        /\ L[n + 1].x \in Nat /\ ws[n + 1].length \in Nat /\ ws[n + 1].length >= m
    BY <1>1, <2>1, <2>2
  <2> HIDE DEF A, B
  <2> QED  BY <2>1, <2>3, <2>4, <2>5, <2>6, ConstantsAssumption
<1>4. Nat \subseteq S
  <2> HIDE DEF S
  <2> QED BY <1>2, <1>3, SetInduction
<1>5. WordCount - 1 \in Nat /\ WordCount - 1 \in Index /\ (WordCount - 1) + 1 = WordCount
  BY ConstantsAssumption DEF Index
<1> DEFINE C == WordCount * (m + 1)
           z == L[WordCount - 1].line
<1>6. z = 0 => C <= E(WordCount - 1)
  BY <1>4, <1>5
<1>7. z \in Nat /\ E(WordCount - 1) <= LineChars + 2 /\ E(WordCount - 1) \in Nat
  BY <1>1, <1>5
<1>8. C \in Nat /\ C > LineChars + 2
  BY ConstantsAssumption
<1> HIDE DEF C, z, E
<1>9. z >= 1
  BY <1>6, <1>7, <1>8, ConstantsAssumption
<1> QED  BY <1>9 DEF z, L

\* The words s..e of one line, moved to the start of a text, fill one line
\* again, and the word after them is on that line or on the next.
LEMMA MovedLine ==
  ASSUME NEW ws, NEW vs, Lengths(ws), Lengths(vs),
         NEW s \in Index, NEW e \in Index, s <= e,
         s = 0 \/ Layout(ws)[s - 1].line # Layout(ws)[s].line,
         \A i \in s..e : Layout(ws)[i].line = Layout(ws)[s].line,
         \A k \in 0..(e - s) : vs[k].length = ws[s + k].length
  PROVE  /\ \A k \in 0..(e - s) : Layout(vs)[k].line = 0
         /\ e - s + 1 \in Index => Layout(vs)[e - s + 1].line <= 1
<1> DEFINE L == Layout(ws)
           M == Layout(vs)
           S == {n \in Nat : n \in 0..(e - s) => M[n].x = L[s + n].x /\ M[n].line = 0}
<1>1. \A i \in Index : /\ L[i].x \in Nat /\ L[i].line \in Nat
                       /\ i = 0 => L[i].x = 0 /\ L[i].line = 0
                       /\ i # 0 => IF L[i - 1].x + ws[i - 1].length + ws[i].length > LineChars
                                   THEN L[i].x = 0 /\ L[i].line = L[i - 1].line + 1
                                   ELSE /\ L[i].x = L[i - 1].x + ws[i - 1].length + 1
                                        /\ L[i].line = L[i - 1].line
  BY LayoutFacts, ConstantsAssumption DEF Index, Lengths
<1>2. \A i \in Index : /\ M[i].x \in Nat /\ M[i].line \in Nat
                       /\ i = 0 => M[i].x = 0 /\ M[i].line = 0
                       /\ i # 0 => IF M[i - 1].x + vs[i - 1].length + vs[i].length > LineChars
                                   THEN M[i].x = 0 /\ M[i].line = M[i - 1].line + 1
                                   ELSE /\ M[i].x = M[i - 1].x + vs[i - 1].length + 1
                                        /\ M[i].line = M[i - 1].line
  BY LayoutFacts, ConstantsAssumption DEF Index, Lengths
<1>3. L[s].x = 0
  <2>1. CASE s = 0
    BY <1>1, <2>1
  <2>2. CASE s # 0 /\ L[s - 1].line # L[s].line
    BY <1>1, <2>2
  <2> QED  BY <2>1, <2>2
<1>4. \A i \in s..e : L[i].line = L[s].line
  OBVIOUS
<1> HIDE DEF L, M
<1>5. 0 \in S
  <2>1. 0 \in Index
    BY ConstantsAssumption DEF Index
  <2> QED BY <1>2, <1>3, <2>1 DEF Index
<1>6. ASSUME NEW n \in Nat, n \in S  PROVE n + 1 \in S
  <2>1. SUFFICES ASSUME n + 1 \in 0..(e - s)
                 PROVE  M[n + 1].x = L[s + (n + 1)].x /\ M[n + 1].line = 0
    OBVIOUS
  <2>2. /\ n \in 0..(e - s) /\ n \in Index /\ n + 1 \in Index /\ (n + 1) - 1 = n /\ n + 1 # 0
        /\ s + n \in Index /\ s + n + 1 \in Index /\ s + n + 1 # 0 /\ (s + n + 1) - 1 = s + n
        /\ s + n \in s..e /\ s + n + 1 \in s..e /\ s + (n + 1) = s + n + 1
    BY <2>1, ConstantsAssumption DEF Index
  <2>3. M[n].x = L[s + n].x /\ M[n].line = 0
    BY <1>6, <2>2
  <2>4. vs[n].length = ws[s + n].length /\ vs[n + 1].length = ws[s + n + 1].length
    BY <2>1, <2>2
  <2>5. L[s + n + 1].line = L[s + n].line /\ L[s + n].line \in Nat
    BY <1>1, <1>4, <2>2
  <2>6. /\ ~(L[s + n].x + ws[s + n].length + ws[s + n + 1].length > LineChars)
        /\ L[s + n + 1].x = L[s + n].x + ws[s + n].length + 1
    BY <1>1, <2>2, <2>5
  <2>7. IF M[n].x + vs[n].length + vs[n + 1].length > LineChars
        THEN M[n + 1].x = 0 /\ M[n + 1].line = M[n].line + 1
        ELSE M[n + 1].x = M[n].x + vs[n].length + 1 /\ M[n + 1].line = M[n].line
    BY <1>2, <2>2
  <2> QED  BY <2>2, <2>3, <2>4, <2>6, <2>7
<1>7. Nat \subseteq S
  <2> HIDE DEF S
  <2> QED BY <1>5, <1>6, SetInduction
<1>8. \A k \in 0..(e - s) : M[k].line = 0
  BY <1>7
<1>9. e - s + 1 \in Index => M[e - s + 1].line <= 1
  <2>1. SUFFICES ASSUME e - s + 1 \in Index  PROVE M[e - s + 1].line <= 1
    OBVIOUS
  <2>2. e - s \in 0..(e - s) /\ e - s + 1 # 0 /\ (e - s + 1) - 1 = e - s
    BY DEF Index
  <2> QED  BY <1>2, <1>8, <2>1, <2>2
<1> QED  BY <1>8, <1>9 DEF M

----------------------------------------------------------------------------
(* Drawing and scrolling                                                   *)

\* Once drawn, the lines stored in the words are those of the layout.  Before,
\* the cursor has not moved and the stale lines are all the same.
LinesInv ==
  /\ LaidOut => /\ \A i \in Index : words[i].line = Layout(words)[i].line
                /\ number_of_lines = Layout(words)[WordCount - 1].line
  /\ ~LaidOut => /\ currentWordIndex = 0
                 /\ \A i \in Index : words[i].line = words[0].line

\* The words of a text have lengths the layout can place.
LEMMA TextLengths ==
  ASSUME NEW ws, IsText(ws)
  PROVE  Lengths(ws)
BY LengthAssumption DEF IsText, IsWord, Lengths

\* What drawWords leaves: the same words, with lines that agree with the layout.
LEMMA DrawWordsFacts ==
  ASSUME NEW ws, IsText(ws), DrawWords(ws)
  PROVE  /\ IsText(words')
         /\ number_of_lines' \in 0..(WordCount - 1)
         /\ number_of_lines' = Layout(words')[WordCount - 1].line
         /\ \A i \in Index : words'[i].line = Layout(words')[i].line
         /\ \A i \in Index : /\ words'[i].text = ws[i].text
                             /\ words'[i].length = ws[i].length
                             /\ words'[i].status = ws[i].status
                             /\ words'[i].letters = ws[i].letters
         /\ words'[WordCount] = ws[WordCount]
<1> DEFINE L == Layout(ws)
<1>1. Lengths(ws)
  BY TextLengths
<1>2. \A i \in Index : L[i].line \in 0..i
  BY <1>1, LayoutFacts
<1>3. /\ words' = [i \in 0..WordCount |->
                     IF i \in Index THEN [ws[i] EXCEPT !.line = L[i].line] ELSE ws[i]]
      /\ number_of_lines' = L[WordCount - 1].line
  BY DEF DrawWords
<1> HIDE DEF L
<1>4. /\ Index \subseteq 0..WordCount /\ WordCount \in 0..WordCount /\ WordCount \notin Index
      /\ WordCount - 1 \in Index
  BY ConstantsAssumption DEF Index
<1>5. ASSUME NEW i \in Index
      PROVE  /\ IsWord(words'[i]) /\ words'[i].line = L[i].line
             /\ words'[i].text = ws[i].text /\ words'[i].length = ws[i].length
             /\ words'[i].status = ws[i].status /\ words'[i].letters = ws[i].letters
  <2>1. words'[i] = [ws[i] EXCEPT !.line = L[i].line]
    BY <1>3, <1>4
  <2>2. IsWord(ws[i])
    BY DEF IsText
  <2>3. L[i].line \in Int
    BY <1>2 DEF Index
  <2>4. words'[i] = [text |-> ws[i].text, length |-> ws[i].length, status |-> ws[i].status,
                     letters |-> ws[i].letters, line |-> L[i].line]
    BY <2>1, <2>2 DEF IsWord
  <2> QED  BY <2>2, <2>3, <2>4 DEF IsWord
<1>6. words'[WordCount] = ws[WordCount]
  BY <1>3, <1>4
<1>7. words' = [i \in 0..WordCount |-> words'[i]]
  BY <1>3
<1>8. IsText(words')
  BY <1>5, <1>6, <1>7 DEF IsText
<1>9. \A i \in Index : Layout(words')[i].line = L[i].line
  BY <1>1, <1>5, LayoutOfLengths DEF L
<1> QED  BY <1>2, <1>3, <1>4, <1>5, <1>6, <1>8, <1>9

\* The words kept by shift_words_up are the end of the text but for its last
\* word, and they are copied in order.
LEMMA KeptInterval ==
  ASSUME IsText(words), LaidOut, LinesInv
  PROVE  \E s \in Index : /\ Kept = s..(WordCount - 2)
                          /\ Cardinality(Kept) = WordCount - 1 - s
                          /\ \A k \in 0..(WordCount - 2 - s) : KeptAt(k) = s + k
<1>1. /\ Lengths(words) /\ WordCount - 1 \in Index /\ WordCount \in Nat
      /\ 0..(WordCount - 2) \subseteq Index /\ Index \subseteq Nat
  BY TextLengths, ConstantsAssumption DEF Index
<1>2. \A i \in Index : words[i].line \in Int /\ words[i].line <= number_of_lines
  <2>1. \A i \in Index : i <= WordCount - 1
    BY ConstantsAssumption DEF Index
  <2>2. \A i \in Index : words[i].line \in Int
    BY DEF IsText, IsWord
  <2>3. \A i \in Index : Layout(words)[i].line <= Layout(words)[WordCount - 1].line
    BY <1>1, <2>1, LineMonotone
  <2> QED  BY <2>2, <2>3 DEF LinesInv
<1>3. number_of_lines \in Int
  <2>1. number_of_lines = words[WordCount - 1].line
    BY <1>1 DEF LinesInv
  <2> QED  BY <1>1, <1>2, <2>1
<1>4. \E s \in Index : Kept = s..(WordCount - 2)
  <2>1. CASE Kept = {}
    BY <1>1, <2>1
  <2>2. CASE Kept # {}
    <3>1. PICK s \in Kept : \A i \in Kept : s <= i
      BY <1>1, <2>2, LeastNatural DEF Kept
    <3>2. ASSUME NEW i \in s..(WordCount - 2)  PROVE i \in Kept
      <4>1. s \in Index /\ i \in Index /\ s <= i /\ words[s].line >= number_of_lines - 1
        BY <1>1, <1>3, <3>1, <3>2 DEF Kept, Index
      <4>2. words[s].line <= words[i].line
        BY <1>1, <4>1, LineMonotone DEF LinesInv
      <4>3. words[i].line \in {number_of_lines - 1, number_of_lines}
        BY <1>2, <1>3, <4>1, <4>2
      <4> QED  BY <1>1, <4>1, <4>3 DEF Kept, Index
    <3> QED  BY <1>1, <3>1, <3>2 DEF Kept
  <2> QED  BY <2>1, <2>2
<1>5. PICK s \in Index : Kept = s..(WordCount - 2)
  BY <1>4
<1>6. Cardinality(Kept) = WordCount - 1 - s
  <2>1. Cardinality(s..(WordCount - 2)) =
          IF s > WordCount - 2 THEN 0 ELSE (WordCount - 2) - s + 1
    BY <1>1, FS_Interval
  <2> QED  BY <1>1, <1>5, <2>1 DEF Index
<1>7. ASSUME NEW i \in Kept  PROVE Cardinality({j \in Kept : j < i}) = i - s
  <2>1. {j \in Kept : j < i} = s..(i - 1)
    BY <1>1, <1>5
  <2>2. Cardinality(s..(i - 1)) = IF s > i - 1 THEN 0 ELSE (i - 1) - s + 1
    BY <1>1, <1>5, FS_Interval
  <2>3. i \in Int /\ s \in Int /\ s <= i
    BY <1>1, <1>5
  <2>4. Cardinality(s..(i - 1)) = i - s
    BY <2>2, <2>3
  <2> QED  BY <2>1, <2>4, Zenon
<1>8. ASSUME NEW k \in 0..(WordCount - 2 - s)  PROVE KeptAt(k) = s + k
  <2>1. s + k \in Kept /\ (s + k) - s = k
    BY <1>1, <1>5
  <2>2. ASSUME NEW i \in Kept
        PROVE  (Cardinality({j \in Kept : j < i}) = k) <=> (i = s + k)
    <3>1. i \in Int /\ s \in Int
      BY <1>1, <1>5
    <3> QED  BY <1>7, <3>1
  <2> QED  BY <2>1, <2>2 DEF KeptAt
<1> QED  BY <1>5, <1>6, <1>8

\* Replacing a word of a text by a word gives a text.
LEMMA ReplaceWord ==
  ASSUME NEW ws, IsText(ws), NEW i \in Index,
         NEW vs, vs = [k \in 0..WordCount |-> vs[k]], IsWord(vs[i]),
         \A k \in 0..WordCount : k # i => vs[k] = ws[k]
  PROVE  IsText(vs)
<1>1. Index \subseteq 0..WordCount /\ WordCount \in 0..WordCount /\ i # WordCount
  BY ConstantsAssumption DEF Index
<1> QED  BY <1>1 DEF IsText

\* The texts that the handlers draw.
LEMMA LetterText ==
  ASSUME IsText(words), currentWordIndex \in 0..WordCount,
         NEW j \in 0..(CurrentWord.length - 1), NEW v \in {-1, 0, 1}
  PROVE  /\ IsText(WithLetter(j, v)) /\ currentWordIndex \in Index
         /\ WithLetter(j, v)[currentWordIndex].length = CurrentWord.length
         /\ WithLetter(j, v)[currentWordIndex].text = CurrentWord.text
         /\ WithLetter(j, v)[currentWordIndex].status = CurrentWord.status
         /\ WithLetter(j, v)[currentWordIndex].letters = [CurrentWord.letters EXCEPT ![j] = v]
         /\ \A k \in 0..WordCount : k # currentWordIndex => WithLetter(j, v)[k] = words[k]
<1>1. currentWordIndex \in Index
  <2>1. words[WordCount].length = 0
    BY DEF IsText, Terminator
  <2>2. currentWordIndex # WordCount
    BY <2>1 DEF CurrentWord
  <2> QED  BY <2>2, ConstantsAssumption DEF Index
<1>2. IsWord(CurrentWord)
  BY <1>1 DEF IsText, CurrentWord
<1> DEFINE w == [CurrentWord EXCEPT !.letters = [@ EXCEPT ![j] = v]]
<1>3. /\ w = [text |-> CurrentWord.text, length |-> CurrentWord.length,
              status |-> CurrentWord.status, letters |-> [CurrentWord.letters EXCEPT ![j] = v],
              line |-> CurrentWord.line]
  BY <1>2 DEF IsWord
<1>4. [CurrentWord.letters EXCEPT ![j] = v] \in [0..(CurrentWord.length - 1) -> {-1, 0, 1}]
  BY <1>2 DEF IsWord
<1>5. IsWord(w)
  BY <1>2, <1>3, <1>4 DEF IsWord
<1>6. WithLetter(j, v) = [words EXCEPT ![currentWordIndex] = w]
  BY DEF CurrentWord, WithLetter
<1> HIDE DEF w
<1>7. /\ IsText(WithLetter(j, v)) /\ WithLetter(j, v)[currentWordIndex] = w
      /\ \A k \in 0..WordCount : k # currentWordIndex => WithLetter(j, v)[k] = words[k]
  <2>1. words = [k \in 0..WordCount |-> words[k]]
    BY DEF IsText
  <2>2. /\ WithLetter(j, v) = [k \in 0..WordCount |-> WithLetter(j, v)[k]] /\ WithLetter(j, v)[currentWordIndex] = w
        /\ \A k \in 0..WordCount : k # currentWordIndex => WithLetter(j, v)[k] = words[k]
    BY <1>6, <2>1
  <2> QED  BY <1>1, <1>5, <2>2, ReplaceWord
<1> QED  BY <1>1, <1>3, <1>7

\* fill_current_word leaves a text, with nothing changed but letters of the
\* current word.
LEMMA FilledText ==
  ASSUME IsText(words), currentWordIndex \in 0..WordCount
  PROVE  /\ IsText(Filled)
         /\ Filled[currentWordIndex].length = CurrentWord.length
         /\ Filled[currentWordIndex].text = CurrentWord.text
         /\ Filled[currentWordIndex].status = CurrentWord.status
         /\ currentWordIndex \in Index =>
              Filled[currentWordIndex].letters = [j \in 0..(CurrentWord.length - 1) |-> 1]
         /\ \A k \in 0..WordCount : k # currentWordIndex => Filled[k] = words[k]
<1>1. CASE currentWordIndex \in Index
  <2>2. IsWord(CurrentWord)
    BY <1>1 DEF IsText, CurrentWord
  <2> DEFINE full == [j \in 0..(CurrentWord.length - 1) |-> 1]
             w == [CurrentWord EXCEPT !.letters = full]
  <2>1. DOMAIN CurrentWord.letters = 0..(CurrentWord.length - 1)
    BY <2>2 DEF IsWord
  <2>4. CurrentWord = [text |-> CurrentWord.text, length |-> CurrentWord.length,
                       status |-> CurrentWord.status, letters |-> CurrentWord.letters,
                       line |-> CurrentWord.line]
    BY <2>2, Zenon DEF IsWord
  <2>3. w = [text |-> CurrentWord.text, length |-> CurrentWord.length,
             status |-> CurrentWord.status, letters |-> full,
             line |-> CurrentWord.line]
    <3> HIDE DEF full
    <3> QED  BY <2>4
  <2>5. IsWord(w)
    BY <2>2, <2>3 DEF IsWord
  <2>6. Filled = [words EXCEPT ![currentWordIndex] = w]
    BY <2>1, Zenon DEF CurrentWord, Filled
  <2> HIDE DEF w
  <2>7. /\ IsText(Filled) /\ Filled[currentWordIndex] = w
        /\ \A k \in 0..WordCount : k # currentWordIndex => Filled[k] = words[k]
    <3>1. words = [k \in 0..WordCount |-> words[k]]
      BY DEF IsText
    <3>2. /\ Filled = [k \in 0..WordCount |-> Filled[k]] /\ Filled[currentWordIndex] = w
          /\ \A k \in 0..WordCount : k # currentWordIndex => Filled[k] = words[k]
      BY <2>6, <3>1
    <3> QED  BY <1>1, <2>5, <3>2, ReplaceWord
  <2>8. /\ w.text = CurrentWord.text /\ w.length = CurrentWord.length
        /\ w.status = CurrentWord.status /\ w.letters = [j \in 0..(CurrentWord.length - 1) |-> 1]
    BY <2>3
  <2> QED  BY <2>7, <2>8, Zenon
<1>2. CASE currentWordIndex = WordCount
  <2>1. words[WordCount].letters = [j \in 0..-1 |-> 0]
    BY DEF IsText, Terminator
  <2>2. [j \in DOMAIN words[WordCount].letters |-> 1] = words[WordCount].letters
    BY <2>1
  <2>3. PICK s \in {-1, 0, 1} : words[WordCount] = [Terminator EXCEPT !.status = s]
    BY DEF IsText
  <2>4. [words[WordCount] EXCEPT !.letters = [j \in DOMAIN @ |-> 1]] = words[WordCount]
    BY <2>2, <2>3 DEF Terminator
  <2>5. Filled = [words EXCEPT ![WordCount] = [words[WordCount] EXCEPT !.letters = [j \in DOMAIN @ |-> 1]]]
    BY <1>2 DEF Filled
  <2>6. Filled = words
    BY <2>4, <2>5 DEF IsText
  <2> QED  BY <1>2, <2>6, ConstantsAssumption DEF CurrentWord, Index
<1> QED  BY <1>1, <1>2, ConstantsAssumption DEF Index

\* The verdict of handle_space_key leaves a text, with nothing changed but the
\* status of the current word.
LEMMA JudgedText ==
  ASSUME IsText(words), currentWordIndex \in 0..WordCount
  PROVE  /\ IsText(Judged)
         /\ Judged[currentWordIndex].length = CurrentWord.length
         /\ Judged[currentWordIndex].text = CurrentWord.text
         /\ Judged[currentWordIndex].status = IF IsCorrect(CurrentWord) THEN 1 ELSE -1
         /\ Judged[currentWordIndex].letters = CurrentWord.letters
         /\ \A k \in 0..WordCount : k # currentWordIndex => Judged[k] = words[k]
<1> DEFINE v == IF IsCorrect(CurrentWord) THEN 1 ELSE -1
           w == [CurrentWord EXCEPT !.status = v]
<1>1. v \in {-1, 0, 1} /\ Judged = [words EXCEPT ![currentWordIndex] = w]
  BY DEF Judged, CurrentWord
<1>2. CASE currentWordIndex \in Index
  <2>2. IsWord(CurrentWord)
    BY <1>2 DEF IsText, CurrentWord
  <2>3. w = [text |-> CurrentWord.text, length |-> CurrentWord.length,
             status |-> v, letters |-> CurrentWord.letters, line |-> CurrentWord.line]
    BY <2>2 DEF IsWord
  <2>5. IsWord(w)
    BY <1>1, <2>2, <2>3 DEF IsWord
  <2>6. w.status = v /\ w.length = CurrentWord.length /\ w.letters = CurrentWord.letters
        /\ w.text = CurrentWord.text
    BY <2>3
  <2> HIDE DEF w
  <2>7. /\ IsText(Judged) /\ Judged[currentWordIndex] = w
        /\ \A k \in 0..WordCount : k # currentWordIndex => Judged[k] = words[k]
    <3>1. words = [k \in 0..WordCount |-> words[k]]
      BY DEF IsText
    <3>2. /\ Judged = [k \in 0..WordCount |-> Judged[k]] /\ Judged[currentWordIndex] = w
          /\ \A k \in 0..WordCount : k # currentWordIndex => Judged[k] = words[k]
      BY <1>1, <3>1
    <3> QED  BY <1>2, <2>5, <3>2, ReplaceWord
  <2> QED  BY <2>6, <2>7
<1>3. CASE currentWordIndex = WordCount
  <2>1. PICK s \in {-1, 0, 1} : words[WordCount] = [Terminator EXCEPT !.status = s]
    BY DEF IsText
  <2>2. w = [Terminator EXCEPT !.status = v] /\ w.status = v /\ w.length = CurrentWord.length
        /\ w.letters = CurrentWord.letters /\ w.text = CurrentWord.text
    BY <1>3, <2>1 DEF Terminator, CurrentWord
  <2>3. words = [k \in 0..WordCount |-> words[k]]
    BY DEF IsText
  <2> HIDE DEF w, v
  <2>4. /\ Judged = [k \in 0..WordCount |-> Judged[k]] /\ Judged[WordCount] = w
        /\ \A k \in 0..WordCount : k # WordCount => Judged[k] = words[k]
    BY <1>1, <1>3, <2>3
  <2>5. \A k \in Index : Judged[k] = words[k]
    BY <2>4, ConstantsAssumption DEF Index
  <2>6. IsText(Judged)
    BY <1>1, <2>2, <2>4, <2>5 DEF IsText
  <2> QED  BY <1>3, <2>2, <2>4, <2>6 DEF v
<1> QED  BY <1>2, <1>3, ConstantsAssumption DEF Index

\* A word copied from the pool is a word.
LEMMA NewWordIsWord ==
  ASSUME NEW t \in Pool, NEW n \in Int
  PROVE  /\ IsWord(NewWord(t, n))
         /\ NewWord(t, n).status = 0 /\ NewWord(t, n).line = n
         /\ NewWord(t, n).letters = [j \in 0..(NewWord(t, n).length - 1) |-> 0]
<1>1. Length[t] \in Nat
  BY LengthAssumption, ConstantsAssumption
<1>2. [j \in 0..(Length[t] - 1) |-> 0] \in [0..(Length[t] - 1) -> {-1, 0, 1}]
  OBVIOUS
<1> DEFINE l == [j \in 0..(Length[t] - 1) |-> 0]
<1>3. NewWord(t, n) = [text |-> t, length |-> Length[t], status |-> 0, letters |-> l, line |-> n]
  BY Zenon DEF NewWord
<1>4. l \in [0..(Length[t] - 1) -> {-1, 0, 1}]
  BY <1>2
<1> HIDE DEF l
<1>5. /\ IsWord(NewWord(t, n)) /\ NewWord(t, n).status = 0 /\ NewWord(t, n).line = n
      /\ NewWord(t, n).letters = l /\ NewWord(t, n).length = Length[t]
  BY <1>3, <1>4 DEF IsWord
<1> QED  BY <1>5, Zenon DEF l

\* What shift_words_up leaves: the end of the text, then words nobody typed.
LEMMA ShiftedText ==
  ASSUME IsText(words), LaidOut, LinesInv, NEW ws, IsText(ws),
         NEW refill \in [Cardinality(Kept)..(WordCount - 1) -> RefillPool],
         NEW s \in Index, Kept = s..(WordCount - 2)
  PROVE  /\ IsText(ShiftWordsUp(ws, refill))
         /\ \A k \in 0..(WordCount - 2 - s) : ShiftWordsUp(ws, refill)[k] = ws[s + k]
         /\ \A k \in (WordCount - 1 - s)..(WordCount - 1) :
              /\ ShiftWordsUp(ws, refill)[k].status = 0
              /\ ShiftWordsUp(ws, refill)[k].letters =
                   [j \in 0..(ShiftWordsUp(ws, refill)[k].length - 1) |-> 0]
<1>1. /\ WordCount \in Nat /\ WordCount >= 2 /\ s \in Nat /\ s <= WordCount - 1
      /\ Index \subseteq 0..WordCount /\ WordCount \notin Index
  BY ConstantsAssumption DEF Index
<1>2. Cardinality(Kept) = WordCount - 1 - s /\ \A k \in 0..(WordCount - 2 - s) : KeptAt(k) = s + k
  <2>1. PICK t \in Index : /\ Kept = t..(WordCount - 2)
                           /\ Cardinality(Kept) = WordCount - 1 - t
                           /\ \A k \in 0..(WordCount - 2 - t) : KeptAt(k) = t + k
    BY KeptInterval
  <2>2. t = s
    <3>1. t \in Nat /\ t <= WordCount - 1
      BY ConstantsAssumption DEF Index
    <3>2. \A i \in Nat : i \in s..(WordCount - 2) <=> i \in t..(WordCount - 2)
      BY <2>1
    <3> QED  BY <1>1, <3>1, <3>2
  <2> QED  BY <2>1, <2>2
<1> DEFINE vs == ShiftWordsUp(ws, refill)
<1>3. /\ vs = [k \in 0..WordCount |-> vs[k]]
      /\ \A k \in 0..WordCount :
           vs[k] = IF k = WordCount THEN ws[k]
                   ELSE IF k < Cardinality(Kept) THEN ws[KeptAt(k)]
                   ELSE NewWord(refill[k], 0)
  BY Zenon DEF ShiftWordsUp
<1> HIDE DEF vs
<1>4. \A k \in 0..(WordCount - 2 - s) : vs[k] = ws[s + k] /\ s + k \in Index
  <2>1. ASSUME NEW k \in 0..(WordCount - 2 - s)
        PROVE  k \in 0..WordCount /\ k # WordCount /\ k < WordCount - 1 - s /\ s + k \in Index
    BY <1>1, <2>1 DEF Index
  <2> QED  BY <1>2, <1>3, <2>1
<1>5. \A k \in (WordCount - 1 - s)..(WordCount - 1) : vs[k] = NewWord(refill[k], 0) /\ refill[k] \in Pool
  BY <1>1, <1>2, <1>3, ConstantsAssumption
<1>6. \A k \in (WordCount - 1 - s)..(WordCount - 1) :
        IsWord(vs[k]) /\ vs[k].status = 0 /\ vs[k].letters = [j \in 0..(vs[k].length - 1) |-> 0]
  BY <1>5, NewWordIsWord
<1>7. \A k \in Index : IsWord(vs[k])
  <2>1. \A k \in Index : k \in 0..(WordCount - 2 - s) \/ k \in (WordCount - 1 - s)..(WordCount - 1)
    BY <1>1 DEF Index
  <2>2. \A k \in Index : IsWord(ws[k])
    BY DEF IsText
  <2> QED  BY <1>4, <1>6, <2>1, <2>2
<1>8. vs[WordCount] = ws[WordCount]
  BY <1>1, <1>3
<1>9. IsText(vs)
  BY <1>3, <1>7, <1>8 DEF IsText
<1> QED  BY <1>4, <1>6, <1>9 DEF vs

----------------------------------------------------------------------------
(* Type correctness                                                        *)

TypeInv == TypeOK /\ LinesInv

\* A step that draws a text re-establishes the lines.
LEMMA DrawnLines ==
  ASSUME NEW ws, IsText(ws), DrawWords(ws)
  PROVE  IsText(words') /\ LinesInv' /\ LaidOut' /\ number_of_lines' \in -1..(WordCount - 1)
<1>1. /\ IsText(words')
      /\ number_of_lines' \in 0..(WordCount - 1)
      /\ number_of_lines' = Layout(words')[WordCount - 1].line
      /\ \A i \in Index : words'[i].line = Layout(words')[i].line
  BY DrawWordsFacts
<1>2. number_of_lines' # -1 /\ number_of_lines' \in -1..(WordCount - 1)
  BY <1>1, ConstantsAssumption
<1> QED  BY <1>1, <1>2 DEF LinesInv, LaidOut

\* Before the first draw the cursor is never at the scroll point.
LEMMA ScrollsOnlyDrawn ==
  ASSUME LinesInv, AtScrollPoint
  PROVE  LaidOut
<1>1. SUFFICES ASSUME ~LaidOut  PROVE FALSE
  OBVIOUS
<1>2. currentWordIndex = 0 /\ 1 \in Index /\ 0 \in Index /\ words[1].line = words[0].line
  BY <1>1, ConstantsAssumption DEF LinesInv, Index
<1>3. 1 \in PenultimateLine
  BY <1>2 DEF AtScrollPoint, PenultimateLine, CurrentWord
<1> QED  BY <1>2, <1>3 DEF AtScrollPoint

StatsType == [Counters -> Nat]

\* Counting adds one to two counters and leaves the others.
LEMMA CountFacts ==
  ASSUME stats \in StatsType, NEW c \in Counters, NEW d \in Counters, c # d
  PROVE  /\ Count(c, d) \in StatsType
         /\ Count(c, d)[c] = stats[c] + 1 /\ Count(c, d)[d] = stats[d] + 1
         /\ \A e \in Counters : e \notin {c, d} => Count(c, d)[e] = stats[e]
BY DEF Count, StatsType

\* The counters stay natural numbers.
LEMMA StatsTypes ==
  ASSUME stats \in StatsType
  PROVE  /\ \A correct \in BOOLEAN : CountLetter(correct) \in StatsType
         /\ CountWord \in StatsType
         /\ CountWord.typedWords = stats.typedWords + 1
         /\ \A correct \in BOOLEAN : CountLetter(correct).typedWords = stats.typedWords
<1>1. ASSUME NEW correct \in BOOLEAN
      PROVE  CountLetter(correct) \in StatsType /\ CountLetter(correct).typedWords = stats.typedWords
  <2>1. CASE correct
    BY <2>1, CountFacts DEF CountLetter, Counters
  <2>2. CASE ~correct
    BY <2>2, CountFacts DEF CountLetter, Counters
  <2> QED  BY <2>1, <2>2
<1>2. CountWord \in StatsType /\ CountWord.typedWords = stats.typedWords + 1
  <2>1. CASE IsCorrect(CurrentWord)
    BY <2>1, CountFacts DEF CountWord, Counters
  <2>2. CASE ~IsCorrect(CurrentWord)
    BY <2>2, CountFacts DEF CountWord, Counters
  <2> QED  BY <2>1, <2>2
<1> QED  BY <1>1, <1>2

\* The text initializeTest builds.
LEMMA InitText ==
  ASSUME Init
  PROVE  /\ IsText(words) /\ LinesInv /\ ~LaidOut
         /\ \A i \in Index : /\ words[i].status = 0
                             /\ words[i].letters = [j \in 0..(words[i].length - 1) |-> 0]
<1>1. PICK texts \in [Index -> Pool], stale \in StaleLines :
        words = [i \in 0..WordCount |->
                   IF i \in Index THEN NewWord(texts[i], stale) ELSE Terminator]
  BY DEF Init
<1>2. /\ Index \subseteq 0..WordCount /\ WordCount \in 0..WordCount /\ WordCount \notin Index
      /\ 0 \in Index /\ stale \in Int
  BY ConstantsAssumption DEF Index
<1>3. ASSUME NEW i \in Index
      PROVE  words[i] = NewWord(texts[i], stale) /\ texts[i] \in Pool
  BY <1>1, <1>2
<1>4. ASSUME NEW i \in Index
      PROVE  /\ IsWord(words[i]) /\ words[i].line = stale /\ words[i].status = 0
             /\ words[i].letters = [j \in 0..(words[i].length - 1) |-> 0]
  <2>1. words[i] = NewWord(texts[i], stale) /\ texts[i] \in Pool
    BY <1>3
  <2>2. /\ IsWord(NewWord(texts[i], stale)) /\ NewWord(texts[i], stale).status = 0
        /\ NewWord(texts[i], stale).line = stale
        /\ NewWord(texts[i], stale).letters =
             [j \in 0..(NewWord(texts[i], stale).length - 1) |-> 0]
    BY <1>2, <2>1, NewWordIsWord
  <2> QED  BY <2>1, <2>2, Zenon
<1>5. words[WordCount] = Terminator
  BY <1>1, <1>2
<1>6. Terminator = [Terminator EXCEPT !.status = 0]
  BY DEF Terminator
<1>7. words = [i \in 0..WordCount |-> words[i]]
  BY <1>1, Zenon
<1>8. \E s \in {-1, 0, 1} : words[WordCount] = [Terminator EXCEPT !.status = s]
  BY <1>5, <1>6
<1>9. IsText(words)
  BY <1>4, <1>7, <1>8 DEF IsText
<1>10. number_of_lines = -1 /\ currentWordIndex = 0
  BY DEF Init
<1>11. LinesInv /\ ~LaidOut
  BY <1>2, <1>4, <1>10 DEF LinesInv, LaidOut
<1> QED  BY <1>4, <1>9, <1>11

\* The first state of a game has the right types.
LEMMA TypeInit == Init => TypeInv
<1> SUFFICES ASSUME Init  PROVE TypeInv
  OBVIOUS
<1>1. IsText(words) /\ LinesInv
  BY InitText
<1>2. stats \in StatsType
  BY DEF Init, StatsType
<1>3. 0 \in Index /\ words[0].length \in 1..(LineChars + 1)
  BY <1>1, TextLengths, ConstantsAssumption DEF Index, Lengths
<1>4. InArray => currentInputIndex <= CurrentWord.length
  BY <1>3, ConstantsAssumption DEF Init, CurrentWord
<1> QED  BY <1>1, <1>2, <1>4, ConstantsAssumption DEF TypeInv, TypeOK, Init, StatsType


\* The terminator is the one element after the words and has no letters.
LEMMA TextEnds ==
  ASSUME NEW ws, IsText(ws)
  PROVE  /\ ws[WordCount].length = 0
         /\ \A i \in 0..WordCount : ws[i].length \in Nat
         /\ 0..WordCount = Index \cup {WordCount} /\ WordCount \notin Index
<1>1. ws[WordCount].length = 0
  BY DEF IsText, Terminator
<1>2. Lengths(ws)
  BY TextLengths
<1>3. 0..WordCount = Index \cup {WordCount} /\ WordCount \notin Index
  BY ConstantsAssumption DEF Index
<1> QED  BY <1>1, <1>2, <1>3, ConstantsAssumption DEF Lengths

\* What a step that draws has to show.
LEMMA DrawStep ==
  ASSUME NEW ws, IsText(ws), DrawWords(ws),
         currentWordIndex' \in 0..(WordCount + 1), currentInputIndex' \in Nat,
         currentWordIndex' \in 0..WordCount => currentInputIndex' <= ws[currentWordIndex'].length,
         currentInput' \in Pool \cup {NoText}, stars' \in 0..MaxStars, stats' \in StatsType
  PROVE  TypeInv'
<1>1. IsText(words') /\ LinesInv' /\ number_of_lines' \in -1..(WordCount - 1)
  BY DrawnLines
<1>2. \A i \in 0..WordCount : words'[i].length = ws[i].length
  BY DrawWordsFacts, TextEnds
<1>3. InArray' => currentInputIndex' <= (CurrentWord.length)'
  <2>1. InArray' => currentWordIndex' \in 0..WordCount
    BY ConstantsAssumption DEF InArray
  <2> QED  BY <1>2, <2>1 DEF CurrentWord
<1> QED  BY <1>1, <1>3 DEF TypeInv, TypeOK, StatsType

\* Every handler keeps the types and the layout of a drawn text.
LEMMA TypeStep == TypeInv /\ [Next]_vars => TypeInv'
<1> SUFFICES ASSUME TypeInv, [Next]_vars  PROVE TypeInv'
  OBVIOUS
<1>0. /\ IsText(words) /\ LinesInv /\ WordCount \in Nat /\ stats \in StatsType
      /\ currentWordIndex \in 0..(WordCount + 1) /\ currentInputIndex \in Nat
      /\ currentInput \in Pool \cup {NoText} /\ stars \in 0..MaxStars /\ MaxStars \in Nat
  BY ConstantsAssumption DEF TypeInv, TypeOK, StatsType
<1>a. InArray <=> currentWordIndex \in 0..WordCount
  BY <1>0 DEF InArray
<1>b. currentWordIndex \in 0..WordCount => /\ currentInputIndex <= CurrentWord.length
                                           /\ CurrentWord.length \in Nat
  BY <1>0, <1>a, TextEnds DEF TypeInv, TypeOK, CurrentWord
<1>1. CASE FirstDraw
  BY <1>0, <1>b, <1>1, DrawStep DEF FirstDraw, CurrentWord
<1>2. ASSUME NEW correct \in BOOLEAN, ProcessKey(correct)
      PROVE  TypeInv'
  <2> DEFINE v == IF correct THEN 1 ELSE -1
             ws == WithLetter(currentInputIndex, v)
  <2>1. /\ currentWordIndex \in 0..WordCount /\ currentInputIndex < CurrentWord.length
        /\ stats' = CountLetter(correct) /\ DrawWords(ws)
        /\ currentInputIndex' = currentInputIndex + 1
        /\ UNCHANGED <<currentWordIndex, currentInput, stars>>
    BY <1>2, <1>a DEF ProcessKey
  <2>2. currentInputIndex \in 0..(CurrentWord.length - 1) /\ v \in {-1, 0, 1}
    BY <1>0, <1>b, <2>1
  <2> HIDE DEF v
  <2>3. IsText(ws) /\ ws[currentWordIndex].length = CurrentWord.length
    BY <1>0, <2>1, <2>2, LetterText
  <2> HIDE DEF ws
  <2>4. stats' \in StatsType
    BY <1>0, <2>1, StatsTypes
  <2>5. currentInputIndex' <= ws[currentWordIndex'].length /\ currentInputIndex' \in Nat
    BY <1>0, <1>b, <2>1, <2>3
  <2> QED  BY <1>0, <2>1, <2>3, <2>4, <2>5, DrawStep
<1>3. CASE HandleDeleteKey
  <2>1. currentWordIndex \in 0..WordCount /\ UNCHANGED <<currentWordIndex, currentInput, stars, stats>>
    BY <1>3, <1>a DEF HandleDeleteKey
  <2>2. CASE currentInputIndex > 0
    <3> DEFINE j == currentInputIndex - 1
               ws == WithLetter(j, 0)
    <3>1. currentInputIndex' = j /\ DrawWords(ws)
      BY <1>3, <2>2 DEF HandleDeleteKey
    <3>2. j \in 0..(CurrentWord.length - 1) /\ j \in Nat /\ j <= CurrentWord.length
      BY <1>0, <1>b, <2>1, <2>2
    <3> HIDE DEF j
    <3>3. IsText(ws) /\ ws[currentWordIndex].length = CurrentWord.length
      BY <1>0, <2>1, <3>2, LetterText
    <3> HIDE DEF ws
    <3> QED  BY <1>0, <2>1, <3>1, <3>2, <3>3, DrawStep
  <2>3. CASE ~(currentInputIndex > 0)
    <3>1. DrawWords(words) /\ UNCHANGED currentInputIndex
      BY <1>3, <2>3 DEF HandleDeleteKey
    <3> QED  BY <1>0, <1>b, <2>1, <3>1, DrawStep DEF CurrentWord
  <2> QED  BY <2>2, <2>3
<1>4. CASE FillCurrentWord
  <2>1. /\ currentWordIndex \in 0..WordCount /\ stars > 0 /\ stars' = stars - 1
        /\ DrawWords(Filled) /\ currentInputIndex' = CurrentWord.length
        /\ currentInput' = CurrentWord.text /\ UNCHANGED <<currentWordIndex, stats>>
    BY <1>4, <1>a DEF FillCurrentWord
  <2>2. IsText(Filled) /\ Filled[currentWordIndex].length = CurrentWord.length
    BY <1>0, <2>1, FilledText
  <2>3. CurrentWord.text \in Pool \cup {NoText}
    <3>1. \A i \in Index : words[i].text \in Pool
      BY <1>0 DEF IsText, IsWord
    <3>2. words[WordCount].text = NoText
      BY <1>0 DEF IsText, Terminator
    <3> QED  BY <1>0, <2>1, <3>1, <3>2, TextEnds DEF CurrentWord
  <2>4. stars' \in 0..MaxStars
    BY <1>0, <2>1
  <2> QED  BY <1>0, <1>b, <2>1, <2>2, <2>3, <2>4, DrawStep
<1>5. CASE SpaceNextWord
  <2>1. /\ currentWordIndex \in 0..WordCount /\ stats' = CountWord /\ DrawWords(Judged)
        /\ currentWordIndex' = currentWordIndex + 1 /\ currentInputIndex' = 0
        /\ currentInput' = NoText /\ UNCHANGED stars
    BY <1>5, <1>a DEF SpaceNextWord
  <2>2. IsText(Judged)
    BY <1>0, <2>1, JudgedText
  <2>3. stats' \in StatsType
    BY <1>0, <2>1, StatsTypes
  <2>4. currentWordIndex' \in 0..(WordCount + 1)
    BY <1>0, <2>1
  <2>5. currentWordIndex' \in 0..WordCount => currentInputIndex' <= Judged[currentWordIndex'].length
    BY <2>1, <2>2, TextEnds
  <2> QED  BY <1>0, <2>1, <2>2, <2>3, <2>4, <2>5, DrawStep
<1>6. CASE SpaceScroll
  <2>1. /\ currentWordIndex \in 0..WordCount /\ stats' = CountWord /\ AtScrollPoint
        /\ currentWordIndex' = Cardinality(PenultimateLine) /\ currentInputIndex' = 0
        /\ currentInput' = NoText /\ UNCHANGED stars
    BY <1>6, <1>a DEF SpaceScroll
  <2>2. PICK refill \in [Cardinality(Kept)..(WordCount - 1) -> RefillPool] :
          DrawWords(ShiftWordsUp(Judged, refill))
    BY <1>6 DEF SpaceScroll
  <2>3. IsText(Judged) /\ LaidOut
    BY <1>0, <2>1, JudgedText, ScrollsOnlyDrawn
  <2>4. PICK s \in Index : Kept = s..(WordCount - 2)
    BY <1>0, <2>3, KeptInterval
  <2> DEFINE ws == ShiftWordsUp(Judged, refill)
  <2>5. IsText(ws)
    BY <1>0, <2>3, <2>4, ShiftedText
  <2> HIDE DEF ws
  <2>6. DrawWords(ws)
    BY <2>2 DEF ws
  <2>7. stats' \in StatsType
    BY <1>0, <2>1, StatsTypes
  <2>8. currentWordIndex' \in 0..(WordCount + 1)
    <3>1. IsFiniteSet(Index) /\ Cardinality(Index) = WordCount
      BY FS_Interval, ConstantsAssumption DEF Index
    <3>2. PenultimateLine \in SUBSET Index
      BY DEF PenultimateLine
    <3>3. IsFiniteSet(PenultimateLine) /\ Cardinality(PenultimateLine) <= WordCount
      BY <3>1, <3>2, FS_Subset
    <3>4. Cardinality(PenultimateLine) \in Nat
      BY <3>3, FS_CardinalityType
    <3> QED  BY <1>0, <2>1, <3>3, <3>4
  <2>9. currentWordIndex' \in 0..WordCount => currentInputIndex' <= ws[currentWordIndex'].length
    BY <2>1, <2>5, TextEnds
  <2> QED  BY <1>0, <2>1, <2>5, <2>6, <2>7, <2>8, <2>9, DrawStep
<1>7. CASE UNCHANGED vars
  BY <1>7 DEF vars, TypeInv, TypeOK, LinesInv, LaidOut, InArray, CurrentWord
<1> QED  BY <1>1, <1>2, <1>3, <1>4, <1>5, <1>6, <1>7 DEF Next

\* The text keeps its shape in every game: TypeOK, of which the interesting part
\* is that no handler moves the input index outside the current word, even
\* before the text is drawn or on the terminator.
THEOREM TypeCorrect == Spec => []TypeOK
<1>1. Spec => []TypeInv
  BY TypeInit, TypeStep, PTL DEF Spec
<1>2. TypeInv => TypeOK
  BY DEF TypeInv
<1> QED  BY <1>1, <1>2, PTL

----------------------------------------------------------------------------
(* The cursor stays in the text                                            *)

\* The strengthening: a drawn text has two lines or more, and in one of three or
\* more the cursor is above the last line, so there is always a next word, and
\* the text scrolls before the cursor gets there.
CursorInv ==
  LaidOut => /\ number_of_lines >= 1
             /\ number_of_lines >= 2 => /\ currentWordIndex \in Index
                                        /\ words[currentWordIndex].line < number_of_lines

SafeInv == TypeInv /\ CursorInv

\* No text fits on one line: take its shortest word for m.
LEMMA LongLayout ==
  ASSUME NEW ws, IsText(ws)
  PROVE  Layout(ws)[WordCount - 1].line >= 1
<1> DEFINE T == {ws[i].length : i \in Index}
<1>1. Lengths(ws)
  BY TextLengths
<1>2. T \subseteq Nat /\ T # {}
  <2>1. 0 \in Index /\ \A i \in Index : ws[i].length \in Nat
    BY <1>1, ConstantsAssumption DEF Lengths, Index
  <2> QED  BY <2>1
<1>3. PICK m \in T : \A n \in T : m <= n
  <2> HIDE DEF T
  <2> QED  BY <1>2, LeastNatural
<1>4. PICK k \in Index : m = ws[k].length
  BY <1>3
<1>5. ws[k].text \in Pool /\ m = Length[ws[k].text] /\ m \in Nat
  BY <1>2, <1>4 DEF IsText, IsWord
<1>6. WordCount * (m + 1) > LineChars + 2
  BY <1>5, TextAssumption
<1>7. \A i \in Index : ws[i].length >= m
  <2>1. \A i \in Index : ws[i].length \in T /\ ws[i].length \in Nat
    BY <1>2
  <2> QED  BY <1>3, <1>5, <2>1
<1> QED  BY <1>1, <1>5, <1>6, <1>7, TwoLines

\* The lines of a drawn text, as numbers.
LEMMA DrawnFacts ==
  ASSUME TypeInv, LaidOut
  PROVE  /\ Lengths(words)
         /\ \A i \in Index : /\ words[i].line = Layout(words)[i].line
                             /\ words[i].line \in Int /\ words[i].line <= number_of_lines
         /\ number_of_lines \in Int /\ words[WordCount - 1].line = number_of_lines
         /\ WordCount - 1 \in Index
         /\ \A i, j \in Index : i <= j => words[i].line <= words[j].line
<1>1. IsText(words) /\ Lengths(words) /\ WordCount - 1 \in Index /\ number_of_lines \in Int
  BY TextLengths, ConstantsAssumption DEF TypeInv, TypeOK, Index
<1>2. /\ \A i \in Index : words[i].line = Layout(words)[i].line
      /\ words[WordCount - 1].line = number_of_lines
  BY <1>1 DEF TypeInv, LinesInv
<1>3. \A i, j \in Index : i <= j => words[i].line <= words[j].line
  BY <1>1, <1>2, LineMonotone
<1>4. \A i \in Index : i <= WordCount - 1
  BY ConstantsAssumption DEF Index
<1>5. \A i \in Index : words[i].line \in Int
  BY <1>1 DEF IsText, IsWord
<1> QED  BY <1>1, <1>2, <1>3, <1>4, <1>5

\* The last line but one when the cursor is at its end.
LEMMA ScrollShape ==
  ASSUME TypeInv, LaidOut, currentWordIndex \in Index, AtScrollPoint
  PROVE  \E s \in Index :
           /\ s <= currentWordIndex /\ currentWordIndex <= WordCount - 2
           /\ Kept = s..(WordCount - 2)
           /\ Cardinality(PenultimateLine) = currentWordIndex - s + 1
           /\ s = 0 \/ Layout(words)[s - 1].line # Layout(words)[s].line
           /\ \A i \in s..currentWordIndex : Layout(words)[i].line = Layout(words)[s].line
<1>1. PICK s \in Index : Kept = s..(WordCount - 2)
  BY KeptInterval DEF TypeInv, TypeOK
<1>2. /\ \A i \in Index : /\ words[i].line = Layout(words)[i].line
                          /\ words[i].line \in Int /\ words[i].line <= number_of_lines
      /\ number_of_lines \in Int /\ words[WordCount - 1].line = number_of_lines
      /\ WordCount - 1 \in Index
      /\ \A i, j \in Index : i <= j => words[i].line <= words[j].line
  BY DrawnFacts
<1>3. /\ WordCount \in Nat /\ s \in Nat /\ currentWordIndex \in Nat
      /\ Index = 0..(WordCount - 1) /\ currentWordIndex <= WordCount - 1 /\ s <= WordCount - 1
  BY ConstantsAssumption DEF Index
<1>4. words[currentWordIndex].line = number_of_lines - 1
  BY DEF AtScrollPoint, CurrentWord
<1>5. currentWordIndex <= WordCount - 2
  BY <1>2, <1>3, <1>4
<1>6. currentWordIndex \in Kept
  BY <1>3, <1>4, <1>5 DEF Kept
<1>7. s <= currentWordIndex /\ s \in Kept
  BY <1>1, <1>3, <1>5, <1>6
<1>8. words[s].line = number_of_lines - 1
  <2>1. words[s].line <= number_of_lines - 1
    BY <1>2, <1>4, <1>7
  <2>2. words[s].line \in {number_of_lines - 1, number_of_lines}
    BY <1>7 DEF Kept
  <2> QED  BY <1>2, <2>1, <2>2
<1>9. \A i \in s..currentWordIndex : i \in Index /\ words[i].line = number_of_lines - 1
  <2>1. ASSUME NEW i \in s..currentWordIndex
        PROVE  i \in Index /\ s <= i /\ i <= currentWordIndex
    BY <1>3
  <2>2. ASSUME NEW i \in s..currentWordIndex
        PROVE  words[s].line <= words[i].line /\ words[i].line <= words[currentWordIndex].line
               /\ words[i].line \in Int
    BY <1>2, <2>1
  <2> QED  BY <1>2, <1>4, <1>8, <2>1, <2>2
<1>10. s = 0 \/ words[s - 1].line # number_of_lines - 1
  <2>1. SUFFICES ASSUME s # 0, words[s - 1].line = number_of_lines - 1  PROVE FALSE
    OBVIOUS
  <2>2. s - 1 \in 0..(WordCount - 2) /\ s - 1 \notin s..(WordCount - 2)
    BY <1>3, <2>1
  <2> QED  BY <1>1, <2>1, <2>2 DEF Kept
<1>11. PenultimateLine = s..currentWordIndex
  <2>1. ASSUME NEW i \in PenultimateLine  PROVE i \in s..currentWordIndex
    <3>1. i \in Index /\ words[i].line = number_of_lines - 1 /\ i <= currentWordIndex
      BY DEF PenultimateLine, AtScrollPoint
    <3>2. i \in Kept
      BY <1>3, <1>5, <3>1 DEF Kept
    <3> QED  BY <1>1, <1>3, <3>1, <3>2
  <2>2. ASSUME NEW i \in s..currentWordIndex  PROVE i \in PenultimateLine
    BY <1>9 DEF PenultimateLine
  <2> QED  BY <2>1, <2>2
<1>12. Cardinality(PenultimateLine) = currentWordIndex - s + 1
  <2>1. Cardinality(s..currentWordIndex) =
          IF s > currentWordIndex THEN 0 ELSE currentWordIndex - s + 1
    BY <1>3, FS_Interval
  <2> QED  BY <1>3, <1>7, <1>11, <2>1
<1>13. s = 0 \/ Layout(words)[s - 1].line # Layout(words)[s].line
  <2>1. s # 0 => s - 1 \in Index
    BY <1>3
  <2> QED  BY <1>2, <1>8, <1>10, <2>1
<1>14. \A i \in s..currentWordIndex : Layout(words)[i].line = Layout(words)[s].line
  BY <1>2, <1>8, <1>9
<1> QED  BY <1>1, <1>5, <1>7, <1>12, <1>13, <1>14

\* A step that draws words of the same lengths and leaves the cursor alone.
LEMMA CursorSameText ==
  ASSUME SafeInv, NEW ws, IsText(ws), DrawWords(ws),
         \A i \in Index : ws[i].length = words[i].length,
         currentWordIndex' = currentWordIndex
  PROVE  CursorInv'
<1>1. /\ IsText(words') /\ number_of_lines' = Layout(words')[WordCount - 1].line
      /\ \A i \in Index : words'[i].line = Layout(words')[i].line
      /\ \A i \in Index : words'[i].length = words[i].length
  BY DrawWordsFacts
<1>2. number_of_lines' >= 1 /\ number_of_lines' \in Int
  BY <1>1, LongLayout, DrawWordsFacts
<1>3. IsText(words) /\ Lengths(words) /\ 0 \in Index /\ WordCount - 1 \in Index
  BY TextLengths, ConstantsAssumption DEF SafeInv, TypeInv, TypeOK, Index
<1>4. \A i \in Index : Layout(words')[i].line = Layout(words)[i].line
  BY <1>1, <1>3, LayoutOfLengths
<1>5. CASE LaidOut
  BY <1>1, <1>2, <1>3, <1>4, <1>5 DEF SafeInv, TypeInv, LinesInv, CursorInv
<1>6. CASE ~LaidOut
  <2>1. currentWordIndex = 0
    BY <1>6 DEF SafeInv, TypeInv, LinesInv
  <2>2. Layout(words)[0].line = 0
    BY <1>3, LayoutFacts
  <2> QED  BY <1>1, <1>2, <1>3, <1>4, <2>1, <2>2 DEF CursorInv
<1> QED  BY <1>5, <1>6

\* Leaving a word that is not at the scroll point keeps the cursor above the
\* last line of a text of three lines or more.
LEMMA CursorNextWord ==
  ASSUME SafeInv, SpaceNextWord
  PROVE  CursorInv'
<1>1. /\ IsText(words) /\ Lengths(words) /\ WordCount \in Nat /\ WordCount >= 2
      /\ Index = 0..(WordCount - 1)
  BY TextLengths, ConstantsAssumption DEF SafeInv, TypeInv, TypeOK, Index
<1>2. currentWordIndex \in 0..WordCount
  BY <1>1 DEF SpaceNextWord, InArray, SafeInv, TypeInv, TypeOK
<1>3. IsText(Judged) /\ \A i \in 0..WordCount : Judged[i].length = words[i].length
  BY <1>1, <1>2, JudgedText DEF CurrentWord
<1>4. DrawWords(Judged) /\ currentWordIndex' = currentWordIndex + 1
  BY DEF SpaceNextWord
<1>5. /\ IsText(words') /\ number_of_lines' = Layout(words')[WordCount - 1].line
      /\ number_of_lines' \in Int
      /\ \A i \in Index : words'[i].line = Layout(words')[i].line
      /\ \A i \in Index : words'[i].length = words[i].length
  BY <1>1, <1>3, <1>4, DrawWordsFacts
<1>6. \A i \in Index : Layout(words')[i].line = Layout(words)[i].line
  BY <1>1, <1>5, LayoutOfLengths
<1>7. number_of_lines' >= 1
  BY <1>5, LongLayout
<1>8. CASE ~LaidOut
  <2>1. currentWordIndex = 0 /\ 0 \in Index /\ 1 \in Index
    BY <1>1, <1>8 DEF SafeInv, TypeInv, LinesInv
  <2>2. Layout(words)[1].line \in 0..1
    BY <1>1, <2>1, LayoutFacts
  <2> QED  BY <1>4, <1>5, <1>6, <1>7, <2>1, <2>2 DEF CursorInv
<1>9. CASE LaidOut
  <2> DEFINE c == currentWordIndex
  <2>1. /\ \A i \in Index : /\ words[i].line = Layout(words)[i].line
                            /\ words[i].line \in Int /\ words[i].line <= number_of_lines
        /\ number_of_lines \in Int /\ words[WordCount - 1].line = number_of_lines
        /\ WordCount - 1 \in Index
        /\ \A i, j \in Index : i <= j => words[i].line <= words[j].line
    BY <1>9, DrawnFacts DEF SafeInv
  <2>6. number_of_lines' = number_of_lines
    BY <1>5, <1>6, <1>9, <2>1 DEF SafeInv, TypeInv, LinesInv
  <2>a. SUFFICES ASSUME number_of_lines >= 2
                 PROVE  c + 1 \in Index /\ words'[c + 1].line < number_of_lines
    BY <1>4, <1>7, <2>6 DEF CursorInv
  <2>2. c \in Index /\ words[c].line < number_of_lines
    BY <1>9, <2>a DEF SafeInv, CursorInv
  <2>3. c + 1 \in Index /\ c + 1 # 0 /\ (c + 1) - 1 = c
    BY <1>1, <2>1, <2>2
  <2>4. words[c + 1].line \in {words[c].line, words[c].line + 1}
    <3>1. Layout(words)[c + 1].line \in {Layout(words)[c].line, Layout(words)[c].line + 1}
      BY <1>1, <2>3, LayoutFacts
    <3> QED  BY <2>1, <2>2, <2>3, <3>1
  <2>5. words[c + 1].line < number_of_lines
    <3>1. CASE words[c].line = number_of_lines - 1
      <4>1. PICK i \in PenultimateLine : ~(i <= c)
        BY <3>1 DEF SpaceNextWord, AtScrollPoint, CurrentWord
      <4>2. i \in Index /\ words[i].line = number_of_lines - 1 /\ c + 1 <= i
        BY <1>1, <2>2, <4>1 DEF PenultimateLine
      <4>3. words[c + 1].line <= words[i].line
        BY <2>1, <2>3, <4>2
      <4> QED  BY <2>1, <2>3, <4>2, <4>3
    <3>2. CASE words[c].line # number_of_lines - 1
      BY <2>1, <2>2, <2>3, <2>4, <3>2
    <3> QED  BY <3>1, <3>2
  <2>7. words'[c + 1].line = words[c + 1].line
    BY <1>5, <1>6, <2>1, <2>3
  <2> QED  BY <2>3, <2>5, <2>7
<1> QED  BY <1>8, <1>9

\* What a scrolling step does to the text: it moves it up by s words.
LEMMA ScrollStep ==
  ASSUME SafeInv, SpaceScroll
  PROVE  \E s \in Index :
           /\ s <= currentWordIndex /\ currentWordIndex \in 0..(WordCount - 2)
           /\ currentWordIndex' = currentWordIndex - s + 1
           /\ currentWordIndex' \in Index
           /\ IsText(Judged) /\ IsText(words')
           /\ \A k \in 0..(WordCount - 2 - s) :
                /\ words'[k].text = Judged[s + k].text
                /\ words'[k].length = Judged[s + k].length
                /\ words'[k].status = Judged[s + k].status
                /\ words'[k].letters = Judged[s + k].letters
           /\ \A k \in (WordCount - 1 - s)..(WordCount - 1) :
                /\ words'[k].status = 0
                /\ words'[k].letters = [j \in 0..(words'[k].length - 1) |-> 0]
           /\ number_of_lines' >= 1
           /\ words'[currentWordIndex'].line <= 1
<1>1. /\ IsText(words) /\ Lengths(words) /\ LinesInv /\ TypeInv /\ WordCount \in Nat /\ WordCount >= 2
      /\ Index = 0..(WordCount - 1)
  BY TextLengths, ConstantsAssumption DEF SafeInv, TypeInv, TypeOK, Index
<1>2. AtScrollPoint /\ currentWordIndex' = Cardinality(PenultimateLine)
  BY DEF SpaceScroll
<1>3. LaidOut /\ currentWordIndex \in Index
  <2>1. LaidOut /\ number_of_lines >= 1 /\ number_of_lines \in Int
    BY <1>1, <1>2, ScrollsOnlyDrawn DEF SafeInv, CursorInv, TypeInv, TypeOK
  <2>2. currentWordIndex \in 0..WordCount
    BY <1>1 DEF SpaceScroll, InArray, TypeInv, TypeOK
  \* The line of the terminator is -1, that of no line.
  <2>3. words[WordCount].line = -1
    BY <1>1 DEF IsText, Terminator
  <2>4. currentWordIndex # WordCount
    BY <1>2, <2>1, <2>3 DEF AtScrollPoint, CurrentWord
  <2> QED  BY <1>1, <2>1, <2>2, <2>4
<1>4. PICK s \in Index :
           /\ s <= currentWordIndex /\ currentWordIndex <= WordCount - 2
           /\ Kept = s..(WordCount - 2)
           /\ Cardinality(PenultimateLine) = currentWordIndex - s + 1
           /\ s = 0 \/ Layout(words)[s - 1].line # Layout(words)[s].line
           /\ \A i \in s..currentWordIndex : Layout(words)[i].line = Layout(words)[s].line
  BY <1>1, <1>2, <1>3, ScrollShape
<1>5. /\ s \in Nat /\ currentWordIndex \in 0..(WordCount - 2) /\ currentWordIndex \in 0..WordCount
      /\ currentWordIndex' = currentWordIndex - s + 1 /\ currentWordIndex' \in Index
  BY <1>1, <1>2, <1>3, <1>4
<1>6. /\ IsText(Judged) /\ \A i \in 0..WordCount : Judged[i].length = words[i].length
  BY <1>1, <1>5, JudgedText DEF CurrentWord
<1>7. PICK refill \in [Cardinality(Kept)..(WordCount - 1) -> RefillPool] :
        DrawWords(ShiftWordsUp(Judged, refill))
  BY DEF SpaceScroll
<1> DEFINE vs == ShiftWordsUp(Judged, refill)
<1>8. /\ IsText(vs)
      /\ \A k \in 0..(WordCount - 2 - s) : vs[k] = Judged[s + k]
      /\ \A k \in (WordCount - 1 - s)..(WordCount - 1) :
           vs[k].status = 0 /\ vs[k].letters = [j \in 0..(vs[k].length - 1) |-> 0]
  BY <1>1, <1>3, <1>4, <1>6, ShiftedText
<1>9. DrawWords(vs)
  BY <1>7
<1> HIDE DEF vs
<1>10. /\ IsText(words') /\ number_of_lines' = Layout(words')[WordCount - 1].line
       /\ \A i \in Index : words'[i].line = Layout(words')[i].line
       /\ \A i \in Index : /\ words'[i].text = vs[i].text
                           /\ words'[i].length = vs[i].length
                           /\ words'[i].status = vs[i].status
                           /\ words'[i].letters = vs[i].letters
  BY <1>8, <1>9, DrawWordsFacts
<1>11. ASSUME NEW k \in 0..(WordCount - 2 - s)
       PROVE  /\ words'[k].text = Judged[s + k].text
              /\ words'[k].length = Judged[s + k].length
              /\ words'[k].status = Judged[s + k].status
              /\ words'[k].letters = Judged[s + k].letters
  <2>1. k \in Index
    BY <1>1, <1>5
  <2> QED  BY <1>8, <1>10, <2>1
<1>12. ASSUME NEW k \in (WordCount - 1 - s)..(WordCount - 1)
       PROVE  /\ words'[k].status = 0
              /\ words'[k].letters = [j \in 0..(words'[k].length - 1) |-> 0]
  <2>1. k \in Index
    BY <1>1, <1>4, <1>5
  <2>2. words'[k].status = vs[k].status /\ words'[k].letters = vs[k].letters
        /\ words'[k].length = vs[k].length
    BY <1>10, <2>1
  <2>3. vs[k].status = 0 /\ vs[k].letters = [j \in 0..(vs[k].length - 1) |-> 0]
    BY <1>8, <1>12
  <2> QED  BY <2>2, <2>3
<1>13. number_of_lines' >= 1
  BY <1>10, LongLayout
<1>14. words'[currentWordIndex'].line <= 1
  <2>1. \A k \in 0..(currentWordIndex - s) : words'[k].length = words[s + k].length
    <3>1. ASSUME NEW k \in 0..(currentWordIndex - s)
          PROVE  k \in 0..(WordCount - 2 - s) /\ s + k \in 0..WordCount
      BY <1>1, <1>4, <1>5
    <3> QED  BY <1>6, <1>11, <3>1
  <2>2. Lengths(words')
    BY <1>10, TextLengths
  <2>3. Layout(words')[currentWordIndex - s + 1].line <= 1
    BY <1>1, <1>3, <1>4, <1>5, <2>1, <2>2, MovedLine
  <2> QED  BY <1>5, <1>10, <2>3
<1> QED  BY <1>4, <1>5, <1>6, <1>10, <1>11, <1>12, <1>13, <1>14

\* The cursor starts above the last line.
LEMMA SafeInit == Init => SafeInv
BY InitText, TypeInit DEF SafeInv, CursorInv

\* Every handler keeps the cursor above the last line.
LEMMA SafeStep ==
  ASSUME SafeInv, [Next]_vars
  PROVE  SafeInv'
<1>0. TypeInv'
  BY TypeStep DEF SafeInv
<1>a. /\ IsText(words) /\ currentWordIndex \in 0..(WordCount + 1) /\ currentInputIndex \in Nat
      /\ Index \subseteq 0..WordCount /\ WordCount \in Nat
  BY ConstantsAssumption DEF SafeInv, TypeInv, TypeOK, Index
<1>b. InArray => currentWordIndex \in 0..WordCount /\ currentInputIndex <= CurrentWord.length
                 /\ CurrentWord.length \in Nat
  <2>1. InArray => currentWordIndex \in 0..WordCount
    BY <1>a DEF InArray
  <2> QED  BY <1>a, <2>1, TextEnds DEF SafeInv, TypeInv, TypeOK, CurrentWord
<1>1. CASE FirstDraw
  BY <1>0, <1>1, <1>a, CursorSameText DEF FirstDraw, SafeInv
<1>2. ASSUME NEW correct \in BOOLEAN, ProcessKey(correct)
      PROVE  SafeInv'
  <2> DEFINE v == IF correct THEN 1 ELSE -1
             ws == WithLetter(currentInputIndex, v)
  <2>1. InArray /\ currentInputIndex < CurrentWord.length /\ DrawWords(ws)
        /\ currentWordIndex' = currentWordIndex
    BY <1>2 DEF ProcessKey
  <2>2. currentInputIndex \in 0..(CurrentWord.length - 1) /\ v \in {-1, 0, 1}
    BY <1>a, <1>b, <2>1
  <2> HIDE DEF v
  <2>3. IsText(ws) /\ \A i \in 0..WordCount : ws[i].length = words[i].length
    BY <1>a, <1>b, <2>1, <2>2, LetterText DEF CurrentWord
  <2> HIDE DEF ws
  <2> QED  BY <1>0, <1>a, <2>1, <2>3, CursorSameText DEF SafeInv
<1>3. CASE HandleDeleteKey
  <2>1. InArray /\ currentWordIndex' = currentWordIndex
    BY <1>3 DEF HandleDeleteKey
  <2>2. CASE currentInputIndex > 0
    <3> DEFINE j == currentInputIndex - 1
               ws == WithLetter(j, 0)
    <3>1. DrawWords(ws)
      BY <1>3, <2>2 DEF HandleDeleteKey
    <3>2. j \in 0..(CurrentWord.length - 1)
      BY <1>a, <1>b, <2>1, <2>2
    <3> HIDE DEF j
    <3>3. IsText(ws) /\ \A i \in 0..WordCount : ws[i].length = words[i].length
      BY <1>a, <1>b, <2>1, <3>2, LetterText DEF CurrentWord
    <3> HIDE DEF ws
    <3> QED  BY <1>0, <1>a, <2>1, <3>1, <3>3, CursorSameText DEF SafeInv
  <2>3. CASE ~(currentInputIndex > 0)
    <3>1. DrawWords(words)
      BY <1>3, <2>3 DEF HandleDeleteKey
    <3> QED  BY <1>0, <1>a, <2>1, <3>1, CursorSameText DEF SafeInv
  <2> QED  BY <2>2, <2>3
<1>4. CASE FillCurrentWord
  <2>1. InArray /\ DrawWords(Filled) /\ currentWordIndex' = currentWordIndex
    BY <1>4 DEF FillCurrentWord
  <2>2. IsText(Filled) /\ \A i \in 0..WordCount : Filled[i].length = words[i].length
    BY <1>a, <1>b, <2>1, FilledText DEF CurrentWord
  <2> QED  BY <1>0, <1>a, <2>1, <2>2, CursorSameText DEF SafeInv
<1>5. CASE SpaceNextWord
  BY <1>0, <1>5, CursorNextWord DEF SafeInv
<1>6. CASE SpaceScroll
  <2>1. /\ number_of_lines' >= 1 /\ words'[currentWordIndex'].line <= 1
        /\ currentWordIndex' \in Index /\ IsText(words')
    BY <1>6, ScrollStep
  <2>2. words'[currentWordIndex'].line \in Int /\ number_of_lines' \in Int
    <3>1. words'[currentWordIndex'].line \in Int
      BY <2>1 DEF IsText, IsWord
    <3>2. number_of_lines' \in -1..(WordCount - 1)
      BY <1>0 DEF TypeInv, TypeOK
    <3> QED  BY <1>a, <3>1, <3>2
  <2> QED  BY <1>0, <2>1, <2>2 DEF SafeInv, CursorInv
<1>7. CASE UNCHANGED vars
  BY <1>0, <1>7 DEF vars, SafeInv, CursorInv, LaidOut
<1> QED  BY <1>1, <1>2, <1>3, <1>4, <1>5, <1>6, <1>7 DEF Next

\* As long as the text takes three lines or more, handle_space_key never moves the
\* cursor out of it: texts of two lines are the only ones in which a handler can
\* read or write beyond the words.
THEOREM CursorStaysInText == Spec => []CursorInText
<1>1. SafeInv /\ [Next]_vars => SafeInv'
  BY SafeStep
<1>2. SafeInv => CursorInText
  BY ConstantsAssumption
     DEF SafeInv, CursorInv, TypeInv, TypeOK, LinesInv, LaidOut, CursorInText, CursorAtWord, Index
<1> QED  BY <1>1, <1>2, SafeInit, PTL DEF Spec

----------------------------------------------------------------------------
(* Scrolling moves the text as one piece                                   *)

\* A word left by the user is followed by the word that was shown next, and
\* scrolling reorders, loses or rewrites nothing but the last word of the array.
THEOREM ScrollingPreservesText == Spec => ScrollPreservesText
<1> DEFINE Moved == LaidOut /\ stats'.typedWords # stats.typedWords => MovesAsOne(WordCount - 2)
<1>1. SafeInv /\ [Next]_vars => SafeInv'
  BY SafeStep
<1>2. ASSUME SafeInv, [Next]_vars  PROVE Moved \/ UNCHANGED vars
  <2>0. /\ stats \in StatsType /\ IsText(words) /\ WordCount \in Nat /\ WordCount >= 2
        /\ Index = 0..(WordCount - 1) /\ currentWordIndex \in 0..(WordCount + 1)
    BY <1>2, ConstantsAssumption DEF SafeInv, TypeInv, TypeOK, StatsType, Index
  <2>1. CASE FirstDraw \/ HandleDeleteKey \/ FillCurrentWord
    BY <2>1 DEF FirstDraw, HandleDeleteKey, FillCurrentWord
  <2>2. ASSUME NEW correct \in BOOLEAN, ProcessKey(correct)  PROVE Moved
    BY <2>0, <2>2, StatsTypes DEF ProcessKey
  <2>3. CASE SpaceNextWord
    <3>1. /\ currentWordIndex \in 0..WordCount /\ DrawWords(Judged)
          /\ currentWordIndex' = currentWordIndex + 1
      BY <2>0, <2>3 DEF SpaceNextWord, InArray
    <3>2. IsText(Judged) /\ \A i \in 0..WordCount : /\ Judged[i].text = words[i].text
                                                   /\ Judged[i].letters = words[i].letters
      BY <2>0, <3>1, JudgedText DEF CurrentWord
    <3>3. \A i \in Index : words'[i].text = Judged[i].text /\ words'[i].letters = Judged[i].letters
      BY <3>1, <3>2, DrawWordsFacts
    <3>4. currentWordIndex + 1 - currentWordIndex' = 0
      BY <2>0, <3>1
    <3>5. \A k \in Index : /\ words'[k].text = words[k + 0].text
                           /\ words'[k].letters = words[k + 0].letters
      BY <2>0, <3>2, <3>3
    <3> QED  BY <3>4, <3>5 DEF MovesAsOne
  <2>4. CASE SpaceScroll
    <3>1. PICK s \in Index :
             /\ s <= currentWordIndex /\ currentWordIndex \in 0..(WordCount - 2)
             /\ currentWordIndex' = currentWordIndex - s + 1
             /\ \A k \in 0..(WordCount - 2 - s) :
                  /\ words'[k].text = Judged[s + k].text
                  /\ words'[k].letters = Judged[s + k].letters
      BY <1>2, <2>4, ScrollStep
    <3>2. \A i \in 0..WordCount : Judged[i].text = words[i].text /\ Judged[i].letters = words[i].letters
      <4>1. currentWordIndex \in 0..WordCount
        BY <2>0, <3>1
      <4> QED  BY <2>0, <4>1, JudgedText DEF CurrentWord
    <3>3. currentWordIndex + 1 - currentWordIndex' = s /\ s \in Nat
      BY <2>0, <3>1
    <3>4. ASSUME NEW k \in Index, k + s \in 0..(WordCount - 2)
          PROVE  words'[k].text = words[k + s].text /\ words'[k].letters = words[k + s].letters
      <4>1. k \in 0..(WordCount - 2 - s) /\ s + k = k + s /\ k + s \in 0..WordCount
        BY <2>0, <3>3, <3>4
      <4> QED  BY <3>1, <3>2, <4>1
    <3> QED  BY <3>3, <3>4 DEF MovesAsOne
  <2> QED  BY <1>2, <2>1, <2>2, <2>3, <2>4 DEF Next
<1>3. SafeInv /\ [Next]_vars => [Moved]_vars
  BY <1>2
<1> QED  BY <1>1, <1>3, SafeInit, PTL DEF Spec, ScrollPreservesText

----------------------------------------------------------------------------
(* Past the end of a text of two lines                                     *)

\* On the terminator and after it no handler changes a word of the text, and the
\* cursor does not come back.
LEMMA PastEnd ==
  ASSUME SafeInv, [Next]_vars, currentWordIndex \notin Index
  PROVE  /\ \A i \in Index : /\ words'[i].length = words[i].length
                             /\ words'[i].status = words[i].status
                             /\ words'[i].letters = words[i].letters
         /\ \/ currentWordIndex' = currentWordIndex /\ stats' = stats
            \/ currentWordIndex' = currentWordIndex + 1 /\ stats' = CountWord
         /\ currentWordIndex \in WordCount..(WordCount + 1)
<1> DEFINE Same(ws) == \A i \in Index : /\ ws[i].length = words[i].length
                                       /\ ws[i].status = words[i].status
                                       /\ ws[i].letters = words[i].letters
<1>a. /\ IsText(words) /\ currentWordIndex \in WordCount..(WordCount + 1)
      /\ currentInputIndex \in Nat
      /\ Index = 0..(WordCount - 1) /\ WordCount \in Nat
      /\ \A i \in Index : i \in 0..WordCount /\ i # currentWordIndex
  BY ConstantsAssumption DEF SafeInv, TypeInv, TypeOK, Index
<1>b. InArray => /\ currentWordIndex = WordCount /\ currentWordIndex \in 0..WordCount
                 /\ CurrentWord.length = 0 /\ currentInputIndex = 0
  <2>1. InArray => currentWordIndex = WordCount
    BY <1>a DEF InArray
  <2>2. words[WordCount].length = 0
    BY <1>a, TextEnds
  <2> QED  BY <1>a, <2>1, <2>2 DEF SafeInv, TypeInv, TypeOK, CurrentWord
\* A text with the same words, drawn.
<1>c. ASSUME NEW ws, IsText(ws), DrawWords(ws), \A i \in Index : ws[i] = words[i]
      PROVE  Same(words')
  BY <1>c, DrawWordsFacts
<1>1. CASE FirstDraw
  <2>1. Same(words')
    BY <1>1, <1>a, <1>c DEF FirstDraw
  <2> QED  BY <1>1, <1>a, <2>1 DEF FirstDraw
<1>2. ASSUME NEW correct \in BOOLEAN, ProcessKey(correct)  PROVE FALSE
  BY <1>2, <1>a, <1>b DEF ProcessKey
<1>3. CASE HandleDeleteKey
  <2>1. DrawWords(words)
    BY <1>3, <1>a, <1>b DEF HandleDeleteKey
  <2>2. Same(words')
    BY <1>a, <1>c, <2>1
  <2> QED  BY <1>3, <1>a, <2>2 DEF HandleDeleteKey
<1>4. CASE FillCurrentWord
  <2>1. IsText(Filled) /\ \A i \in Index : Filled[i] = words[i]
    BY <1>4, <1>a, <1>b, FilledText DEF FillCurrentWord
  <2>2. Same(words')
    BY <1>4, <1>c, <2>1 DEF FillCurrentWord
  <2> QED  BY <1>4, <1>a, <2>2 DEF FillCurrentWord
<1>5. CASE SpaceNextWord
  <2>1. IsText(Judged) /\ \A i \in Index : Judged[i] = words[i]
    BY <1>5, <1>a, <1>b, JudgedText DEF SpaceNextWord
  <2>2. Same(words')
    BY <1>5, <1>c, <2>1 DEF SpaceNextWord
  <2> QED  BY <1>5, <1>a, <2>2 DEF SpaceNextWord
<1>6. CASE SpaceScroll
  <2>1. currentWordIndex \in 0..(WordCount - 2)
    BY <1>6, ScrollStep
  <2> QED  BY <1>a, <2>1
<1>7. CASE UNCHANGED vars
  BY <1>7, <1>a DEF vars
<1> QED  BY <1>1, <1>2, <1>3, <1>4, <1>5, <1>6, <1>7 DEF Next

----------------------------------------------------------------------------
(* Verdicts                                                                *)

\* TypedPrefix and VerdictMatchesLetters of a text ws with the cursor at word
\* c, letter n.
PrefixOf(ws, c, n) ==
  /\ \A i \in Index : /\ i > c => /\ ws[i].status = 0
                                  /\ \A j \in 0..(ws[i].length - 1) : ws[i].letters[j] = 0
                      /\ i < c => ws[i].status # 0
  /\ c \in Index => /\ ws[c].status = 0
                     /\ \A j \in 0..(ws[c].length - 1) : (ws[c].letters[j] # 0) <=> (j < n)

VerdictsOf(ws) ==
  \A i \in Index : ws[i].status # 0 =>
    ((ws[i].status = 1) <=> \A j \in 0..(ws[i].length - 1) : ws[i].letters[j] = 1)

\* Drawing keeps both.
LEMMA DrawKeepsVerdicts ==
  ASSUME NEW ws, IsText(ws), DrawWords(ws), NEW c, NEW n,
         PrefixOf(ws, c, n), VerdictsOf(ws)
  PROVE  PrefixOf(words', c, n) /\ VerdictsOf(words')
<1>1. \A i \in Index : /\ words'[i].length = ws[i].length
                       /\ words'[i].status = ws[i].status
                       /\ words'[i].letters = ws[i].letters
  BY DrawWordsFacts
<1> QED  BY <1>1 DEF PrefixOf, VerdictsOf

VerdictInv == /\ SafeInv
              /\ PrefixOf(words, currentWordIndex, currentInputIndex)
              /\ VerdictsOf(words)

\* A new text has no letter typed and no word judged.
LEMMA VerdictInit == Init => VerdictInv
<1> SUFFICES ASSUME Init  PROVE VerdictInv
  OBVIOUS
<1>1. currentWordIndex = 0 /\ currentInputIndex = 0 /\ 0 \in Index /\ \A i \in Index : ~(i < 0)
  BY ConstantsAssumption DEF Init, Index
<1>2. ASSUME NEW i \in Index
      PROVE  /\ words[i].status = 0
             /\ \A j \in 0..(words[i].length - 1) : words[i].letters[j] = 0 /\ ~(j < 0)
  <2>1. words[i].status = 0 /\ words[i].letters = [j \in 0..(words[i].length - 1) |-> 0]
    BY InitText
  <2>2. \A j \in 0..(words[i].length - 1) : words[i].letters[j] = 0
    BY <2>1, Zenon
  <2> QED  BY <2>1, <2>2
<1> QED  BY <1>1, <1>2, SafeInit DEF VerdictInv, PrefixOf, VerdictsOf

\* With the cursor in the text, every handler keeps letters, verdicts and cursor
\* in agreement.
LEMMA VerdictStepInText ==
  ASSUME VerdictInv, [Next]_vars, currentWordIndex \in Index
  PROVE  VerdictInv'
<1>0. SafeInv'
  BY SafeStep DEF VerdictInv
<1>a. /\ IsText(words) /\ currentInputIndex \in Nat /\ currentWordIndex \in Index
      /\ Index = 0..(WordCount - 1) /\ WordCount \in Nat
      /\ currentWordIndex \in 0..WordCount
      /\ currentInputIndex <= CurrentWord.length /\ CurrentWord.length \in Nat
  <2>1. /\ IsText(words) /\ currentInputIndex \in Nat /\ Index = 0..(WordCount - 1) /\ WordCount \in Nat
    BY ConstantsAssumption DEF VerdictInv, SafeInv, TypeInv, TypeOK, Index
  <2>2. currentWordIndex \in 0..WordCount /\ InArray
    BY <2>1 DEF InArray
  <2> QED  BY <2>1, <2>2, TextEnds DEF VerdictInv, SafeInv, TypeInv, TypeOK, CurrentWord
<1>b. PrefixOf(words, currentWordIndex, currentInputIndex) /\ VerdictsOf(words)
  BY DEF VerdictInv
\* Once the drawn text has both, so has the state.
<1>c. ASSUME NEW ws, IsText(ws), DrawWords(ws),
             PrefixOf(ws, currentWordIndex', currentInputIndex'), VerdictsOf(ws)
      PROVE  VerdictInv'
  BY <1>0, <1>c, DrawKeepsVerdicts DEF VerdictInv
\* A change of letters of the current word keeps the verdicts on the others.
<1>d. ASSUME NEW ws, NEW n, IsText(ws),
             \A k \in 0..WordCount : k # currentWordIndex => ws[k] = words[k],
             ws[currentWordIndex].status = CurrentWord.status,
             \A j \in 0..(ws[currentWordIndex].length - 1) :
               (ws[currentWordIndex].letters[j] # 0) <=> (j < n)
      PROVE  PrefixOf(ws, currentWordIndex, n) /\ VerdictsOf(ws)
  <2>1. \A k \in Index : k # currentWordIndex => ws[k] = words[k]
    BY <1>a, <1>d
  <2>2. ws[currentWordIndex].status = 0
    BY <1>b, <1>d DEF PrefixOf, CurrentWord
  <2> QED  BY <1>a, <1>b, <1>d, <2>1, <2>2 DEF PrefixOf, VerdictsOf
<1>e. \A j \in 0..(CurrentWord.length - 1) : (CurrentWord.letters[j] # 0) <=> (j < currentInputIndex)
  BY <1>b DEF PrefixOf, CurrentWord
<1>f. CurrentWord.letters \in [0..(CurrentWord.length - 1) -> {-1, 0, 1}]
  BY <1>a DEF IsText, IsWord, CurrentWord
<1>1. CASE FirstDraw
  BY <1>1, <1>a, <1>b, <1>c DEF FirstDraw
<1>2. ASSUME NEW correct \in BOOLEAN, ProcessKey(correct)
      PROVE  VerdictInv'
  <2> DEFINE v == IF correct THEN 1 ELSE -1
             ws == WithLetter(currentInputIndex, v)
  <2>1. currentInputIndex < CurrentWord.length /\ DrawWords(ws)
        /\ currentWordIndex' = currentWordIndex /\ currentInputIndex' = currentInputIndex + 1
    BY <1>2 DEF ProcessKey
  <2>2. currentInputIndex \in 0..(CurrentWord.length - 1) /\ v \in {-1, 0, 1} /\ v # 0
    BY <1>a, <2>1
  <2> HIDE DEF v
  <2>3. /\ IsText(ws) /\ ws[currentWordIndex].length = CurrentWord.length
        /\ ws[currentWordIndex].status = CurrentWord.status
        /\ ws[currentWordIndex].letters = [CurrentWord.letters EXCEPT ![currentInputIndex] = v]
        /\ \A k \in 0..WordCount : k # currentWordIndex => ws[k] = words[k]
    BY <1>a, <2>1, <2>2, LetterText
  <2> HIDE DEF ws
  <2>4. \A j \in 0..(CurrentWord.length - 1) :
          (ws[currentWordIndex].letters[j] # 0) <=> (j < currentInputIndex + 1)
    BY <1>a, <1>e, <1>f, <2>2, <2>3
  <2>5. PrefixOf(ws, currentWordIndex, currentInputIndex + 1) /\ VerdictsOf(ws)
    BY <1>d, <2>3, <2>4
  <2> QED  BY <1>a, <1>c, <2>1, <2>3, <2>5
<1>3. CASE HandleDeleteKey
  <2>1. currentWordIndex' = currentWordIndex
    BY <1>3 DEF HandleDeleteKey
  <2>2. CASE currentInputIndex > 0
    <3> DEFINE n == currentInputIndex - 1
               ws == WithLetter(n, 0)
    <3>1. DrawWords(ws) /\ currentInputIndex' = n
      BY <1>3, <2>2 DEF HandleDeleteKey
    <3>2. n \in 0..(CurrentWord.length - 1) /\ currentInputIndex = n + 1
      BY <1>a, <2>2
    <3> HIDE DEF n
    <3>3. /\ IsText(ws) /\ ws[currentWordIndex].length = CurrentWord.length
          /\ ws[currentWordIndex].status = CurrentWord.status
          /\ ws[currentWordIndex].letters = [CurrentWord.letters EXCEPT ![n] = 0]
          /\ \A k \in 0..WordCount : k # currentWordIndex => ws[k] = words[k]
      BY <1>a, <3>2, LetterText
    <3> HIDE DEF ws
    <3>4. \A j \in 0..(CurrentWord.length - 1) :
            (ws[currentWordIndex].letters[j] # 0) <=> (j < n)
      BY <1>a, <1>e, <1>f, <3>2, <3>3
    <3>5. PrefixOf(ws, currentWordIndex, n) /\ VerdictsOf(ws)
      BY <1>d, <3>3, <3>4
    <3> QED  BY <1>a, <1>c, <2>1, <3>1, <3>3, <3>5
  <2>3. CASE ~(currentInputIndex > 0)
    <3>1. DrawWords(words) /\ UNCHANGED currentInputIndex
      BY <1>3, <2>3 DEF HandleDeleteKey
    <3> QED  BY <1>a, <1>b, <1>c, <2>1, <3>1
  <2> QED  BY <2>2, <2>3
<1>4. CASE FillCurrentWord
  <2>1. DrawWords(Filled) /\ currentWordIndex' = currentWordIndex
        /\ currentInputIndex' = CurrentWord.length
    BY <1>4 DEF FillCurrentWord
  <2>2. /\ IsText(Filled) /\ Filled[currentWordIndex].length = CurrentWord.length
        /\ Filled[currentWordIndex].status = CurrentWord.status
        /\ Filled[currentWordIndex].letters = [j \in 0..(CurrentWord.length - 1) |-> 1]
        /\ \A k \in 0..WordCount : k # currentWordIndex => Filled[k] = words[k]
    BY <1>a, FilledText
  <2>3. \A j \in 0..(CurrentWord.length - 1) :
          (Filled[currentWordIndex].letters[j] # 0) <=> (j < CurrentWord.length)
    BY <1>a, <2>2
  <2>4. PrefixOf(Filled, currentWordIndex, CurrentWord.length) /\ VerdictsOf(Filled)
    BY <1>d, <2>2, <2>3
  <2> QED  BY <1>a, <1>c, <2>1, <2>2, <2>4
<1> DEFINE verdict == IF IsCorrect(CurrentWord) THEN 1 ELSE -1
<1>j. /\ IsText(Judged) /\ Judged[currentWordIndex].length = CurrentWord.length
      /\ Judged[currentWordIndex].status = verdict
      /\ Judged[currentWordIndex].letters = CurrentWord.letters
      /\ \A k \in Index : k # currentWordIndex => Judged[k] = words[k]
  BY <1>a, JudgedText
<1>k. VerdictsOf(Judged)
  <2>1. (verdict = 1) <=> \A j \in 0..(CurrentWord.length - 1) : CurrentWord.letters[j] = 1
    BY DEF IsCorrect
  <2> HIDE DEF verdict
  <2> QED  BY <1>a, <1>b, <1>j, <2>1 DEF VerdictsOf
<1>5. CASE SpaceNextWord
  <2>1. DrawWords(Judged) /\ currentWordIndex' = currentWordIndex + 1 /\ currentInputIndex' = 0
    BY <1>5 DEF SpaceNextWord
  <2>2. PrefixOf(Judged, currentWordIndex + 1, 0)
    <3>1. verdict # 0
      OBVIOUS
    <3> HIDE DEF verdict
    <3>2. \A k \in Index : k >= currentWordIndex + 1 =>
            /\ Judged[k].status = 0
            /\ \A j \in 0..(Judged[k].length - 1) : Judged[k].letters[j] = 0
      BY <1>a, <1>b, <1>j DEF PrefixOf
    <3>3. \A k \in Index : k < currentWordIndex + 1 => Judged[k].status # 0
      BY <1>a, <1>b, <1>j, <3>1 DEF PrefixOf
    <3> QED  BY <1>a, <3>2, <3>3 DEF PrefixOf
  <2> QED  BY <1>c, <1>j, <1>k, <2>1, <2>2
<1>6. CASE SpaceScroll
  <2>1. PICK s \in Index :
           /\ s <= currentWordIndex /\ currentWordIndex \in 0..(WordCount - 2)
           /\ currentWordIndex' = currentWordIndex - s + 1
           /\ currentWordIndex' \in Index
           /\ \A k \in 0..(WordCount - 2 - s) :
                /\ words'[k].text = Judged[s + k].text
                /\ words'[k].length = Judged[s + k].length
                /\ words'[k].status = Judged[s + k].status
                /\ words'[k].letters = Judged[s + k].letters
           /\ \A k \in (WordCount - 1 - s)..(WordCount - 1) :
                /\ words'[k].status = 0
                /\ words'[k].letters = [j \in 0..(words'[k].length - 1) |-> 0]
    BY <1>6, ScrollStep DEF VerdictInv
  <2>2. currentInputIndex' = 0
    BY <1>6 DEF SpaceScroll
  <2>3. verdict # 0
    OBVIOUS
  <2> HIDE DEF verdict
  <2>4. \A k \in Index : k \in 0..(WordCount - 2 - s) \/ k \in (WordCount - 1 - s)..(WordCount - 1)
    BY <1>a, <2>1
  <2>5. ASSUME NEW k \in 0..(WordCount - 2 - s)
        PROVE  s + k \in Index /\ (k < currentWordIndex' <=> s + k < currentWordIndex + 1)
    BY <1>a, <2>1, <2>5
  <2>6. ASSUME NEW k \in (WordCount - 1 - s)..(WordCount - 1)
        PROVE  ~(k < currentWordIndex')
    BY <1>a, <2>1, <2>6
  <2>7. \A i \in Index : i >= currentWordIndex + 1 =>
          /\ Judged[i].status = 0
          /\ \A j \in 0..(Judged[i].length - 1) : Judged[i].letters[j] = 0
    BY <1>a, <1>b, <1>j DEF PrefixOf
  <2>8. \A i \in Index : i < currentWordIndex + 1 => Judged[i].status # 0
    BY <1>a, <1>b, <1>j, <2>3 DEF PrefixOf
  <2>9. ASSUME NEW k \in Index
        PROVE  /\ ~(k < currentWordIndex') =>
                    /\ words'[k].status = 0
                    /\ \A j \in 0..(words'[k].length - 1) : words'[k].letters[j] = 0
               /\ k < currentWordIndex' => words'[k].status # 0
    <3>1. CASE k \in 0..(WordCount - 2 - s)
      <4>1. /\ s + k \in Index /\ (k < currentWordIndex' <=> s + k < currentWordIndex + 1)
            /\ words'[k].length = Judged[s + k].length
            /\ words'[k].status = Judged[s + k].status
            /\ words'[k].letters = Judged[s + k].letters
        BY <2>1, <2>5, <3>1
      <4>2. ~(s + k < currentWordIndex + 1) => s + k >= currentWordIndex + 1
        BY <1>a, <4>1
      <4> QED  BY <2>7, <2>8, <4>1, <4>2
    <3>2. CASE k \in (WordCount - 1 - s)..(WordCount - 1)
      BY <2>1, <2>6, <3>2
    <3> QED  BY <2>4, <3>1, <3>2
  <2>10. PrefixOf(words', currentWordIndex', 0)
    BY <1>a, <2>1, <2>9 DEF PrefixOf
  <2>11. VerdictsOf(words')
    <3>1. ASSUME NEW k \in Index, words'[k].status # 0
          PROVE  (words'[k].status = 1) <=> \A j \in 0..(words'[k].length - 1) : words'[k].letters[j] = 1
      <4>1. CASE k \in 0..(WordCount - 2 - s)
        BY <1>k, <2>1, <2>5, <3>1, <4>1 DEF VerdictsOf
      <4>2. CASE k \in (WordCount - 1 - s)..(WordCount - 1)
        BY <2>1, <3>1, <4>2
      <4> QED  BY <2>4, <4>1, <4>2
    <3> QED  BY <3>1 DEF VerdictsOf
  <2> QED  BY <1>0, <2>2, <2>10, <2>11 DEF VerdictInv
<1>7. CASE UNCHANGED vars
  BY <1>0, <1>7, <1>b DEF vars, VerdictInv
<1> QED  BY <1>1, <1>2, <1>3, <1>4, <1>5, <1>6, <1>7 DEF Next

\* Every handler keeps them in agreement, wherever the cursor is.
LEMMA VerdictStep ==
  ASSUME VerdictInv, [Next]_vars
  PROVE  VerdictInv'
<1>1. CASE currentWordIndex \in Index
  BY <1>1, VerdictStepInText
<1>2. CASE currentWordIndex \notin Index
  <2>1. SafeInv'
    BY SafeStep DEF VerdictInv
  <2>2. /\ \A i \in Index : /\ words'[i].length = words[i].length
                            /\ words'[i].status = words[i].status
                            /\ words'[i].letters = words[i].letters
        /\ currentWordIndex' \in {currentWordIndex, currentWordIndex + 1}
        /\ currentWordIndex \in WordCount..(WordCount + 1)
    BY <1>2, PastEnd DEF VerdictInv
  <2>3. /\ currentWordIndex' \notin Index
        /\ \A i \in Index : /\ ~(i > currentWordIndex') /\ ~(i > currentWordIndex)
                            /\ i < currentWordIndex
    BY <2>2, ConstantsAssumption DEF Index
  <2>4. PrefixOf(words', currentWordIndex', currentInputIndex') /\ VerdictsOf(words')
    BY <2>2, <2>3 DEF VerdictInv, PrefixOf, VerdictsOf
  <2> QED  BY <2>1, <2>4 DEF VerdictInv
<1> QED  BY <1>1, <1>2

\* The letters with a verdict are exactly those the user is past.
THEOREM TypedLettersArePrefix == Spec => []TypedPrefix
<1>1. VerdictInv /\ [Next]_vars => VerdictInv'
  BY VerdictStep
<1>2. VerdictInv => TypedPrefix
  BY ConstantsAssumption
     DEF VerdictInv, SafeInv, TypeInv, TypeOK, PrefixOf, TypedPrefix, CursorAtWord, CurrentWord, Index
<1> QED  BY <1>1, <1>2, VerdictInit, PTL DEF Spec

\* The verdict on a word left behind agrees with its letters, however the text
\* scrolls and whatever is deleted or filled afterwards.
THEOREM VerdictsMatchLetters == Spec => []VerdictMatchesLetters
<1>1. VerdictInv /\ [Next]_vars => VerdictInv'
  BY VerdictStep
<1>2. VerdictInv => VerdictMatchesLetters
  BY DEF VerdictInv, VerdictsOf, VerdictMatchesLetters, IsCorrect
<1> QED  BY <1>1, <1>2, VerdictInit, PTL DEF Spec

----------------------------------------------------------------------------
(* The statistics cover the text                                           *)

\* The wrong letters and the correct words of a text ws.
Wrong(ws) == {p \in Index \X (0..LineChars) :
                p[2] < ws[p[1]].length /\ ws[p[1]].letters[p[2]] = -1}
Right(ws) == {i \in Index : ws[i].status = 1}

LEMMA TextSetsFinite ==
  ASSUME NEW ws
  PROVE  IsFiniteSet(Wrong(ws)) /\ IsFiniteSet(Right(ws))
<1>1. IsFiniteSet(Index) /\ IsFiniteSet(0..LineChars)
  BY FS_Interval, ConstantsAssumption DEF Index
<1>2. IsFiniteSet(Index \X (0..LineChars))
  BY <1>1, FS_Product
<1>3. Wrong(ws) \in SUBSET (Index \X (0..LineChars)) /\ Right(ws) \in SUBSET Index
  BY DEF Wrong, Right
<1> QED  BY <1>1, <1>2, <1>3, FS_Subset

\* The bound of a finite set bounds what is in it, and what is in it but for one
\* element by one more.
LEMMA BoundKept ==
  ASSUME NEW T, IsFiniteSet(T), NEW S \in SUBSET T, NEW n \in Nat, Cardinality(T) <= n
  PROVE  Cardinality(S) <= n
<1>1. /\ IsFiniteSet(S) /\ Cardinality(S) <= Cardinality(T)
  BY FS_Subset
<1>2. Cardinality(S) \in Nat /\ Cardinality(T) \in Nat
  BY <1>1, FS_CardinalityType
<1> QED  BY <1>1, <1>2

LEMMA BoundGrows ==
  ASSUME NEW T, IsFiniteSet(T), NEW e, NEW S \in SUBSET (T \cup {e}), NEW n \in Nat, Cardinality(T) <= n
  PROVE  Cardinality(S) <= n + 1
<1>1. /\ IsFiniteSet(T \cup {e})
      /\ Cardinality(T \cup {e}) = IF e \in T THEN Cardinality(T) ELSE Cardinality(T) + 1
  BY FS_AddElement
<1>2. Cardinality(T) \in Nat
  BY FS_CardinalityType
<1>3. Cardinality(T \cup {e}) <= n + 1
  BY <1>1, <1>2
<1> QED  BY <1>1, <1>3, BoundKept

\* And what can be mapped into it, one to one.
LEMMA BoundMapped ==
  ASSUME NEW T, IsFiniteSet(T), NEW S, NEW f \in [S -> T], \A a, b \in S : f[a] = f[b] => a = b,
         NEW n \in Nat, Cardinality(T) <= n
  PROVE  Cardinality(S) <= n
<1>1. f \in Injection(S, T)
  BY DEF Injection, IsInjective
<1>2. IsFiniteSet(S) /\ Cardinality(S) <= Cardinality(T)
  BY <1>1, FS_Injection
<1>3. Cardinality(S) \in Nat /\ Cardinality(T) \in Nat
  BY <1>2, FS_CardinalityType
<1> QED  BY <1>2, <1>3

\* Drawing changes neither.
LEMMA DrawKeepsSets ==
  ASSUME NEW ws, IsText(ws), DrawWords(ws)
  PROVE  Wrong(words') = Wrong(ws) /\ Right(words') = Right(ws)
<1>1. \A i \in Index : /\ words'[i].length = ws[i].length
                       /\ words'[i].status = ws[i].status
                       /\ words'[i].letters = ws[i].letters
  BY DrawWordsFacts
<1>2. \A p \in Index \X (0..LineChars) : p[1] \in Index
  OBVIOUS
<1> QED  BY <1>1, <1>2 DEF Wrong, Right

\* What the handlers count.
LEMMA StatsCounted ==
  ASSUME stats \in StatsType
  PROVE  /\ stats.incorrectLetters \in Nat /\ stats.correctWords \in Nat /\ stats.typedWords \in Nat
         /\ \A correct \in BOOLEAN :
              /\ CountLetter(correct).correctWords = stats.correctWords
              /\ CountLetter(correct).typedWords = stats.typedWords
              /\ CountLetter(correct).incorrectLetters =
                   IF correct THEN stats.incorrectLetters ELSE stats.incorrectLetters + 1
         /\ CountWord.incorrectLetters = stats.incorrectLetters
         /\ CountWord.typedWords = stats.typedWords + 1
         /\ CountWord.correctWords =
              IF IsCorrect(CurrentWord) THEN stats.correctWords + 1 ELSE stats.correctWords
<1>1. ASSUME NEW correct \in BOOLEAN
      PROVE  /\ CountLetter(correct).correctWords = stats.correctWords
             /\ CountLetter(correct).typedWords = stats.typedWords
             /\ CountLetter(correct).incorrectLetters =
                  IF correct THEN stats.incorrectLetters ELSE stats.incorrectLetters + 1
  <2>1. CASE correct
    BY <2>1, CountFacts DEF CountLetter, Counters
  <2>2. CASE ~correct
    BY <2>2, CountFacts DEF CountLetter, Counters
  <2> QED  BY <2>1, <2>2
<1>2. /\ CountWord.incorrectLetters = stats.incorrectLetters
      /\ CountWord.typedWords = stats.typedWords + 1
      /\ CountWord.correctWords =
           IF IsCorrect(CurrentWord) THEN stats.correctWords + 1 ELSE stats.correctWords
  <2>1. CASE IsCorrect(CurrentWord)
    BY <2>1, CountFacts DEF CountWord, Counters
  <2>2. CASE ~IsCorrect(CurrentWord)
    BY <2>2, CountFacts DEF CountWord, Counters
  <2> QED  BY <2>1, <2>2
<1> QED  BY <1>1, <1>2 DEF StatsType, Counters

\* The counts of StatsCoverText, for a text ws and statistics st.
CoveredBy(ws, st) ==
  Cardinality(Wrong(ws)) <= st.incorrectLetters /\ Cardinality(Right(ws)) <= st.correctWords

CoverInv == /\ SafeInv
            /\ CoveredBy(words, stats)
            /\ currentWordIndex <= stats.typedWords

LEMMA CoverInit == Init => CoverInv
<1> SUFFICES ASSUME Init  PROVE CoverInv
  OBVIOUS
<1>1. SafeInv
  BY SafeInit
<1>2. /\ stats.incorrectLetters = 0 /\ stats.correctWords = 0 /\ stats.typedWords = 0
      /\ currentWordIndex = 0
  BY DEF Init, Counters
<1>3. Wrong(words) = {}
  <2>1. ASSUME NEW i \in Index, NEW j \in 0..LineChars, j < words[i].length  PROVE words[i].letters[j] = 0
    <3>1. words[i].letters = [k \in 0..(words[i].length - 1) |-> 0] /\ IsText(words)
      BY InitText
    <3>2. words[i].length \in Nat
      BY <3>1, TextLengths, ConstantsAssumption DEF Lengths
    <3>3. j \in 0..(words[i].length - 1)
      BY <2>1, <3>2, ConstantsAssumption
    <3> QED  BY <3>1, <3>3, Zenon
  <2>2. \A p \in Index \X (0..LineChars) : p[1] \in Index /\ p[2] \in 0..LineChars
    OBVIOUS
  <2> QED  BY <2>1, <2>2 DEF Wrong
<1>4. Right(words) = {}
  <2>1. \A i \in Index : words[i].status = 0
    BY InitText
  <2> QED  BY <2>1 DEF Right
<1>5. Cardinality({}) = 0
  BY FS_EmptySet
<1> QED  BY <1>1, <1>2, <1>3, <1>4, <1>5 DEF CoverInv, CoveredBy

\* A step that draws a text with no more wrong letters and no more correct words.
LEMMA CoverKept ==
  ASSUME CoverInv, NEW ws, IsText(ws), DrawWords(ws), Wrong(ws) \subseteq Wrong(words), Right(ws) \subseteq Right(words),
         stats' = stats
  PROVE  CoveredBy(words', stats')
<1>1. Wrong(words') \subseteq Wrong(words) /\ Right(words') \subseteq Right(words)
  BY DrawKeepsSets
<1>2. stats.incorrectLetters \in Nat /\ stats.correctWords \in Nat
  BY StatsCounted DEF CoverInv, SafeInv, TypeInv, TypeOK, StatsType
<1> QED  BY <1>1, <1>2, TextSetsFinite, BoundKept DEF CoverInv, CoveredBy

\* With the cursor in the text, every handler counts what it marks.
LEMMA CoverStepInText ==
  ASSUME CoverInv, [Next]_vars, currentWordIndex \in Index
  PROVE  CoverInv'
<1>0. SafeInv'
  BY SafeStep DEF CoverInv
<1>a. /\ IsText(words) /\ currentInputIndex \in Nat /\ currentWordIndex \in Index
      /\ Index = 0..(WordCount - 1) /\ WordCount \in Nat /\ stats \in StatsType
      /\ currentWordIndex \in 0..WordCount
      /\ currentInputIndex <= CurrentWord.length /\ CurrentWord.length \in Nat
  <2>1. /\ IsText(words) /\ currentInputIndex \in Nat /\ Index = 0..(WordCount - 1) /\ WordCount \in Nat
        /\ stats \in StatsType
    BY ConstantsAssumption DEF CoverInv, SafeInv, TypeInv, TypeOK, StatsType, Index
  <2>2. currentWordIndex \in 0..WordCount /\ InArray
    BY <2>1 DEF InArray
  <2> QED  BY <2>1, <2>2, TextEnds DEF CoverInv, SafeInv, TypeInv, TypeOK, CurrentWord
<1>b. /\ stats.incorrectLetters \in Nat /\ stats.correctWords \in Nat /\ stats.typedWords \in Nat
      /\ Cardinality(Wrong(words)) <= stats.incorrectLetters
      /\ Cardinality(Right(words)) <= stats.correctWords
      /\ currentWordIndex <= stats.typedWords
  BY <1>a, StatsCounted DEF CoverInv, CoveredBy
<1>c. CurrentWord.letters \in [0..(CurrentWord.length - 1) -> {-1, 0, 1}]
  BY <1>a DEF IsText, IsWord, CurrentWord
\* A text that differs from the one before in letters of the current word only.
<1>d. ASSUME NEW ws, \A k \in 0..WordCount : k # currentWordIndex => ws[k] = words[k],
             ws[currentWordIndex].length = CurrentWord.length,
             ws[currentWordIndex].status = CurrentWord.status, NEW e,
             \A j \in 0..(CurrentWord.length - 1) :
               ws[currentWordIndex].letters[j] = -1 => CurrentWord.letters[j] = -1 \/ e = <<currentWordIndex, j>>
      PROVE  Wrong(ws) \subseteq Wrong(words) \cup {e} /\ Right(ws) \subseteq Right(words)
  <2>1. \A k \in Index : k # currentWordIndex => ws[k] = words[k]
    BY <1>a, <1>d
  <2>2. Right(ws) \subseteq Right(words)
    BY <1>d, <2>1 DEF Right, CurrentWord
  <2>3. ASSUME NEW p \in Wrong(ws), p \notin Wrong(words)  PROVE p = e
    <3>1. /\ p \in Index \X (0..LineChars) /\ p[1] \in Index /\ p[2] \in 0..LineChars /\ p = <<p[1], p[2]>>
          /\ p[2] < ws[p[1]].length /\ ws[p[1]].letters[p[2]] = -1
      BY DEF Wrong
    <3>2. p[1] = currentWordIndex
      BY <2>1, <2>3, <3>1 DEF Wrong
    <3>3. p[2] \in 0..(CurrentWord.length - 1) /\ p[2] < CurrentWord.length
      BY <1>a, <1>d, <3>1, <3>2, ConstantsAssumption
    <3>4. CurrentWord.letters[p[2]] # -1
      BY <2>3, <3>1, <3>2, <3>3 DEF Wrong, CurrentWord
    <3> QED  BY <1>d, <3>1, <3>2, <3>3, <3>4
  <2> QED  BY <2>2, <2>3
\* The same, with no new wrong letter.
<1>e. ASSUME NEW ws, \A k \in 0..WordCount : k # currentWordIndex => ws[k] = words[k],
             ws[currentWordIndex].length = CurrentWord.length,
             ws[currentWordIndex].status = CurrentWord.status,
             \A j \in 0..(CurrentWord.length - 1) :
               ws[currentWordIndex].letters[j] = -1 => CurrentWord.letters[j] = -1
      PROVE  Wrong(ws) \subseteq Wrong(words) /\ Right(ws) \subseteq Right(words)
  <2>1. /\ Wrong(ws) \subseteq Wrong(words) \cup {<<-1, 0>>}
        /\ Right(ws) \subseteq Right(words)
    BY <1>d, <1>e
  <2>2. <<-1, 0>> \notin Wrong(ws)
    BY <1>a DEF Wrong
  <2> QED  BY <2>1, <2>2
<1>1. CASE FirstDraw
  <2>1. DrawWords(words) /\ stats' = stats /\ currentWordIndex' = currentWordIndex
    BY <1>1 DEF FirstDraw
  <2> QED  BY <1>0, <1>a, <1>b, <2>1, CoverKept DEF CoverInv
<1>2. ASSUME NEW correct \in BOOLEAN, ProcessKey(correct)
      PROVE  CoverInv'
  <2> DEFINE v == IF correct THEN 1 ELSE -1
             ws == WithLetter(currentInputIndex, v)
             e == <<currentWordIndex, currentInputIndex>>
  <2>1. currentInputIndex < CurrentWord.length /\ DrawWords(ws)
        /\ currentWordIndex' = currentWordIndex /\ stats' = CountLetter(correct)
    BY <1>2 DEF ProcessKey
  <2>2. currentInputIndex \in 0..(CurrentWord.length - 1) /\ v \in {-1, 0, 1} /\ (correct => v = 1)
    BY <1>a, <2>1
  <2> HIDE DEF v
  <2>3. /\ IsText(ws) /\ ws[currentWordIndex].length = CurrentWord.length
        /\ ws[currentWordIndex].status = CurrentWord.status
        /\ ws[currentWordIndex].letters = [CurrentWord.letters EXCEPT ![currentInputIndex] = v]
        /\ \A k \in 0..WordCount : k # currentWordIndex => ws[k] = words[k]
    BY <1>a, <2>1, <2>2, LetterText
  <2> HIDE DEF ws
  <2>4. /\ stats'.correctWords = stats.correctWords /\ stats'.typedWords = stats.typedWords
        /\ stats'.incorrectLetters = IF correct THEN stats.incorrectLetters ELSE stats.incorrectLetters + 1
    BY <1>a, <2>1, StatsCounted
  <2>5. Wrong(words') = Wrong(ws) /\ Right(words') = Right(ws)
    BY <2>1, <2>3, DrawKeepsSets
  <2>6. CASE correct
    <3>1. \A j \in 0..(CurrentWord.length - 1) :
            ws[currentWordIndex].letters[j] = -1 => CurrentWord.letters[j] = -1
      BY <1>c, <2>2, <2>3, <2>6
    <3>2. Wrong(ws) \subseteq Wrong(words) /\ Right(ws) \subseteq Right(words)
      BY <1>e, <2>3, <3>1
    <3>3. Cardinality(Wrong(ws)) <= stats.incorrectLetters /\ Cardinality(Right(ws)) <= stats.correctWords
      BY <1>b, <3>2, TextSetsFinite, BoundKept
    <3> QED  BY <1>0, <1>b, <2>1, <2>4, <2>5, <2>6, <3>3 DEF CoverInv, CoveredBy
  <2>7. CASE ~correct
    <3>1. \A j \in 0..(CurrentWord.length - 1) :
            ws[currentWordIndex].letters[j] = -1 => CurrentWord.letters[j] = -1 \/ e = <<currentWordIndex, j>>
      BY <1>c, <2>2, <2>3
    <3> HIDE DEF e
    <3>2. Wrong(ws) \subseteq Wrong(words) \cup {e} /\ Right(ws) \subseteq Right(words)
      BY <1>d, <2>3, <3>1
    <3>3. Cardinality(Wrong(ws)) <= stats.incorrectLetters + 1
      BY <1>b, <3>2, TextSetsFinite, BoundGrows
    <3>4. Cardinality(Right(ws)) <= stats.correctWords
      BY <1>b, <3>2, TextSetsFinite, BoundKept
    <3> QED  BY <1>0, <1>b, <2>1, <2>4, <2>5, <2>7, <3>3, <3>4 DEF CoverInv, CoveredBy
  <2> QED  BY <2>6, <2>7
<1>3. CASE HandleDeleteKey
  <2>1. currentWordIndex' = currentWordIndex /\ stats' = stats
    BY <1>3 DEF HandleDeleteKey
  <2>2. CASE currentInputIndex > 0
    <3> DEFINE n == currentInputIndex - 1
               ws == WithLetter(n, 0)
    <3>1. DrawWords(ws)
      BY <1>3, <2>2 DEF HandleDeleteKey
    <3>2. n \in 0..(CurrentWord.length - 1)
      BY <1>a, <2>2
    <3> HIDE DEF n
    <3>3. /\ IsText(ws) /\ ws[currentWordIndex].length = CurrentWord.length
          /\ ws[currentWordIndex].status = CurrentWord.status
          /\ ws[currentWordIndex].letters = [CurrentWord.letters EXCEPT ![n] = 0]
          /\ \A k \in 0..WordCount : k # currentWordIndex => ws[k] = words[k]
      BY <1>a, <3>2, LetterText
    <3> HIDE DEF ws
    <3>4. \A j \in 0..(CurrentWord.length - 1) :
            ws[currentWordIndex].letters[j] = -1 => CurrentWord.letters[j] = -1
      BY <1>c, <3>2, <3>3
    <3>5. Wrong(ws) \subseteq Wrong(words) /\ Right(ws) \subseteq Right(words)
      BY <1>e, <3>3, <3>4
    <3> QED  BY <1>0, <1>b, <2>1, <3>1, <3>3, <3>5, CoverKept DEF CoverInv
  <2>3. CASE ~(currentInputIndex > 0)
    <3>1. DrawWords(words)
      BY <1>3, <2>3 DEF HandleDeleteKey
    <3> QED  BY <1>0, <1>a, <1>b, <2>1, <3>1, CoverKept DEF CoverInv
  <2> QED  BY <2>2, <2>3
<1>4. CASE FillCurrentWord
  <2>1. DrawWords(Filled) /\ currentWordIndex' = currentWordIndex /\ stats' = stats
    BY <1>4 DEF FillCurrentWord
  <2>2. /\ IsText(Filled) /\ Filled[currentWordIndex].length = CurrentWord.length
        /\ Filled[currentWordIndex].status = CurrentWord.status
        /\ Filled[currentWordIndex].letters = [j \in 0..(CurrentWord.length - 1) |-> 1]
        /\ \A k \in 0..WordCount : k # currentWordIndex => Filled[k] = words[k]
    BY <1>a, FilledText
  <2>3. \A j \in 0..(CurrentWord.length - 1) : Filled[currentWordIndex].letters[j] # -1
    BY <2>2
  <2>4. Wrong(Filled) \subseteq Wrong(words) /\ Right(Filled) \subseteq Right(words)
    BY <1>e, <2>2, <2>3
  <2> QED  BY <1>0, <1>b, <2>1, <2>2, <2>4, CoverKept DEF CoverInv
\* The word that is left is counted with its verdict.
<1>j. /\ IsText(Judged) /\ Judged[currentWordIndex].length = CurrentWord.length
      /\ Judged[currentWordIndex].status = IF IsCorrect(CurrentWord) THEN 1 ELSE -1
      /\ Judged[currentWordIndex].letters = CurrentWord.letters
      /\ \A k \in Index : k # currentWordIndex => Judged[k] = words[k]
  BY <1>a, JudgedText
<1>k. /\ CountWord.incorrectLetters = stats.incorrectLetters
      /\ CountWord.typedWords = stats.typedWords + 1
      /\ CountWord.correctWords \in Nat
      /\ CoveredBy(Judged, CountWord)
  <2>1. /\ CountWord.incorrectLetters = stats.incorrectLetters
        /\ CountWord.typedWords = stats.typedWords + 1
        /\ CountWord.correctWords =
             IF IsCorrect(CurrentWord) THEN stats.correctWords + 1 ELSE stats.correctWords
    BY <1>a, StatsCounted
  <2>2. Wrong(Judged) = Wrong(words)
    <3>1. \A k \in Index : Judged[k].length = words[k].length /\ Judged[k].letters = words[k].letters
      BY <1>j DEF CurrentWord
    <3>2. \A p \in Index \X (0..LineChars) : p[1] \in Index
      OBVIOUS
    <3> QED  BY <3>1, <3>2 DEF Wrong
  <2>3. CASE IsCorrect(CurrentWord)
    <3>1. Right(Judged) \subseteq Right(words) \cup {currentWordIndex}
      BY <1>j DEF Right
    <3>2. Cardinality(Right(Judged)) <= stats.correctWords + 1
      BY <1>b, <3>1, TextSetsFinite, BoundGrows
    <3> QED  BY <1>b, <2>1, <2>2, <2>3, <3>2 DEF CoveredBy
  <2>4. CASE ~IsCorrect(CurrentWord)
    <3>1. Right(Judged) \subseteq Right(words)
      BY <1>j, <2>4 DEF Right
    <3>2. Cardinality(Right(Judged)) <= stats.correctWords
      BY <1>b, <3>1, TextSetsFinite, BoundKept
    <3> QED  BY <1>b, <2>1, <2>2, <2>4, <3>2 DEF CoveredBy
  <2> QED  BY <2>3, <2>4
<1>5. CASE SpaceNextWord
  <2>1. DrawWords(Judged) /\ currentWordIndex' = currentWordIndex + 1 /\ stats' = CountWord
    BY <1>5 DEF SpaceNextWord
  <2>2. Wrong(words') = Wrong(Judged) /\ Right(words') = Right(Judged)
    BY <1>j, <2>1, DrawKeepsSets
  <2>3. CoveredBy(words', stats')
    BY <1>k, <2>1, <2>2 DEF CoveredBy
  <2>4. currentWordIndex' <= stats'.typedWords
    BY <1>a, <1>b, <1>k, <2>1
  <2> QED  BY <1>0, <2>3, <2>4 DEF CoverInv
<1>6. CASE SpaceScroll
  <2>1. PICK s \in Index :
           /\ s <= currentWordIndex /\ currentWordIndex \in 0..(WordCount - 2)
           /\ currentWordIndex' = currentWordIndex - s + 1
           /\ \A k \in 0..(WordCount - 2 - s) :
                /\ words'[k].length = Judged[s + k].length
                /\ words'[k].status = Judged[s + k].status
                /\ words'[k].letters = Judged[s + k].letters
           /\ \A k \in (WordCount - 1 - s)..(WordCount - 1) :
                /\ words'[k].status = 0
                /\ words'[k].letters = [j \in 0..(words'[k].length - 1) |-> 0]
           /\ IsText(words')
    BY <1>6, ScrollStep DEF CoverInv
  <2>2. stats' = CountWord
    BY <1>6 DEF SpaceScroll
  <2>3. \A k \in Index : k \in 0..(WordCount - 2 - s) \/ k \in (WordCount - 1 - s)..(WordCount - 1)
    BY <1>a, <2>1
  <2>4. \A k \in 0..(WordCount - 2 - s) : s + k \in Index
    BY <1>a, <2>1
  \* A word with a mark is one of those that were moved.
  <2>5. ASSUME NEW i \in Right(words')  PROVE s + i \in Right(Judged) /\ i \in Nat
    <3>1. i \in Index /\ words'[i].status = 1
      BY DEF Right
    <3>2. i \in 0..(WordCount - 2 - s)
      <4>1. ASSUME i \in (WordCount - 1 - s)..(WordCount - 1)  PROVE FALSE
        <5>1. words'[i].status = 0
          BY <2>1, <4>1
        <5> QED  BY <3>1, <5>1
      <4> QED  BY <2>3, <3>1, <4>1
    <3>3. s + i \in Index /\ Judged[s + i].status = 1
      BY <2>1, <2>4, <3>1, <3>2
    <3> QED  BY <1>a, <3>1, <3>3 DEF Right
  <2>6. ASSUME NEW p \in Wrong(words')
        PROVE  <<s + p[1], p[2]>> \in Wrong(Judged) /\ p[1] \in Nat /\ p = <<p[1], p[2]>>
    <3>1. /\ p[1] \in Index /\ p[2] \in 0..LineChars /\ p = <<p[1], p[2]>>
          /\ p[2] < words'[p[1]].length /\ words'[p[1]].letters[p[2]] = -1
      BY <2>6 DEF Wrong
    <3>2. p[1] \in 0..(WordCount - 2 - s)
      <4>1. ASSUME p[1] \in (WordCount - 1 - s)..(WordCount - 1)  PROVE FALSE
        <5>1. words'[p[1]].letters = [j \in 0..(words'[p[1]].length - 1) |-> 0]
          BY <2>1, <4>1
        <5>2. words'[p[1]].length \in Nat
          BY <2>1, <3>1, TextLengths, ConstantsAssumption DEF Lengths
        <5>3. p[2] \in 0..(words'[p[1]].length - 1)
          BY <3>1, <5>2, ConstantsAssumption
        <5>4. words'[p[1]].letters[p[2]] = 0
          BY <5>1, <5>3, Zenon
        <5> QED  BY <3>1, <5>4
      <4> QED  BY <2>3, <3>1, <4>1
    <3>3. s + p[1] \in Index /\ p[2] < Judged[s + p[1]].length /\ Judged[s + p[1]].letters[p[2]] = -1
      BY <2>1, <2>4, <3>1, <3>2
    <3>4. <<s + p[1], p[2]>> \in Index \X (0..LineChars)
      BY <3>1, <3>3
    <3>5. p[1] \in Nat
      BY <1>a, <3>1
    <3> QED  BY <3>1, <3>3, <3>4, <3>5 DEF Wrong
  <2>7. Cardinality(Right(words')) <= CountWord.correctWords
    <3> DEFINE f == [i \in Right(words') |-> s + i]
    <3>1. f \in [Right(words') -> Right(Judged)] /\ \A a, b \in Right(words') : f[a] = f[b] => a = b
      BY <1>a, <2>5
    <3> HIDE DEF f
    <3> QED  BY <1>k, <3>1, TextSetsFinite, BoundMapped DEF CoveredBy
  <2>8. Cardinality(Wrong(words')) <= CountWord.incorrectLetters
    <3> DEFINE f == [p \in Wrong(words') |-> <<s + p[1], p[2]>>]
    <3>1. f \in [Wrong(words') -> Wrong(Judged)]
      BY <2>6
    <3>2. ASSUME NEW a \in Wrong(words'), NEW b \in Wrong(words'), f[a] = f[b]  PROVE a = b
      <4>1. s + a[1] = s + b[1] /\ a[2] = b[2]
        BY <3>2
      <4>2. a[1] = b[1]
        <5>1. \A p \in Wrong(words') : p[1] \in Nat
          BY <2>6
        <5>2. s \in Nat
          BY <1>a
        <5> QED  BY <4>1, <5>1, <5>2
      <4> QED  BY <2>6, <4>1, <4>2
    <3> HIDE DEF f
    <3>3. CountWord.incorrectLetters \in Nat /\ Cardinality(Wrong(Judged)) <= CountWord.incorrectLetters
      BY <1>b, <1>k DEF CoveredBy
    <3> QED  BY <3>1, <3>2, <3>3, TextSetsFinite, BoundMapped
  <2>9. currentWordIndex' <= stats'.typedWords
    BY <1>a, <1>b, <1>k, <2>1, <2>2
  <2> QED  BY <1>0, <2>2, <2>7, <2>8, <2>9 DEF CoverInv, CoveredBy
<1>7. CASE UNCHANGED vars
  BY <1>0, <1>7 DEF vars, CoverInv, CoveredBy
<1> QED  BY <1>1, <1>2, <1>3, <1>4, <1>5, <1>6, <1>7 DEF Next

\* Past the end of the text, words are counted but none is marked.
LEMMA CoverStep ==
  ASSUME CoverInv, [Next]_vars
  PROVE  CoverInv'
<1>1. CASE currentWordIndex \in Index
  BY <1>1, CoverStepInText
<1>2. CASE currentWordIndex \notin Index
  <2>1. SafeInv'
    BY SafeStep DEF CoverInv
  <2>2. /\ \A i \in Index : /\ words'[i].length = words[i].length
                            /\ words'[i].status = words[i].status
                            /\ words'[i].letters = words[i].letters
        /\ \/ currentWordIndex' = currentWordIndex /\ stats' = stats
           \/ currentWordIndex' = currentWordIndex + 1 /\ stats' = CountWord
        /\ currentWordIndex \in WordCount..(WordCount + 1)
    BY <1>2, PastEnd DEF CoverInv
  <2>3. Wrong(words') = Wrong(words) /\ Right(words') = Right(words)
    <3>1. \A p \in Index \X (0..LineChars) : p[1] \in Index
      OBVIOUS
    <3> QED  BY <2>2, <3>1 DEF Wrong, Right
  <2>4. stats \in StatsType
    BY DEF CoverInv, SafeInv, TypeInv, TypeOK, StatsType
  <2>5. /\ Cardinality(Wrong(words)) \in Nat /\ Cardinality(Right(words)) \in Nat
        /\ Cardinality(Wrong(words)) <= stats.incorrectLetters
        /\ Cardinality(Right(words)) <= stats.correctWords
        /\ currentWordIndex <= stats.typedWords
    BY TextSetsFinite, FS_CardinalityType DEF CoverInv, CoveredBy
  <2>6. /\ stats.incorrectLetters \in Nat /\ stats.correctWords \in Nat /\ stats.typedWords \in Nat
        /\ CountWord.incorrectLetters = stats.incorrectLetters
        /\ CountWord.typedWords = stats.typedWords + 1
        /\ CountWord.correctWords \in {stats.correctWords, stats.correctWords + 1}
    BY <2>4, StatsCounted
  <2>7. CoveredBy(words', stats') /\ currentWordIndex' <= stats'.typedWords
    BY <2>2, <2>3, <2>5, <2>6, ConstantsAssumption DEF CoveredBy
  <2> QED  BY <2>1, <2>7 DEF CoverInv
<1> QED  BY <1>1, <1>2

\* What the statistics report is never less than what is on the screen: every wrong
\* letter and every correct word of the text was counted, and every word before the
\* cursor.
THEOREM StatisticsCoverText == Spec => []StatsCoverText
<1>1. CoverInv /\ [Next]_vars => CoverInv'
  BY CoverStep
<1>2. CoverInv => StatsCoverText
  BY DEF CoverInv, CoveredBy, Wrong, Right, StatsCoverText
<1> QED  BY <1>1, <1>2, CoverInit, PTL DEF Spec

=============================================================================

----------------------------- MODULE TypingTest -----------------------------
(***************************************************************************)
(* The typing test of one game: the text (an array of words ended by an    *)
(* empty terminator word), the cursor in it, the verdicts on letters and   *)
(* words, the layout of the text in lines, the scrolling of the text and   *)
(* the statistics of the game (proj/src/model/model.c, drawWords of        *)
(* proj/src/view/view.c).                                                  *)
(*                                                                         *)
(* Every handler that changes the text ends with drawWords, which lays the *)
(* text out again: it stores in each word the line it is on and in         *)
(* number_of_lines the index of the last line.  The handlers read those    *)
(* fields to decide when to scroll, so the layout is part of the state.    *)
(* Coordinates, colours and the caret are left out.                        *)
(***************************************************************************)
EXTENDS Integers, FiniteSets

CONSTANTS
  WordCount,   \* words of a text (wordCount, 40 in the program)
  Pool,        \* words initializeTest draws from (the first 100 of wordPool)
  RefillPool,  \* words load_new_word draws from (the first 80 of wordPool)
  NoText,      \* text of the terminator, and the empty currentInput
  Length,      \* Length[t] is the number of letters of t
  LineChars,   \* (XResolution - 2*x_margin - 1) \div 16, 46 in mode 0x14C
  MaxStars,    \* fills granted by a game (3 in setGameState)
  StaleLines,  \* what an uninitialised Word.line may hold
  MaxLetters,  \* bound on the letters typed in a game
  MaxWords     \* bound on the words left in a game

ASSUME ConstantsAssumption ==
  /\ WordCount \in Nat \ {0, 1}
  /\ RefillPool \subseteq Pool /\ NoText \notin Pool
  /\ LineChars \in Nat
  /\ MaxStars \in Nat /\ MaxLetters \in Nat /\ MaxWords \in Nat
  /\ StaleLines \subseteq Int

\* Every word of the pool has a letter and fits on a line.
ASSUME LengthAssumption ==
  Length \in [Pool -> 1..(LineChars + 1)]

\* No text fits on one line, which holds at most LineChars + 2 characters with
\* the space after its last word: 40 * 2 > 48 in the program.
ASSUME TextAssumption ==
  \A t \in Pool : WordCount * (Length[t] + 1) > LineChars + 2

VARIABLES
  words,              \* test->words, terminator included
  currentWordIndex,   \* test->currentWordIndex
  currentInputIndex,  \* test->currentInputIndex
  currentInput,       \* test->currentInput: empty, or the word a fill wrote
  number_of_lines,    \* index of the last line drawn, -1 before the first draw
  stars,              \* fills left
  stats               \* the Statistics of the game, its time excepted

vars == <<words, currentWordIndex, currentInputIndex, currentInput,
          number_of_lines, stars, stats>>

Index == 0..(WordCount - 1)

\* The fields of Statistics that count.
Counters == {"correctWords", "incorrectWords", "correctLetters", "incorrectLetters",
             "typedLetters", "typedWords"}

----------------------------------------------------------------------------
(* Words                                                                   *)

\* A word copied from the pool: no letter typed, no verdict.  The line is not
\* assigned by the code: it is whatever the local variable newWord held.
NewWord(t, line) ==
  [text |-> t, length |-> Length[t], status |-> 0,
   letters |-> [j \in 0..(Length[t] - 1) |-> 0], line |-> line]

\* The extra element after the text.
Terminator ==
  [text |-> NoText, length |-> 0, status |-> 0,
   letters |-> [j \in 0..-1 |-> 0], line |-> -1]

CurrentWord == words[currentWordIndex]

\* The text with the status of letter j of the current word set to v.
WithLetter(j, v) == [words EXCEPT ![currentWordIndex].letters[j] = v]

\* The text with every letter of the current word marked correct.
Filled == [words EXCEPT ![currentWordIndex].letters = [j \in DOMAIN @ |-> 1]]

\* handle_space_key judges a word correct when every letter of it is.
IsCorrect(w) == \A j \in 0..(w.length - 1) : w.letters[j] = 1

----------------------------------------------------------------------------
(* Layout                                                                  *)

\* Column and line of every word.  A word goes to the next line when the end
\* of the word before it plus its own length passes the right margin; the
\* space between them is not counted.
Layout(ws) ==
  LET pos[i \in Index] ==
        IF i = 0 THEN [x |-> 0, line |-> 0]
        ELSE LET prev == pos[i - 1]
                 end  == prev.x + ws[i - 1].length
             IN  IF end + ws[i].length > LineChars
                 THEN [x |-> 0, line |-> prev.line + 1]
                 ELSE [x |-> end + 1, line |-> prev.line]
  IN  pos

\* drawWords: the text ws with every line set, and number_of_lines.
DrawWords(ws) ==
  LET pos == Layout(ws)
  IN  /\ words' = [i \in 0..WordCount |->
                     IF i \in Index THEN [ws[i] EXCEPT !.line = pos[i].line] ELSE ws[i]]
      /\ number_of_lines' = pos[WordCount - 1].line

LaidOut == number_of_lines # -1

\* The words on the last line but one, which handle_space_key counts.
PenultimateLine == {i \in Index : words[i].line = number_of_lines - 1}

\* The cursor is on the last word of the last line but one.
ScrollPointCountsItself ==
  /\ CurrentWord.line = number_of_lines - 1
  /\ \A i \in PenultimateLine : i < currentWordIndex
AtScrollPoint ==
  /\ CurrentWord.line = number_of_lines - 1
  /\ \A i \in PenultimateLine : i <= currentWordIndex

----------------------------------------------------------------------------
(* Scrolling                                                               *)

\* The words shift_words_up keeps: those of the last two lines, as far as its
\* loop, whose bound is wordCount - 1, goes.
Kept == {i \in 0..(WordCount - 2) : words[i].line \in {number_of_lines - 1, number_of_lines}}

\* The k-th kept word, counted from 0.
KeptAtOffByOne(k) == CHOOSE i \in Kept :
                  Cardinality({j \in Kept : j < i}) = IF k = 0 THEN 0 ELSE k - 1
KeptAt(k) == CHOOSE i \in Kept : Cardinality({j \in Kept : j < i}) = k

\* shift_words_up on the text ws: the kept words first, then words of refill.
ShiftWordsUp(ws, refill) ==
  [k \in 0..WordCount |->
     IF k = WordCount THEN ws[k]
     ELSE IF k < Cardinality(Kept) THEN ws[KeptAt(k)]
     ELSE NewWord(refill[k], 0)]

----------------------------------------------------------------------------
(* The game                                                                *)

\* initializeTest and initializeStats, as setGameState(GAME) calls them.  The
\* line of a word is copied with the rest of newWord, whose stack slot nothing
\* writes it in: every word gets the same stale value.
Init ==
  /\ \E texts \in [Index -> Pool], stale \in StaleLines :
       words = [i \in 0..WordCount |->
                  IF i \in Index THEN NewWord(texts[i], stale) ELSE Terminator]
  /\ currentWordIndex = 0
  /\ currentInputIndex = 0
  /\ currentInput = NoText
  /\ number_of_lines = -1
  /\ stars = MaxStars
  /\ stats = [c \in Counters |-> 0]

\* Beyond the terminator the program reads memory that is not the text.
InArray == currentWordIndex <= WordCount

\* GameDrawer draws the text once, at the first timer tick of the game.
FirstDraw ==
  /\ ~LaidOut
  /\ DrawWords(words)
  /\ UNCHANGED <<currentWordIndex, currentInputIndex, currentInput, stars, stats>>

\* process_key: the next letter of the current word is typed, right or wrong.
\* A key typed after the last letter is ignored.
Count(c, d) == [stats EXCEPT ![c] = @ + 1, ![d] = @ + 1]

CountLetterAsCorrect(correct) == Count("typedLetters", "correctLetters")
CountLetter(correct) ==
  Count("typedLetters", IF correct THEN "correctLetters" ELSE "incorrectLetters")

ProcessKey(correct) ==
  /\ InArray /\ stats.typedLetters < MaxLetters
  /\ currentInputIndex < CurrentWord.length
  /\ stats' = CountLetter(correct)
  /\ DrawWords(WithLetter(currentInputIndex, IF correct THEN 1 ELSE -1))
  /\ currentInputIndex' = currentInputIndex + 1
  /\ UNCHANGED <<currentWordIndex, currentInput, stars>>

\* handle_delete_key: back over the last letter, in the current word only.
DeleteKeepsVerdict ==
  /\ InArray
  /\ IF currentInputIndex > 0
     THEN /\ currentInputIndex' = currentInputIndex - 1
          /\ DrawWords(words)
     ELSE DrawWords(words) /\ UNCHANGED currentInputIndex
  /\ UNCHANGED <<currentWordIndex, currentInput, stars, stats>>
HandleDeleteKey ==
  /\ InArray
  /\ IF currentInputIndex > 0
     THEN /\ currentInputIndex' = currentInputIndex - 1
          /\ DrawWords(WithLetter(currentInputIndex - 1, 0))
     ELSE DrawWords(words) /\ UNCHANGED currentInputIndex
  /\ UNCHANGED <<currentWordIndex, currentInput, stars, stats>>

\* fill_current_word, called when a swipe is complete and a star is left.
FillPastTheEnd ==
  /\ InArray /\ stars > 0
  /\ DrawWords(Filled)
  /\ currentInput' = CurrentWord.text
  /\ currentInputIndex' = CurrentWord.length + 1
  /\ stars' = stars - 1
  /\ UNCHANGED <<currentWordIndex, stats>>
FillCurrentWord ==
  /\ InArray /\ stars > 0
  /\ DrawWords(Filled)
  /\ currentInput' = CurrentWord.text
  /\ currentInputIndex' = CurrentWord.length
  /\ stars' = stars - 1
  /\ UNCHANGED <<currentWordIndex, stats>>

\* The common part of handle_space_key: the verdict on the current word.
CountWord ==
  Count("typedWords", IF IsCorrect(CurrentWord) THEN "correctWords" ELSE "incorrectWords")

JudgedCorrect == [words EXCEPT ![currentWordIndex].status = 1]
Judged ==
  [words EXCEPT ![currentWordIndex].status = IF IsCorrect(CurrentWord) THEN 1 ELSE -1]

\* handle_space_key inside a line: on to the next word.
SpaceNextWord ==
  /\ InArray /\ stats.typedWords < MaxWords
  /\ ~AtScrollPoint
  /\ stats' = CountWord
  /\ DrawWords(Judged)
  /\ currentWordIndex' = currentWordIndex + 1
  /\ currentInputIndex' = 0
  /\ currentInput' = NoText
  /\ UNCHANGED stars

\* handle_space_key at the end of the last line but one: the text scrolls and
\* the cursor goes to the first word after the line that was moved up.
SpaceScroll ==
  /\ InArray /\ stats.typedWords < MaxWords
  /\ AtScrollPoint
  /\ stats' = CountWord
  /\ \E refill \in [Cardinality(Kept)..(WordCount - 1) -> RefillPool] :
       DrawWords(ShiftWordsUp(Judged, refill))
  /\ currentWordIndex' = Cardinality(PenultimateLine)
  /\ currentInputIndex' = 0
  /\ currentInput' = NoText
  /\ UNCHANGED stars

Next ==
  \/ FirstDraw
  \/ \E correct \in BOOLEAN : ProcessKey(correct)
  \/ HandleDeleteKey
  \/ FillCurrentWord
  \/ SpaceNextWord
  \/ SpaceScroll

Spec == Init /\ [][Next]_vars

----------------------------------------------------------------------------
(* Properties                                                              *)

IsWord(w) ==
  /\ w = [text |-> w.text, length |-> w.length, status |-> w.status,
          letters |-> w.letters, line |-> w.line]
  /\ w.text \in Pool
  /\ w.length = Length[w.text]
  /\ w.status \in {-1, 0, 1}
  /\ w.letters \in [0..(w.length - 1) -> {-1, 0, 1}]
  /\ w.line \in Int

IsText(ws) ==
  /\ ws = [i \in 0..WordCount |-> ws[i]]
  /\ \A i \in Index : IsWord(ws[i])
  /\ \E s \in {-1, 0, 1} : ws[WordCount] = [Terminator EXCEPT !.status = s]

\* The text keeps its shape and the input index stays inside the current word
\* (or one past its end), whatever handlers run and in whatever order.
TypeOK ==
  /\ IsText(words)
  /\ currentWordIndex \in 0..(WordCount + 1)
  /\ currentInputIndex \in Nat
  /\ InArray => currentInputIndex <= CurrentWord.length
  /\ currentInput \in Pool \cup {NoText}
  /\ number_of_lines \in -1..(WordCount - 1)
  /\ stars \in 0..MaxStars
  /\ stats \in [Counters -> Nat]

\* model.h on currentWordIndex: "the index of the current word" of words, "the
\* words to be typed".  A word of the text, that is, not the terminator or the
\* memory after it.
CursorAtWord == currentWordIndex < WordCount

\* Only a text of two lines can be typed past its end.  handle_space_key does
\* nothing but increment the cursor, except at the end of the last line but one,
\* where it scrolls; as long as a text has three lines or more, whatever words
\* were drawn, the cursor meets that point before the end of the text.
CursorInText == number_of_lines # 1 => CursorAtWord

\* The letters with a verdict are those the user is past: a prefix of the
\* current word, no letter of a later word; and every word before the cursor
\* has been judged.  Delete, fill and scrolling all have to keep this.
TypedPrefix ==
  /\ \A i \in Index :
       /\ i > currentWordIndex =>
            words[i].status = 0 /\ \A j \in 0..(words[i].length - 1) : words[i].letters[j] = 0
       /\ i < currentWordIndex => words[i].status # 0
  /\ CursorAtWord =>
       /\ CurrentWord.status = 0
       /\ \A j \in 0..(CurrentWord.length - 1) :
            (CurrentWord.letters[j] # 0) <=> (j < currentInputIndex)

\* The colour a word was given when it was left agrees with its letters for as
\* long as it is on the screen.
VerdictMatchesLetters ==
  \A i \in Index :
    words[i].status # 0 => ((words[i].status = 1) <=> IsCorrect(words[i]))

\* What the statistics screen reports is never less than what the text shows:
\* wrong letters, correct words, and words left behind.
StatsCoverText ==
  /\ Cardinality({p \in Index \X (0..LineChars) :
                    p[2] < words[p[1]].length /\ words[p[1]].letters[p[2]] = -1})
       <= stats.incorrectLetters
  /\ Cardinality({i \in Index : words[i].status = 1}) <= stats.correctWords
  /\ currentWordIndex <= stats.typedWords

\* A step that leaves a word of a drawn text moves the text by some number of
\* words and nothing else: words before and after the cursor keep their order
\* and their letters, and the word typed next is the one that was shown next.
\* The last word of the array is excepted, see LastLineMovesToSecond.
MovesAsOne(last) ==
  LET d == currentWordIndex + 1 - currentWordIndex'
  IN  \A k \in Index :
        k + d \in 0..last => /\ words'[k].text = words[k + d].text
                             /\ words'[k].letters = words[k + d].letters

ScrollPreservesText ==
  [][LaidOut /\ stats'.typedWords # stats.typedWords => MovesAsOne(WordCount - 2)]_vars

\* model.h on shift_words_up: "Moves the penultimate line to first line, last
\* line to second and loads new words".  All of the last line moves.
LastLineMovesToSecond ==
  [][LaidOut /\ stats'.typedWords # stats.typedWords => MovesAsOne(WordCount - 1)]_vars

=============================================================================

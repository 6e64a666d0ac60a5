\* Five words of one or two letters on lines of five characters: texts of two and
\* of three lines.  A text of two lines can be typed past its terminator, and there
\* the model stops.
SPECIFICATION Spec
CONSTANTS
  WordCount = 5
  Pool = {"A", "TO"}
  RefillPool = {"A", "TO"}
  NoText = NoText
  Length <- MCLength
  LineChars = 4
  MaxStars = 1
  StaleLines <- MCStaleLines
  MaxLetters = 2
  MaxWords = 7
INVARIANTS TypeOK CursorInText TypedPrefix VerdictMatchesLetters StatsCoverText
PROPERTIES ScrollPreservesText
CHECK_DEADLOCK FALSE

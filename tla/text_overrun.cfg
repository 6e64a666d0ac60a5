\* Five words of one or two letters on lines of five characters, as in
\* typing_test.cfg: "A A A" and "A A" are a text of two lines.
SPECIFICATION Spec
CONSTANTS
  WordCount = 5
  Pool = {"A", "TO"}
  RefillPool = {"A", "TO"}
  NoText = NoText
  Length <- MCLength
  LineChars = 4
  MaxStars = 1
  StaleLines <- MCStaleLines
  MaxLetters = 1
  MaxWords = 5
INVARIANTS CursorAtWord
CHECK_DEADLOCK FALSE

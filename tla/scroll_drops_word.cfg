\* Five words of one or two letters on lines of three characters: three lines or more.
SPECIFICATION Spec
CONSTANTS
  WordCount = 5
  Pool = {"A", "TO"}
  RefillPool = {"A", "TO"}
  NoText = NoText
  Length <- MCLength
  LineChars = 2
  MaxStars = 1
  StaleLines <- MCStaleLines
  MaxLetters = 1
  MaxWords = 4
PROPERTIES LastLineMovesToSecond

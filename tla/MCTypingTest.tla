---------------------------- MODULE MCTypingTest ----------------------------
(* Instances of TypingTest for TLC: words of one and of two letters.       *)
EXTENDS TypingTest

MCLength == [t \in Pool |-> IF t = "TO" THEN 2 ELSE 1]
MCStaleLines == {-2, -1, 0}

=============================================================================

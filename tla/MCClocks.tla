------------------------------ MODULE MCClocks ------------------------------
(***************************************************************************)
(* Values of constants for the model checker: a clock with minutes of      *)
(* twelve seconds, and all other fields of two values.                     *)
(***************************************************************************)
EXTENDS Clocks

MCFirst == <<0, 0, 0, 1, 1, 0>>
MCLast  == <<11, 1, 1, 2, 2, 1>>

=============================================================================

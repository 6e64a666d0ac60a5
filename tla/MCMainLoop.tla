----------------------------- MODULE MCMainLoop -----------------------------
(* Instances of MainLoop for TLC.                                          *)
EXTENDS MainLoop

MCDeltas == {-1, 1}

=============================================================================

------------------------------ MODULE MCClock -------------------------------
(* Instances of Clock for TLC.                                             *)
EXTENDS Clock

CONSTANTS w1, w2

TwoWorkers == {w1, w2}

=============================================================================

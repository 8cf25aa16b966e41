------------------------------ MODULE MCLogger ------------------------------
(* An instance of Logger for TLC. *)
EXTENDS Logger

CONSTANTS t1, t2, t3, d1, d2

ThreeThreads == {t1, t2, t3}
TwoDevices == {d1, d2}
OneDevice == {d2}

=============================================================================

----------------------------- MODULE MCSendFile -----------------------------
(* Instances of SendFile for TLC.                                          *)
EXTENDS SendFile

SizesUpTo7 == 0..7

=============================================================================

----------------------------- MODULE MCService ------------------------------
(* Small instances of Service for TLC; the .cfg files choose the size, the *)
(* calls the users make and what closing a listener does.                  *)
EXTENDS Service, TLC

CONSTANTS u1, u2, c1, c2, r1

OneUser == {u1}
TwoUsers == {u1, u2}
OneConn == {c1}
TwoConns == {c1, c2}
OneResp == {r1}
NoResps == {}

NoPorts == {}
Ports == {0, 65616}
NoThreadArgs == {}
ThreadCounts == {0, 2}
Either == {TRUE, FALSE}
ThreadOnly == {FALSE}

(* Users, clients and responders are interchangeable; for safety only.     *)
Symmetry == Permutations({u1, u2}) \cup Permutations({c1, c2})
=============================================================================

------------------------------ MODULE Reception ------------------------------
(***************************************************************************)
(* What the server promises its clients, without threads, locks, queues or *)
(* sockets: a desk that opens, shuts, sees to whom it has admitted and     *)
(* closes.  Service.tla implements it.                                     *)
(***************************************************************************)

CONSTANT Guests     \* the clients

VARIABLES
    desk,   \* "none", "shut" (there, but taking nobody), "open" or "closing"
    guest   \* each guest is "away", "waiting", "admitted" or "served"

vars == <<desk, guest>>

Init ==
    /\ desk = "none"
    /\ guest = [g \in Guests |-> "away"]

In(s) == {g \in Guests : guest[g] = s}

(* Those of S who are waiting go away without having been admitted.        *)
TurnedAway(S) == [g \in Guests |-> IF g \in S THEN "away" ELSE guest[g]]

(* run: the desk is there before it opens, and may never open.             *)
SetUp ==
    /\ desk = "none"
    /\ desk' = "shut"
    /\ UNCHANGED guest

Open ==
    /\ desk = "shut"
    /\ desk' = "open"
    /\ UNCHANGED guest

(* stop: whoever waits may be turned away from now on.                     *)
Shut(S) ==
    /\ desk \in {"open", "shut"}
    /\ S \subseteq In("waiting")
    /\ desk' = "shut"
    /\ guest' = TurnedAway(S)

(* Nobody waits any more; those who were admitted are seen to.             *)
BeginClosing ==
    /\ desk \in {"open", "shut"}
    /\ In("waiting") = {}
    /\ desk' = "closing"
    /\ UNCHANGED guest

Closed ==
    /\ desk = "closing"
    /\ In("admitted") \cup In("served") = {}
    /\ desk' = "none"
    /\ UNCHANGED guest

(* On Linux a client can arrive at a desk that has just shut.              *)
Arrive(g) ==
    /\ desk \in {"open", "shut"}
    /\ guest[g] = "away"
    /\ guest' = [guest EXCEPT ![g] = "waiting"]
    /\ UNCHANGED desk

(* One is admitted; at a shut desk the others may be turned away with it.  *)
Admit(g, S) ==
    /\ desk \in {"open", "shut"}
    /\ guest[g] = "waiting"
    /\ S \subseteq In("waiting") \ {g}
    /\ desk = "open" => S = {}
    /\ guest' = [TurnedAway(S) EXCEPT ![g] = "admitted"]
    /\ UNCHANGED desk

(* The one way in which an open desk loses a guest: descriptor 0.          *)
Lose(g, S) ==
    /\ desk \in {"open", "shut"}
    /\ guest[g] = "waiting"
    /\ S \subseteq In("waiting") \ {g}
    /\ desk = "open" => S = {}
    /\ guest' = TurnedAway(S \cup {g})
    /\ UNCHANGED desk

Serve(g) ==
    /\ desk # "none"
    /\ guest[g] = "admitted"
    /\ guest' = [guest EXCEPT ![g] = "served"]
    /\ UNCHANGED desk

Leave(g) ==
    /\ guest[g] = "served"
    /\ guest' = [guest EXCEPT ![g] = "away"]
    /\ UNCHANGED desk

Next ==
    \/ SetUp
    \/ Open
    \/ \E S \in SUBSET Guests : Shut(S)
    \/ BeginClosing
    \/ Closed
    \/ \E g \in Guests : Arrive(g) \/ Serve(g) \/ Leave(g)
    \/ \E g \in Guests, S \in SUBSET Guests : Admit(g, S) \/ Lose(g, S)

Spec == Init /\ [][Next]_vars

=============================================================================

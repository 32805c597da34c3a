---------------------------- MODULE MCAccountPage ----------------------------
(* The owner of the page and one other account. *)
EXTENDS AccountPage

MCIds == {"me", "other"}
MCFirstName == [i \in MCIds |-> IF i = "me" THEN "mine" ELSE "theirs"]
=============================================================================

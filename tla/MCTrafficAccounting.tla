------------------------ MODULE MCTrafficAccounting ------------------------
(* One raw and one nginx rule, a home group and one other served group. *)
EXTENDS TrafficAccounting
=============================================================================

-------------------------- MODULE MCNodeCredential --------------------------
(***************************************************************************)
(* Instance: two hosts with the same identity (the bootstrap command was   *)
(* run on both), one with the two-step helper and one with the migrate     *)
(* script, and one claim after another.                                    *)
(***************************************************************************)
EXTENDS NodeCredential

CONSTANTS n1, m1, m2, c1, c2

\* Claim ids are fresh random values: the first one to be created is c1.
InOrder == claims[c2] # None => claims[c1] # None

MCNodeOf == [m \in Machines |-> n1]
=============================================================================

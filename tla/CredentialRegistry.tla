------------------------- MODULE CredentialRegistry -------------------------
(***************************************************************************)
(* What the credential service of the panel promises for every identity:   *)
(* at most one credential is ever issued, to one host, and an identity     *)
(* that was closed is never opened again.  A credential is usable while    *)
(* its identity is not closed.                                             *)
(***************************************************************************)
CONSTANTS Nodes, Credentials

VARIABLES issued,  \* the credentials ever issued for an identity
          closed   \* retired identities

Init == issued = [n \in Nodes |-> {}] /\ closed = {}

Issue(n, k) ==
  /\ issued[n] = {}
  /\ issued' = [issued EXCEPT ![n] = {k}]
  /\ UNCHANGED closed

Retire(n) ==
  /\ closed' = closed \cup {n}
  /\ UNCHANGED issued

Next == \E n \in Nodes : Retire(n) \/ \E k \in Credentials : Issue(n, k)

Spec == Init /\ [][Next]_<<issued, closed>>
=============================================================================

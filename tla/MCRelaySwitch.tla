---------------------------- MODULE MCRelaySwitch ----------------------------
(***************************************************************************)
(* Instance: a group of two nodes and two rules.  It was moved to Failover *)
(* and its Normal default to the other node, and one rule is new; or it is *)
(* in Normal mode, with one rule paused and DNSMgr switched off.           *)
(***************************************************************************)
EXTENDS RelaySwitch

CONSTANTS n1, n2, a1, a2

MCInit ==
  /\ addr = [n \in Nodes |-> IF n = n1 THEN a1 ELSE a2]
  /\ \/ Running("Failover", n1, n2, Rules, {2}, TRUE)
     \/ Running("Normal", n1, n1, {1}, {}, FALSE)

MCSpec == MCInit /\ [][Next]_vars /\ WF_vars(Worker \/ Locked)
=============================================================================

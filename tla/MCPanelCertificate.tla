-------------------------- MODULE MCPanelCertificate --------------------------
(***************************************************************************)
(* Instance: a legacy certificate, two renewals, one manifest at a time.   *)
(***************************************************************************)
EXTENDS PanelCertificate

CONSTANTS r1
=============================================================================

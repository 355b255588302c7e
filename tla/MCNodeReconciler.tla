-------------------------- MODULE MCNodeReconciler --------------------------
(***************************************************************************)
(* Instance: two rules and two server names.  The published configurations *)
(* move a rule between a raw listener and server names, exchange a name    *)
(* between rules, take a raw listener away and omit a site that a listener *)
(* requires.                                                               *)
(***************************************************************************)
EXTENDS NodeReconciler

CONSTANTS r1, r2, s1, s2, raw1

MCRules == {r1, r2}
MCSnis  == {s1, s2}
MCRaws  == {raw1}

C(a, b, sites) == [listen |-> [r \in MCRules |-> IF r = r1 THEN a ELSE b],
                   sites |-> sites]

FirstName  == C(s1, raw1, {s1})
OtherName  == C(s2, raw1, {s2})
OneRaw     == C(raw1, Off, {})
BothNames  == C(s2, s1, {s1, s2})
NoSite     == C(s1, Off, {})

MCConfigs == {FirstName, OtherName, OneRaw, BothNames, NoSite}
=============================================================================

-------------------------- MODULE MCConfigRevision --------------------------
(***************************************************************************)
(* Instance: a node of group "home" with a binding to another group.  The  *)
(* concrete candidates differ from the Home-only one in exactly one        *)
(* attribute each: the owner, the group membership alone, or everything.   *)
(***************************************************************************)
EXTENDS ConfigRevision, TLC

\* Rule 1 belongs to the home group, rule 2 to the bound one.
HomeRules  == 1 :> "home"
BoundRules == 1 :> "home" @@ 2 :> "bound"
OwnedBy(u) == 1 :> u
BothOwned  == 1 :> "u1" @@ 2 :> "u1"

MCFingerprints == {"f1", "f2"}
MCRuleSources  == {HomeRules, BoundRules}
MCRuleOwners   == {OwnedBy("u1"), OwnedBy("u2"), BothOwned}
MCSourceGroups == {"h", "h_b"}

Id(f, s, o, g) == [fingerprint |-> f, sources |-> s, owners |-> o, groups |-> g]

HomeOnly   == Id("f1", HomeRules, OwnedBy("u1"), "h")
NewOwner   == Id("f1", HomeRules, OwnedBy("u2"), "h")
ZeroRule   == Id("f1", HomeRules, OwnedBy("u1"), "h_b")
Bound      == Id("f2", BoundRules, BothOwned, "h_b")

MCCandidates == [ns \in {"concrete", "legacy"} |->
                   IF ns = "legacy" THEN {HomeOnly, NewOwner}
                   ELSE {HomeOnly, NewOwner, ZeroRule, Bound}]
=============================================================================

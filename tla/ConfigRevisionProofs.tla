------------------------ MODULE ConfigRevisionProofs ------------------------
(***************************************************************************)
(* Proofs about the revision planner, for every set of identities, every   *)
(* number of revisions and every length of the request queue.              *)
(*                                                                         *)
(* The safety properties are not inductive: that an identity owns its      *)
(* number rests on what PlanConfigRevision computed some steps before the  *)
(* commit.  IInv adds what links the two: the persisted keys are the       *)
(* newest exposed snapshots, the plan made under the build lock is still   *)
(* the one that would be made now, and the attribution writes precede the  *)
(* revision key.                                                           *)
(***************************************************************************)
EXTENDS ConfigRevision, TLAPS

\* The plan of a build: positive, at most one above the highest persisted
\* revision, and an already exposed number only for its own identity.
LEMMA PlanIsFresh ==
  ASSUME TypeOK, PersistedIsNewest, OneIdentityPerRevision,
         NEW ns \in Namespaces, NEW id \in Identity
  PROVE  LET r == PlanConfigRevision(ns, id)
         IN  /\ r \in Nat \ {0}
             /\ r >= Highest
             /\ r <= Highest + 1
             /\ \A d \in exposed : d.rev <= r
             /\ \A d \in exposed : d.rev = r => d.id = id
<1> DEFINE r == PlanConfigRevision(ns, id)
<1>1. \A n \in Namespaces : PersistedRev(n) \in 0..MaxRev
  BY RevAssumption DEF TypeOK, PersistedRev, Revisions
<1>2. /\ Highest \in 0..MaxRev
      /\ \A n \in Namespaces : PersistedRev(n) <= Highest
      /\ \E n \in Namespaces : PersistedRev(n) = Highest
  BY <1>1, RevAssumption DEF Highest, Namespaces
<1>3. \A d \in exposed : d.ns \in Namespaces /\ d.rev \in Revisions /\ d.id \in Identity
  BY DEF TypeOK, Snapshot
<1>4. \A d \in exposed : d.rev <= Highest
  BY <1>1, <1>2, <1>3, RevAssumption DEF PersistedIsNewest, Revisions
<1>5. r \in Nat \ {0} /\ r >= Highest /\ r <= Highest + 1
  BY <1>2, RevAssumption DEF PlanConfigRevision
<1>6. \A d \in exposed : d.rev <= r
  BY <1>2, <1>3, <1>4, <1>5, RevAssumption DEF Revisions
<1>7. ASSUME NEW d \in exposed, d.rev = r
      PROVE  d.id = id
  <2>1. r = Highest
    BY <1>2, <1>4, <1>5, <1>7, RevAssumption
  <2>2. \A n \in Namespaces :
          PersistedRev(n) = Highest => MatchesRevisionIdentity(persisted[n], id)
    BY <2>1, <1>2, RevAssumption DEF PlanConfigRevision
  <2>3. PICK n \in Namespaces : PersistedRev(n) = Highest
    BY <1>2
  <2>4. persisted[n] # None /\ persisted[n].rev = r
    BY <2>1, <2>3, <1>5 DEF PersistedRev
  <2>5. persisted[n].id \in Identity
    BY <2>4 DEF TypeOK
  <2>6. persisted[n].id = id
    BY <2>2, <2>3, <2>5 DEF MatchesRevisionIdentity, Identity
  <2>7. [ns |-> n, rev |-> r, id |-> id] \in exposed
    BY <2>4, <2>6 DEF PersistedIsNewest
  <2>8. QED
    BY <2>7, <1>7 DEF OneIdentityPerRevision
<1>8. QED
  BY <1>5, <1>6, <1>7

LEMMA InitIInv == Init => IInv
<1> SUFFICES ASSUME Init PROVE IInv
  OBVIOUS
<1>1. TypeOK
  <2>1. waiting \in Seq(Namespaces)
    BY DEF Init
  <2>2. lastRev \in 0..MaxRev
    BY RevAssumption DEF Init
  <2>3. QED
    BY <2>1, <2>2 DEF Init, TypeOK
<1>2. PersistedIsNewest /\ OneIdentityPerRevision /\ AttributionOfExposed
  BY DEF Init, PersistedIsNewest, OneIdentityPerRevision, AttributionOfExposed
<1>3. LastIsHighest
  BY DEF Init, LastIsHighest, Highest, PersistedRev, Namespaces
<1>4. PlanStillCurrent /\ BuildProgress /\ LegacyWritesNoMap
  BY DEF Init, PlanStillCurrent, BuildProgress, LegacyWritesNoMap
<1>5. NoGaps
  BY DEF Init, NoGaps
<1>6. QED
  BY <1>1, <1>2, <1>3, <1>4, <1>5 DEF IInv

LEMMA TypeStep == TypeOK /\ PersistedIsNewest /\ OneIdentityPerRevision /\ [Next]_vars => TypeOK'
<1> SUFFICES ASSUME TypeOK, PersistedIsNewest, OneIdentityPerRevision, [Next]_vars
             PROVE  TypeOK'
  OBVIOUS
<1> USE RevAssumption
<1>1. ASSUME NEW ns \in Namespaces, Admit(ns) PROVE TypeOK'
  BY <1>1 DEF Admit, TypeOK
<1>2. ASSUME NEW id \in Identity, Plan(id) PROVE TypeOK'
  <2>1. Head(waiting) \in Namespaces /\ Tail(waiting) \in Seq(Namespaces)
    BY <1>2 DEF Plan, TypeOK
  <2>2. PlanConfigRevision(Head(waiting), id) \in Revisions
    BY <1>2, <2>1, PlanIsFresh DEF Plan, Revisions
  <2>3. build' \in [stage : Stages, snap : Snapshot]
    BY <1>2, <2>1, <2>2 DEF Plan, Stages, Snapshot
  <2>4. QED
    BY <1>2, <2>1, <2>3 DEF Plan, TypeOK
<1>3. ASSUME PlanFails PROVE TypeOK'
  BY <1>3 DEF PlanFails, TypeOK
<1>4. ASSUME build # None
      PROVE  /\ build \in [stage : Stages, snap : Snapshot]
             /\ build.snap \in Snapshot
             /\ build.snap.ns \in Namespaces
             /\ build.snap.rev \in Revisions
             /\ build.snap.id \in Identity
             /\ build.snap.id.sources \in RuleSources
             /\ build.snap.id.owners \in RuleOwners
  <2>1. build \in [stage : Stages, snap : Snapshot]
    BY <1>4 DEF TypeOK
  <2>2. build.snap \in Snapshot
    BY <2>1
  <2>3. build.snap.id \in Identity /\ build.snap.ns \in Namespaces /\ build.snap.rev \in Revisions
    BY <2>2 DEF Snapshot
  <2>4. QED
    BY <2>1, <2>2, <2>3 DEF Identity
<1>5. ASSUME WriteSources PROVE TypeOK'
  <2>1. build' \in [stage : Stages, snap : Snapshot]
    BY <1>4, <1>5 DEF WriteSources, Stages
  <2>2. ruleSources' \in [Revisions -> RuleSources \cup {None}]
    BY <1>4, <1>5 DEF WriteSources, TypeOK
  <2>3. QED
    BY <1>5, <2>1, <2>2 DEF WriteSources, TypeOK
<1>6. ASSUME WriteOwners PROVE TypeOK'
  <2>1. build' \in [stage : Stages, snap : Snapshot]
    BY <1>4, <1>6 DEF WriteOwners, Stages
  <2>2. ruleOwners' \in [Revisions -> RuleOwners \cup {None}]
    BY <1>4, <1>6 DEF WriteOwners, TypeOK
  <2>3. QED
    BY <1>6, <2>1, <2>2 DEF WriteOwners, TypeOK
<1>7. ASSUME CommitRevision PROVE TypeOK'
  <2>1. persisted' \in [Namespaces -> [rev : Revisions, id : Identity] \cup {None}]
    BY <1>4, <1>7 DEF CommitRevision, TypeOK
  <2>2. exposed' \subseteq Snapshot /\ lastRev' \in 0..MaxRev
    BY <1>4, <1>7 DEF CommitRevision, TypeOK, Revisions
  <2>3. QED
    BY <1>7, <2>1, <2>2 DEF CommitRevision, TypeOK
<1>8. ASSUME AbortBuild PROVE TypeOK'
  <2>1. waiting' \in Seq(Namespaces)
    <3>1. << >> \in Seq(Namespaces) /\ waiting \in Seq(Namespaces)
      BY DEF TypeOK
    <3>2. QED
      BY <1>8, <3>1 DEF AbortBuild
  <2>2. QED
    BY <1>8, <2>1 DEF AbortBuild, TypeOK
<1>9. ASSUME CompleteMigration PROVE TypeOK'
  BY <1>9 DEF CompleteMigration, TypeOK
<1>10. CASE UNCHANGED vars
  BY <1>10 DEF vars, TypeOK
<1>11. QED
  BY <1>1, <1>2, <1>3, <1>5, <1>6, <1>7, <1>8, <1>9, <1>10 DEF Next

\* The conjuncts about the log only depend on the persisted keys, the history
\* and the attribution of exposed revisions.
LEMMA LogUntouched ==
  ASSUME PersistedIsNewest, LastIsHighest, OneIdentityPerRevision, NoGaps,
         UNCHANGED <<persisted, exposed, lastRev>>
  PROVE  /\ PersistedIsNewest' /\ LastIsHighest' /\ OneIdentityPerRevision' /\ NoGaps'
         /\ Highest' = Highest
         /\ \A ns, id : PlanConfigRevision(ns, id)' = PlanConfigRevision(ns, id)
  BY DEF PersistedIsNewest, LastIsHighest, OneIdentityPerRevision, NoGaps, Highest,
         PersistedRev, PlanConfigRevision, MatchesRevisionIdentity

\* A step that writes neither persisted keys nor attribution nor the build.
LEMMA IdleStep ==
  ASSUME IInv, TypeOK',
         UNCHANGED <<persisted, exposed, lastRev, ruleSources, ruleOwners>>,
         build' = build \/ build' = None
  PROVE  IInv'
<1>1. PersistedIsNewest' /\ LastIsHighest' /\ OneIdentityPerRevision' /\ NoGaps'
  BY LogUntouched DEF IInv
<1>2. \A ns, id : PlanConfigRevision(ns, id)' = PlanConfigRevision(ns, id)
  BY LogUntouched DEF IInv
<1>3. PlanStillCurrent'
  BY <1>2 DEF PlanStillCurrent, IInv
<1>4. AttributionOfExposed' /\ BuildProgress' /\ LegacyWritesNoMap'
  BY DEF AttributionOfExposed, BuildProgress, LegacyWritesNoMap, IInv
<1>5. QED
  BY <1>1, <1>3, <1>4 DEF IInv

\* Writing the attribution of the plan's number cannot disturb an exposed
\* revision: either nothing was exposed under the number, or the same identity.
LEMMA AttributionWrite ==
  ASSUME IInv, TypeOK', build # None, build' # None,
         WriteSources \/ WriteOwners
  PROVE  IInv'
<1>1. UNCHANGED <<persisted, exposed, lastRev>> /\ build'.snap = build.snap
  BY DEF WriteSources, WriteOwners, IInv, TypeOK, Snapshot
<1>2. PersistedIsNewest' /\ LastIsHighest' /\ OneIdentityPerRevision' /\ NoGaps'
  BY <1>1, LogUntouched DEF IInv
<1>3. \A ns, id : PlanConfigRevision(ns, id)' = PlanConfigRevision(ns, id)
  BY <1>1, LogUntouched DEF IInv
<1>4. PlanStillCurrent'
  BY <1>1, <1>3 DEF PlanStillCurrent, IInv
<1>5. /\ build.snap \in Snapshot
      /\ build.snap.rev \in Revisions
      /\ build.snap.ns \in Namespaces
      /\ build.snap.id \in Identity
  BY DEF IInv, TypeOK, Snapshot
<1>6. build.snap.ns = "concrete"
  BY <1>5 DEF IInv, LegacyWritesNoMap, WriteSources, WriteOwners, Namespaces
<1>7. \A d \in exposed : d.rev = build.snap.rev => d.id = build.snap.id
  BY <1>5, PlanIsFresh DEF IInv, PlanStillCurrent
<1>8. \A d \in exposed : d.rev \in Revisions
  BY DEF IInv, TypeOK, Snapshot
<1>9. AttributionOfExposed'
  BY <1>1, <1>5, <1>7, <1>8 DEF AttributionOfExposed, WriteSources, WriteOwners, IInv, TypeOK
<1>10. BuildProgress'
  <2>1. CASE WriteSources
    BY <1>5, <2>1 DEF BuildProgress, WriteSources, IInv, TypeOK
  <2>2. CASE WriteOwners
    BY <1>5, <1>6, <2>2 DEF BuildProgress, WriteOwners, IInv, TypeOK
  <2>3. QED
    BY <2>1, <2>2
<1>11. LegacyWritesNoMap'
  BY <1>1, <1>6 DEF LegacyWritesNoMap
<1>12. QED
  BY <1>2, <1>4, <1>9, <1>10, <1>11 DEF IInv

\* The commit: the planned number is fresh or already owned by this identity.
LEMMA CommitStep == ASSUME IInv, TypeOK', CommitRevision PROVE IInv'
<1>0. PICK s \in Snapshot : s = build.snap
  BY DEF CommitRevision, IInv, TypeOK
<1>1. /\ s.rev \in Revisions /\ s.ns \in Namespaces /\ s.id \in Identity
  BY DEF Snapshot
<1>2. s = [ns |-> s.ns, rev |-> s.rev, id |-> s.id]
  BY <1>1 DEF Snapshot
<1>3. /\ s.rev >= Highest /\ s.rev <= Highest + 1 /\ s.rev \in Nat \ {0}
      /\ \A d \in exposed : d.rev <= s.rev
      /\ \A d \in exposed : d.rev = s.rev => d.id = s.id
  BY <1>0, <1>1, PlanIsFresh DEF IInv, PlanStillCurrent, CommitRevision
<1>4. /\ persisted' = [persisted EXCEPT ![s.ns] = [rev |-> s.rev, id |-> s.id]]
      /\ exposed' = exposed \cup {s}
      /\ lastRev' = s.rev
      /\ build' = None
      /\ UNCHANGED <<ruleSources, ruleOwners>>
  BY <1>0 DEF CommitRevision
<1>5. /\ persisted'[s.ns] = [rev |-> s.rev, id |-> s.id]
      /\ \A n \in Namespaces : n # s.ns => persisted'[n] = persisted[n]
  BY <1>1, <1>4 DEF IInv, TypeOK
<1>6. /\ PersistedRev(s.ns)' = s.rev
      /\ \A n \in Namespaces : n # s.ns => PersistedRev(n)' = PersistedRev(n)
  BY <1>1, <1>5, NoneAssumption DEF PersistedRev
<1>7. \A n \in Namespaces : PersistedRev(n) \in 0..MaxRev
  BY RevAssumption DEF IInv, TypeOK, PersistedRev, Revisions
<1>8. PersistedIsNewest'
  <2>1. ASSUME NEW n \in Namespaces, persisted'[n] # None
        PROVE  [ns |-> n, rev |-> persisted'[n].rev, id |-> persisted'[n].id] \in exposed'
    BY <1>2, <1>4, <1>5, <2>1 DEF IInv, PersistedIsNewest
  <2>2. ASSUME NEW d \in exposed' PROVE d.rev <= PersistedRev(d.ns)'
    <3>1. CASE d = s
      BY <3>1, <1>3, <1>6
    <3>2. CASE d \in exposed
      <4>1. d.ns \in Namespaces /\ d.rev <= PersistedRev(d.ns)
        BY <3>2 DEF IInv, TypeOK, Snapshot, PersistedIsNewest
      <4>2. QED
        BY <3>2, <4>1, <1>3, <1>6
    <3>3. QED
      BY <1>4, <3>1, <3>2
  <2>3. QED
    BY <2>1, <2>2 DEF PersistedIsNewest
<1>9. LastIsHighest'
  BY <1>1, <1>3, <1>4, <1>6, <1>7, RevAssumption DEF LastIsHighest, Highest, Namespaces
<1>10. PlanStillCurrent' /\ BuildProgress' /\ LegacyWritesNoMap'
  BY <1>4 DEF PlanStillCurrent, BuildProgress, LegacyWritesNoMap
<1>11. OneIdentityPerRevision'
  BY <1>3, <1>4 DEF IInv, OneIdentityPerRevision
<1>12. AttributionOfExposed'
  BY <1>0, <1>4 DEF IInv, AttributionOfExposed, BuildProgress, CommitRevision, LastStage
<1>13. NoGaps'
  <2> SUFFICES ASSUME NEW r \in 1..s.rev PROVE \E d \in exposed' : d.rev = r
    BY <1>4 DEF NoGaps
  <2>2. CASE r = s.rev
    BY <2>2, <1>4
  <2>3. CASE r # s.rev
    <3>1. r \in 1..lastRev
      BY <2>3, <1>1, <1>3, <1>7, RevAssumption
      DEF IInv, LastIsHighest, TypeOK, Highest, Namespaces
    <3>2. QED
      BY <3>1, <1>4 DEF IInv, NoGaps
  <2>4. QED
    BY <2>2, <2>3
<1>14. QED
  BY <1>8, <1>9, <1>10, <1>11, <1>12, <1>13 DEF IInv

LEMMA NextIInv == IInv /\ [Next]_vars => IInv'
<1> SUFFICES ASSUME IInv, [Next]_vars PROVE IInv'
  OBVIOUS
<1>1. TypeOK'
  BY TypeStep DEF IInv
<1>2. ASSUME NEW ns \in Namespaces, Admit(ns) PROVE IInv'
  BY <1>1, <1>2, IdleStep DEF Admit
<1>3. ASSUME NEW id \in Identity, Plan(id) PROVE IInv'
  <2>1. /\ UNCHANGED <<persisted, exposed, lastRev, ruleSources, ruleOwners>>
        /\ build' = [stage |-> IF Head(waiting) = "concrete" THEN "planned" ELSE "owned",
                     snap  |-> [ns  |-> Head(waiting),
                                rev |-> PlanConfigRevision(Head(waiting), id),
                                id  |-> id]]
        /\ Head(waiting) \in Namespaces
    BY <1>3 DEF Plan, IInv, TypeOK
  <2>2. PersistedIsNewest' /\ LastIsHighest' /\ OneIdentityPerRevision' /\ NoGaps'
    BY <2>1, LogUntouched DEF IInv
  <2>3. \A n, i : PlanConfigRevision(n, i)' = PlanConfigRevision(n, i)
    BY <2>1, LogUntouched DEF IInv
  <2>4. PlanStillCurrent'
    BY <2>1, <2>3 DEF PlanStillCurrent
  <2>5. AttributionOfExposed' /\ BuildProgress' /\ LegacyWritesNoMap'
    BY <2>1 DEF AttributionOfExposed, BuildProgress, LegacyWritesNoMap, IInv, Namespaces
  <2>6. QED
    BY <1>1, <2>2, <2>4, <2>5 DEF IInv
<1>4. CASE PlanFails
  BY <1>1, <1>4, IdleStep DEF PlanFails
<1>5. CASE WriteSources
  <2>1. build # None /\ build' # None
    <3>1. build' \in [stage : Stages, snap : Snapshot]
      BY <1>5 DEF WriteSources, IInv, TypeOK, Stages
    <3>2. QED
      BY <1>5, <3>1, NoneAssumption DEF WriteSources
  <2>2. QED
    BY <1>1, <1>5, <2>1, AttributionWrite
<1>6. CASE WriteOwners
  <2>1. build # None /\ build' # None
    <3>1. build' \in [stage : Stages, snap : Snapshot]
      BY <1>6 DEF WriteOwners, IInv, TypeOK, Stages
    <3>2. QED
      BY <1>6, <3>1, NoneAssumption DEF WriteOwners
  <2>2. QED
    BY <1>1, <1>6, <2>1, AttributionWrite
<1>7. CASE CommitRevision
  BY <1>1, <1>7, CommitStep
<1>8. CASE AbortBuild
  BY <1>1, <1>8, IdleStep DEF AbortBuild
<1>9. CASE CompleteMigration
  BY <1>1, <1>9, IdleStep DEF CompleteMigration
<1>10. CASE UNCHANGED vars
  BY <1>1, <1>10, IdleStep DEF vars
<1>11. QED
  BY <1>2, <1>3, <1>4, <1>5, <1>6, <1>7, <1>8, <1>9, <1>10 DEF Next

THEOREM Invariance == Spec => []IInv
<1>1. QED
  BY InitIInv, NextIInv, PTL DEF Spec

\* Every variable keeps its type: in particular no build ever plans a revision
\* past the last one.
THEOREM TypeCorrect == Spec => []TypeOK
<1>1. IInv => TypeOK
  BY DEF IInv
<1>2. QED
  BY Invariance, <1>1, PTL

\* One revision number never names two configurations, however the two
\* namespaces, aborted builds and repeated requests interleave.
THEOREM RevisionIdentity == Spec => []OneIdentityPerRevision
<1>1. IInv => OneIdentityPerRevision
  BY DEF IInv
<1>2. QED
  BY Invariance, <1>1, PTL

\* The attribution stored for a revision the node may hold is the one it was
\* built with, at every later moment.
THEOREM AttributionIsDurable == Spec => []AttributionOfExposed
<1>1. IInv => AttributionOfExposed
  BY DEF IInv
<1>2. QED
  BY Invariance, <1>1, PTL

\* What a delivered revision counts is settled by the attribution it was built
\* with, or Home-only, except by the leftover map of an aborted build.
THEOREM TrafficSettles == Spec => []ServedTrafficSettles
<1>1. IInv => ServedTrafficSettles
  <2> SUFFICES ASSUME IInv, NEW d \in exposed, NEW rule \in DOMAIN d.id.sources
               PROVE  \/ AccountingFor(d.rev, rule) =
                           [by |-> "map", group |-> d.id.sources[rule],
                            owner |-> d.id.owners[rule]]
                      \/ d.ns = "legacy" /\ (\/ AccountingFor(d.rev, rule).by = "home"
                                             \/ Leftover(d.rev))
    BY DEF ServedTrafficSettles
  <2>2. d \in Snapshot /\ d.ns \in Namespaces /\ d.id \in Identity
    BY DEF IInv, TypeOK, Snapshot
  <2>3. ASSUME NEW e \in exposed, e.ns = "concrete", e.rev = d.rev
        PROVE  AccountingFor(d.rev, rule) = [by |-> "map", group |-> d.id.sources[rule],
                                             owner |-> d.id.owners[rule]]
    <3>1. e.id = d.id
      BY <2>3 DEF IInv, OneIdentityPerRevision
    <3>2. ruleSources[d.rev] = d.id.sources /\ ruleOwners[d.rev] = d.id.owners
      BY <2>3, <3>1 DEF IInv, AttributionOfExposed
    <3>3. d.id.sources # None /\ d.id.owners # None
      BY <2>2, NoneAssumption DEF Identity
    <3>4. QED
      BY <3>2, <3>3 DEF AccountingFor, MappedUnder
  <2>4. ASSUME d.ns = "legacy", ruleSources[d.rev] = None
        PROVE  AccountingFor(d.rev, rule).by = "home"
    <3>1. d.rev <= PersistedRev("legacy")
      BY <2>4 DEF IInv, PersistedIsNewest
    <3>2. QED
      BY <2>4, <3>1 DEF AccountingFor
  <2>5. CASE \E e \in exposed : e.ns = "concrete" /\ e.rev = d.rev
    BY <2>3, <2>5
  <2>6. CASE \A e \in exposed : e.rev = d.rev => e.ns # "concrete"
    <3>1. d.ns = "legacy"
      BY <2>2, <2>6 DEF Namespaces
    <3>2. \A e \in exposed : e.rev = d.rev => e.ns = "legacy"
      BY <2>6 DEF IInv, TypeOK, Snapshot, Namespaces
    <3>3. QED
      BY <2>4, <3>1, <3>2 DEF Leftover
  <2>7. QED
    BY <2>5, <2>6
<1>2. QED
  BY Invariance, <1>1, PTL

\* A "committed" verdict of the status projection is about the very snapshot
\* the node was last offered.
THEOREM StatusIsExact == Spec => []StatusAuthorityExact
<1>1. IInv => StatusAuthorityExact
  <2> SUFFICES ASSUME IInv, NEW id \in Candidates["concrete"], AuthorityCommitted(id)
                 PROVE  /\ lastRev = PlanConfigRevision("concrete", id)
                        /\ [ns |-> "concrete", rev |-> lastRev, id |-> id] \in exposed
    BY DEF StatusAuthorityExact
  <2>2. "concrete" \in Namespaces /\ id \in Identity
    BY CandidatesAssumption DEF Namespaces
  <2>3. persisted["concrete"] \in [rev : Revisions, id : Identity]
    BY <2>2 DEF AuthorityCommitted, IInv, TypeOK
  <2>4. persisted["concrete"].id = id
    BY <2>2, <2>3 DEF AuthorityCommitted, MatchesRevisionIdentity, Identity
  <2>5. [ns |-> "concrete", rev |-> PlanConfigRevision("concrete", id), id |-> id] \in exposed
    BY <2>2, <2>4 DEF AuthorityCommitted, IInv, PersistedIsNewest
  <2>6. PlanConfigRevision("concrete", id) >= lastRev
    BY <2>2, PlanIsFresh DEF IInv, LastIsHighest
  <2>7. PersistedRev("concrete") = PlanConfigRevision("concrete", id)
    BY DEF AuthorityCommitted, PersistedRev
  <2>8. \A n \in Namespaces : PersistedRev(n) \in 0..MaxRev
    BY RevAssumption DEF IInv, TypeOK, PersistedRev, Revisions
  <2>9. PersistedRev("concrete") <= lastRev
    BY <2>8, RevAssumption DEF IInv, LastIsHighest, Highest, Namespaces
  <2>10. lastRev = PlanConfigRevision("concrete", id)
    BY <2>6, <2>7, <2>8, <2>9, RevAssumption DEF IInv, TypeOK, Namespaces
  <2>11. QED
    BY <2>5, <2>10
<1>2. QED
  BY Invariance, <1>1, PTL

\* The planned revision a commit exposes is the last one or the next.
LEMMA CommitAdvances ==
  ASSUME IInv, CommitRevision
  PROVE  /\ lastRev' = build.snap.rev
         /\ lastRev' \in {lastRev, lastRev + 1} /\ lastRev' >= lastRev
         /\ \A d \in exposed : d.rev = lastRev' => d.id = build.snap.id
<1>1. build.snap.ns \in Namespaces /\ build.snap.id \in Identity
  BY DEF CommitRevision, IInv, TypeOK, Snapshot
<1>2. QED
  BY <1>1, PlanIsFresh, RevAssumption
  DEF CommitRevision, IInv, PlanStillCurrent, LastIsHighest, TypeOK

LEMMA OtherStepsKeepLog ==
  [Next]_vars => CommitRevision \/ UNCHANGED <<persisted, exposed, lastRev>>
BY DEF Next, vars, Admit, Plan, PlanFails, WriteSources, WriteOwners, AbortBuild,
       CompleteMigration

\* Neither a switch of authentication mode nor an aborted build moves the
\* delivered revision backward.
THEOREM DeliveredNeverBackward == Spec => NeverBackward
<1>1. IInv /\ [Next]_vars => [lastRev' >= lastRev]_vars
  <2> SUFFICES ASSUME IInv, [Next]_vars PROVE lastRev' >= lastRev
    OBVIOUS
  <2>2. CASE CommitRevision
    BY <2>2, CommitAdvances
  <2>3. CASE UNCHANGED lastRev
    BY <2>3, RevAssumption DEF IInv, TypeOK
  <2>4. QED
    BY <2>2, <2>3, OtherStepsKeepLog
<1>2. QED
  BY Invariance, <1>1, PTL DEF Spec, NeverBackward

\* The identity the refinement mapping chooses is any exposed one.
LEMMA IdentityChosen ==
  ASSUME OneIdentityPerRevision, NEW d \in exposed
  PROVE  IdentityOf(d.rev) = d.id
BY DEF OneIdentityPerRevision, IdentityOf

LEMMA CommitRefines ==
  ASSUME IInv, IInv', CommitRevision
  PROVE  \/ \E id \in Identity : Authority!Publish(id)
         \/ UNCHANGED Authority!logVars
<1>0. PICK s \in Snapshot : s = build.snap
  BY DEF CommitRevision, IInv, TypeOK
<1>1. s.rev \in Revisions /\ s.id \in Identity
  BY DEF Snapshot
<1>2. /\ lastRev' = s.rev /\ lastRev' \in {lastRev, lastRev + 1}
      /\ exposed' = exposed \cup {s} /\ s \in exposed'
  BY <1>0, CommitAdvances DEF CommitRevision
<1>3. lastRev \in 0..MaxRev /\ lastRev' \in 0..MaxRev
  BY DEF IInv, TypeOK
<1>4. \A r \in 1..lastRev : IdentityOf(r)' = IdentityOf(r)
  <2>1. SUFFICES ASSUME NEW r \in 1..lastRev PROVE IdentityOf(r)' = IdentityOf(r)
    OBVIOUS
  <2>2. PICK d \in exposed : d.rev = r
    BY DEF IInv, NoGaps
  <2>3. IdentityOf(d.rev) = d.id
    BY IdentityChosen DEF IInv
  <2>4. IdentityOf(d.rev)' = d.id
    BY <1>2, IdentityChosen DEF IInv, IdentityOf, OneIdentityPerRevision
  <2>5. QED
    BY <2>2, <2>3, <2>4
<1>5. IdentityOf(s.rev)' = s.id
  BY <1>2 DEF IInv, IdentityOf, OneIdentityPerRevision
<1>6. CASE lastRev' = lastRev
  BY <1>3, <1>4, <1>6 DEF Authority!logVars
<1>7. CASE lastRev' = lastRev + 1
  <2>1. lastRev < MaxRev
    BY <1>3, <1>7, RevAssumption
  <2>2. lastRev > 0 => IdentityOf(lastRev) # s.id
    <3>1. SUFFICES ASSUME lastRev > 0, IdentityOf(lastRev) = s.id PROVE FALSE
      OBVIOUS
    <3>2. \A n \in Namespaces : PersistedRev(n) = Highest =>
            /\ persisted[n] # None
            /\ [ns |-> n, rev |-> lastRev, id |-> persisted[n].id] \in exposed
      BY <3>1, <1>3, RevAssumption DEF IInv, LastIsHighest, PersistedRev, PersistedIsNewest
    <3>3. \A n \in Namespaces : PersistedRev(n) = Highest => persisted[n].id = s.id
      BY <3>1, <3>2, IdentityChosen DEF IInv
    <3>4. PlanConfigRevision(s.ns, s.id) = Highest
      BY <3>1, <3>3, <1>3, RevAssumption
      DEF PlanConfigRevision, MatchesRevisionIdentity, IInv, LastIsHighest
    <3>5. s.rev = lastRev
      BY <3>4, <1>0 DEF CommitRevision, IInv, PlanStillCurrent, LastIsHighest
    <3>6. QED
      BY <3>5, <1>2, <1>3, <1>7, RevAssumption
  <2>3. [r \in 1..lastRev |-> IdentityOf(r)]' =
          [r \in 1..lastRev + 1 |->
             IF r = lastRev + 1 THEN s.id ELSE [q \in 1..lastRev |-> IdentityOf(q)][r]]
    <3>1. \A r \in 1..lastRev + 1 : r = lastRev + 1 \/ r \in 1..lastRev
      BY <1>3, RevAssumption
    <3>2. \A r \in 1..lastRev + 1 : IdentityOf(r)' =
            IF r = lastRev + 1 THEN s.id ELSE [q \in 1..lastRev |-> IdentityOf(q)][r]
      BY <3>1, <1>2, <1>4, <1>5, <1>7
    <3>3. QED
      BY <3>2, <1>7
  <2>4. lastRev > 0 => [q \in 1..lastRev |-> IdentityOf(q)][lastRev] # s.id
    BY <2>2, <1>3, RevAssumption
  <2>5. Authority!Publish(s.id)
    BY <1>7, <2>1, <2>3, <2>4 DEF Authority!Publish
  <2>6. QED
    BY <1>1, <2>5
<1>8. QED
  BY <1>2, <1>6, <1>7

\* The two key-value namespaces, written in separate steps that can be cut off
\* anywhere, behave as one append-only log of configurations.
THEOREM RefinesRevisionLog == Spec => ImplementsRevisionLog
<1>1. Init => Authority!LogInit
  BY DEF Init, Authority!LogInit
<1>2. IInv /\ IInv' /\ [Next]_vars => [Authority!LogNext]_(Authority!logVars)
  <2> SUFFICES ASSUME IInv, IInv', [Next]_vars
               PROVE  Authority!LogNext \/ UNCHANGED Authority!logVars
    OBVIOUS
  <2>1. CASE CommitRevision
    BY <2>1, CommitRefines DEF Authority!LogNext
  <2>2. CASE UNCHANGED <<persisted, exposed, lastRev>>
    BY <2>2 DEF Authority!logVars, IdentityOf
  <2>3. QED
    BY <2>1, <2>2, OtherStepsKeepLog
<1>3. QED
  BY <1>1, <1>2, Invariance, PTL DEF Spec, ImplementsRevisionLog, Authority!LogSpec

\* What a published revision is keeps its meaning.
HistoryKept == /\ lastRev <= lastRev'
               /\ \A r \in 1..lastRev : IdentityOf(r)' = IdentityOf(r)

\* commit_config_revision never gives a number that a node may hold a second
\* meaning, in either namespace, by any interleaving of builds and migrations.
THEOREM HistoryIsImmutable == Spec => [][HistoryKept]_vars
<1>1. IInv /\ IInv' /\ [Next]_vars => HistoryKept
  <2> SUFFICES ASSUME IInv, IInv', [Next]_vars PROVE HistoryKept
    OBVIOUS
  <2>0. lastRev \in Nat
    BY RevAssumption DEF IInv, TypeOK
  <2>1. CASE CommitRevision
    <3>1. exposed \subseteq exposed' /\ lastRev <= lastRev'
      BY <2>0, <2>1, CommitAdvances DEF CommitRevision
    <3>2. ASSUME NEW r \in 1..lastRev PROVE IdentityOf(r)' = IdentityOf(r)
      <4>1. PICK d \in exposed : d.rev = r
        BY DEF IInv, NoGaps
      <4>2. IdentityOf(d.rev) = d.id
        BY IdentityChosen DEF IInv
      <4>3. IdentityOf(d.rev)' = d.id
        BY <3>1, IdentityChosen DEF IInv, IdentityOf, OneIdentityPerRevision
      <4>4. QED
        BY <4>1, <4>2, <4>3
    <3>3. QED
      BY <3>1, <3>2 DEF HistoryKept
  <2>2. CASE UNCHANGED <<persisted, exposed, lastRev>>
    BY <2>0, <2>2 DEF HistoryKept, IdentityOf
  <2>3. QED
    BY <2>1, <2>2, OtherStepsKeepLog
<1>2. QED
  BY <1>1, Invariance, PTL DEF Spec
=============================================================================

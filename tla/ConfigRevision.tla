--------------------------- MODULE ConfigRevision ---------------------------
(***************************************************************************)
(* The panel's revision planner for one exact node                         *)
(* (crates/panel/src/service/node_config.rs).                              *)
(*                                                                         *)
(* A request for the node's configuration is admitted under the namespace  *)
(* its credentials select, waits for CONFIG_BUILD_LOCK, plans a revision   *)
(* from BOTH persisted namespaces and then performs up to three separate   *)
(* key-value writes.  The request future can be dropped, the panel can     *)
(* crash and the database can fail between any two of them.  StatusRead    *)
(* plans are the operator AuthorityCommitted: they write nothing.          *)
(*                                                                         *)
(* Scope: one registration of the node, from its first request until it is *)
(* uninstalled (node_ops.rs deletes the concrete key then).                *)
(***************************************************************************)
EXTENDS Naturals, Sequences

CONSTANTS Fingerprints,  \* config_fingerprint(config), assumed injective
          RuleSources,   \* maps from rule ids to source groups
          RuleOwners,    \* maps from rule ids to owner uids
          SourceGroups,  \* source_group_ids lists
          Candidates,    \* per namespace, what a build can produce
          None,          \* an absent key, or no build in progress
          MaxRev,        \* bound: u64::MAX in the code
          MaxWaiting     \* bound: requests waiting for the build lock

Namespaces == {"concrete", "legacy"}

\* attribution_fingerprint hashes exactly the sources and the owners.
Identity == [fingerprint : Fingerprints, sources : RuleSources,
             owners : RuleOwners, groups : SourceGroups]

Revisions == 1..MaxRev

Snapshot == [ns : Namespaces, rev : Revisions, id : Identity]

Stages == {"planned", "sourced", "owned"}

ASSUME RevAssumption == MaxRev \in Nat \ {0} /\ MaxWaiting \in Nat
ASSUME CandidatesAssumption == Candidates \in [Namespaces -> SUBSET Identity]
ASSUME NoneAssumption == /\ None \notin [rev : Revisions, id : Identity]
                         /\ None \notin [stage : Stages, snap : Snapshot]
                         /\ None \notin RuleSources \cup RuleOwners

VARIABLES persisted,    \* node_config_revision:* of each namespace
          ruleSources,  \* node_config_rule_sources:{group}:{node}:{revision}
          ruleOwners,   \* node_config_rule_owners:{group}:{node}:{revision}
          waiting,      \* admitted requests, FIFO on CONFIG_BUILD_LOCK
          build,        \* the plan whose writes are in progress
          retired,      \* the migration-completion row exists
          exposed,      \* every snapshot ever committed (history): from then
                        \* on it may reach the node
          lastRev       \* revision of the last one committed (history)

vars == <<persisted, ruleSources, ruleOwners, waiting, build, retired,
          exposed, lastRev>>

TypeOK ==
  /\ persisted \in [Namespaces -> [rev : Revisions, id : Identity] \cup {None}]
  /\ ruleSources \in [Revisions -> RuleSources \cup {None}]
  /\ ruleOwners \in [Revisions -> RuleOwners \cup {None}]
  /\ waiting \in Seq(Namespaces)
  /\ build \in [stage : Stages, snap : Snapshot] \cup {None}
  /\ retired \in BOOLEAN
  /\ exposed \subseteq Snapshot
  /\ lastRev \in 0..MaxRev

Init ==
  /\ persisted = [ns \in Namespaces |-> None]
  /\ ruleSources = [r \in Revisions |-> None]
  /\ ruleOwners = [r \in Revisions |-> None]
  /\ waiting = << >>
  /\ build = None
  /\ retired = FALSE
  /\ exposed = {}
  /\ lastRev = 0
-----------------------------------------------------------------------------
PersistedRev(ns) == IF persisted[ns] = None THEN 0 ELSE persisted[ns].rev

Highest == IF PersistedRev("concrete") >= PersistedRev("legacy")
             THEN PersistedRev("concrete") ELSE PersistedRev("legacy")

MatchesFingerprintOnly(state, id) ==   \* mutation
  state.id.fingerprint = id.fingerprint

MatchesRevisionIdentity(state, id) ==
  /\ state.id.fingerprint = id.fingerprint
  /\ state.id.sources = id.sources
  /\ state.id.owners = id.owners
  /\ state.id.groups = id.groups

PlanWithoutCounterpart(ns, id) ==      \* mutation: only the own namespace
  IF PersistedRev(ns) > 0 /\ MatchesRevisionIdentity(persisted[ns], id)
    THEN PersistedRev(ns) ELSE PersistedRev(ns) + 1

PlanAlwaysNew(ns, id) == Highest + 1   \* mutation: no identity comparison

PlanConfigRevision(ns, id) ==
  IF Highest > 0 /\ \A n \in Namespaces :
       PersistedRev(n) = Highest => MatchesRevisionIdentity(persisted[n], id)
    THEN Highest
    ELSE Highest + 1

CommittedAtAnyRevision(id) ==          \* mutation: no revision comparison
  /\ persisted["concrete"] # None
  /\ MatchesRevisionIdentity(persisted["concrete"], id)

\* The status projection's verdict that the intended configuration id has
\* already been committed for the verified concrete node.
AuthorityCommitted(id) ==
  /\ persisted["concrete"] # None
  /\ persisted["concrete"].rev = PlanConfigRevision("concrete", id)
  /\ MatchesRevisionIdentity(persisted["concrete"], id)

MappedUnder(r, rule) ==
  [by |-> "map", group |-> ruleSources[r][rule],
   owner |-> IF ruleOwners[r] = None THEN None ELSE ruleOwners[r][rule]]

AccountingBelowLegacy(r, rule) ==      \* mutation: strict comparison
  IF ruleSources[r] = None
    THEN [by |-> IF r < PersistedRev("legacy") THEN "home" ELSE "refused"]
  ELSE IF rule \in DOMAIN ruleSources[r] THEN MappedUnder(r, rule)
  ELSE [by |-> "refused"]

\* How report_traffic settles what a strict batch tagged with revision r reports
\* of a rule: by whatever map is stored under r, refused when the rule is not in
\* it; Home-only without a map when the legacy namespace reached r; or refused.
AccountingFor(r, rule) ==
  IF ruleSources[r] = None
    THEN [by |-> IF r <= PersistedRev("legacy") THEN "home" ELSE "refused"]
  ELSE IF rule \in DOMAIN ruleSources[r] THEN MappedUnder(r, rule)
  ELSE [by |-> "refused"]
-----------------------------------------------------------------------------
\* get_config and the websocket push check the retirement row, then queue.
Admit(ns) ==
  /\ Len(waiting) < MaxWaiting
  /\ ns = "legacy" => ~retired
  /\ waiting' = Append(waiting, ns)
  /\ UNCHANGED <<persisted, ruleSources, ruleOwners, build, retired,
                 exposed, lastRev>>

PlanUnchecked(id) ==                   \* mutation: wrapping_add for checked_add
  /\ build = None
  /\ waiting # << >>
  /\ id \in Candidates[Head(waiting)]
  /\ build' = [stage |-> IF Head(waiting) = "concrete" THEN "planned"
                                                       ELSE "owned",
               snap  |-> [ns  |-> Head(waiting),
                          rev |-> PlanConfigRevision(Head(waiting), id) % (MaxRev + 1),
                          id  |-> id]]
  /\ waiting' = Tail(waiting)
  /\ UNCHANGED <<persisted, ruleSources, ruleOwners, retired, exposed, lastRev>>

Plan(id) ==
  /\ build = None
  /\ waiting # << >>
  /\ id \in Candidates[Head(waiting)]
  /\ PlanConfigRevision(Head(waiting), id) <= MaxRev
  /\ build' = [stage |-> IF Head(waiting) = "concrete" THEN "planned"
                                                       ELSE "owned",
               snap  |-> [ns  |-> Head(waiting),
                          rev |-> PlanConfigRevision(Head(waiting), id),
                          id  |-> id]]
  /\ waiting' = Tail(waiting)
  /\ UNCHANGED <<persisted, ruleSources, ruleOwners, retired, exposed, lastRev>>

\* Every error of the build before its first write: a rule that disappeared
\* or changed group, blocking conflicts, a database error, the last revision.
PlanFails ==
  /\ build = None
  /\ waiting # << >>
  /\ waiting' = Tail(waiting)
  /\ UNCHANGED <<persisted, ruleSources, ruleOwners, build, retired,
                 exposed, lastRev>>

WriteSources ==
  /\ build # None /\ build.stage = "planned"
  /\ ruleSources' = [ruleSources EXCEPT ![build.snap.rev] = build.snap.id.sources]
  /\ build' = [build EXCEPT !.stage = "sourced"]
  /\ UNCHANGED <<persisted, ruleOwners, waiting, retired, exposed, lastRev>>

WriteOwners ==
  /\ build # None /\ build.stage = "sourced"
  /\ ruleOwners' = [ruleOwners EXCEPT ![build.snap.rev] = build.snap.id.owners]
  /\ build' = [build EXCEPT !.stage = "owned"]
  /\ UNCHANGED <<persisted, ruleSources, waiting, retired, exposed, lastRev>>

EarlyStage == "sourced"                \* mutation: owners not awaited

\* The stage after which the revision key may be written.
LastStage == "owned"

\* The revision key is the last write; the snapshot is returned to the caller.
CommitRevision ==
  /\ build # None /\ build.stage = LastStage
  /\ persisted' = [persisted EXCEPT ![build.snap.ns] =
                     [rev |-> build.snap.rev, id |-> build.snap.id]]
  /\ exposed' = exposed \cup {build.snap}
  /\ lastRev' = build.snap.rev
  /\ build' = None
  /\ UNCHANGED <<ruleSources, ruleOwners, waiting, retired>>

\* A dropped request, a failed write or a panel crash: the lock is released
\* and whatever was already written stays.  A crash also loses the queue.
AbortBuild ==
  /\ build # None
  /\ build' = None
  /\ waiting' \in {waiting, << >>}
  /\ UNCHANGED <<persisted, ruleSources, ruleOwners, retired, exposed, lastRev>>

\* complete_migration writes its row without taking the build lock.
CompleteMigration ==
  /\ ~retired
  /\ retired' = TRUE
  /\ UNCHANGED <<persisted, ruleSources, ruleOwners, waiting, build,
                 exposed, lastRev>>

Next ==
  \/ \E ns \in Namespaces : Admit(ns)
  \/ \E id \in Identity : Plan(id)
  \/ PlanFails
  \/ WriteSources
  \/ WriteOwners
  \/ CommitRevision
  \/ AbortBuild
  \/ CompleteMigration

Spec == Init /\ [][Next]_vars
-----------------------------------------------------------------------------
(* Properties *)

\* A revision number names one configuration identity, whichever namespace
\* delivered it and however many builds were aborted in between.
OneIdentityPerRevision ==
  \A d, e \in exposed : d.rev = e.rev => d.id = e.id

\* From the moment a concrete revision may reach the node, and for ever after,
\* the stored attribution of that revision is the one it was built with: no
\* aborted or later build leaves another map under the same number.
AttributionOfExposed ==
  \A d \in exposed : d.ns = "concrete" =>
     /\ ruleSources[d.rev] = d.id.sources
     /\ ruleOwners[d.rev] = d.id.owners

\* A map whose concrete build has not committed, mostly because it was aborted,
\* under a number that the legacy namespace delivered.
Leftover(r) == /\ ruleSources[r] # None
               /\ \A d \in exposed : d.rev = r => d.ns = "legacy"

\* What a rule counted under a delivered revision is billed to the group and the
\* owner it had in exactly that revision when a concrete build delivered it, and
\* settled Home-only when only legacy ones did.  The exception is the code's: it
\* takes a leftover map for the map of that revision.
ServedTrafficSettles ==
  \A d \in exposed : \A rule \in DOMAIN d.id.sources :
    \/ AccountingFor(d.rev, rule) = [by |-> "map", group |-> d.id.sources[rule],
                                     owner |-> d.id.owners[rule]]
    \/ d.ns = "legacy" /\ (AccountingFor(d.rev, rule).by = "home" \/ Leftover(d.rev))

\* When the status projection says the intended configuration is committed, the
\* node was last offered exactly that revision with exactly that identity.
StatusAuthorityExact ==
  \A id \in Candidates["concrete"] : AuthorityCommitted(id) =>
     /\ lastRev = PlanConfigRevision("concrete", id)
     /\ [ns |-> "concrete", rev |-> lastRev, id |-> id] \in exposed

\* Switching authentication modes, aborted builds and repeated requests never
\* move the delivered revision backward.
NeverBackward == [][lastRev' >= lastRev]_vars

\* The two namespaces together implement the abstract revision log.
IdentityOf(r) == (CHOOSE d \in exposed : d.rev = r).id

Authority == INSTANCE RevisionAuthority WITH
               Identities <- Identity,
               MaxHeight  <- MaxRev,
               height     <- lastRev,
               content    <- [r \in 1..lastRev |-> IdentityOf(r)]

ImplementsRevisionLog == Authority!LogSpec

\* ARCHITECTURE.md, Node configuration and LKG: the panel rejects legacy
\* delivery for the exact node after its migration completed, so that a
\* Home-only snapshot never replaces the configuration a concrete credential
\* obtained.
MigratedNeverLegacy ==
  [][retired /\ (\E e \in exposed : e.ns = "concrete")
       => \A d \in exposed' \ exposed : d.ns = "concrete"]_vars
-----------------------------------------------------------------------------
(* The inductive invariant that ConfigRevisionProofs uses *)

\* What is persisted has been exposed, and nothing newer of its namespace has.
PersistedIsNewest ==
  /\ \A ns \in Namespaces : persisted[ns] # None =>
       [ns |-> ns, rev |-> persisted[ns].rev, id |-> persisted[ns].id] \in exposed
  /\ \A d \in exposed : d.rev <= PersistedRev(d.ns)

LastIsHighest == lastRev = Highest

\* Nobody changes the persisted revisions under the build lock.
PlanStillCurrent ==
  build # None => build.snap.rev = PlanConfigRevision(build.snap.ns, build.snap.id)

\* The writes of the build in progress.
BuildProgress ==
  build # None /\ build.snap.ns = "concrete" =>
    /\ build.stage \in {"sourced", "owned"} =>
         ruleSources[build.snap.rev] = build.snap.id.sources
    /\ build.stage = "owned" => ruleOwners[build.snap.rev] = build.snap.id.owners

LegacyWritesNoMap == build # None /\ build.snap.ns = "legacy" => build.stage = "owned"

NoGaps == \A r \in 1..lastRev : \E d \in exposed : d.rev = r

IInv == /\ TypeOK
        /\ PersistedIsNewest
        /\ LastIsHighest
        /\ PlanStillCurrent
        /\ OneIdentityPerRevision
        /\ AttributionOfExposed
        /\ BuildProgress
        /\ LegacyWritesNoMap
        /\ NoGaps
=============================================================================

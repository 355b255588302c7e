--------------------------- MODULE NodeReconciler ---------------------------
(***************************************************************************)
(* How one relay node brings its listeners, its nginx SNI plan, its        *)
(* camouflage sites and its last-known-good configuration (LKG) to what    *)
(* the panel published (crates/node/src/reconciler.rs, poller.rs,          *)
(* forwarder/manager.rs, forwarder/camouflage_site.rs).                    *)
(*                                                                         *)
(* Every reconcile call holds the reconciler's mutex from start to end, so *)
(* at most one job runs.  Its steps interleave with certificate            *)
(* installation (which takes the camouflage apply gate only), with the DNS *)
(* refresh of the nginx plan, restarts of rules, dying listeners, crashes. *)
(*                                                                         *)
(* The panel is the log of RevisionAuthority; HTTP polling and the         *)
(* websocket deliver any of its revisions, in any order and repeatedly.    *)
(* A stale or conflicting delivery changes nothing and is no step here.    *)
(***************************************************************************)
EXTENDS Naturals, FiniteSets

CONSTANTS Rules,        \* forwarding rules of this node; each has one port
          Raws,         \* raw listeners, by what ListenerFingerprint compares
          Snis,         \* server names of camouflaged nginx_sni listeners
          Issuable,     \* the names the panel can deliver a certificate for
          Configs,      \* configurations the panel may publish
          Off,          \* a rule without a listener
          None,         \* an absent value
          MaxRev,       \* bound: u64::MAX in the code
          MaxFaults     \* bound: crashes, I/O failures, dead listeners

Routes == {Off} \cup Raws \cup Snis

Config == [listen : [Rules -> Routes], sites : SUBSET Snis]

Revisions == 1..MaxRev

Versioned == [cfg : Config, rev : Revisions]

Kinds == {"panel", "retry", "local", "repair"}

Phases == {"prepared", "applied", "backed", "committed"}

Status == {"waiting", "converged", "withheld", "degraded", "failed"}

Jobs == [kind : Kinds, cfg : Config, rev : Revisions, phase : Phases, cleanup : BOOLEAN]

Pendings == [cfg : Config, rev : Revisions, committed : BOOLEAN]

ASSUME ConfigsAssumption == Configs \subseteq Config /\ Issuable \subseteq Snis
ASSUME BoundsAssumption == MaxRev \in Nat \ {0} /\ MaxFaults \in Nat
ASSUME DistinctAssumption ==
  /\ Off \notin Raws \cup Snis /\ Raws \cap Snis = {}
  /\ None \notin Versioned \cup Config \cup Routes \cup Jobs \cup Pendings

VARIABLES height, content,  \* the panel's log
          up,               \* the node process is running
          \* memory of the Reconciler
          latest,           \* latest_panel_snapshot's revision, 0 for none
          highest,          \* highest_config_revision
          lastDesired,      \* last_panel_desired
          applied,          \* last_applied and last_applied_revision
          pending,          \* PendingApply: cfg, rev, lkg_committed
          status,           \* status.state
          job,              \* the reconcile call in progress
          \* memory of the ForwarderManager and the CamouflageSiteManager
          running,          \* last_config and last_config_revision
          raw,              \* live raw listeners and the revision they count for
          wanted,           \* sites of the current desired state
          \* durable state
          plan,             \* the nginx SNI fragment and the revision it logs
          active,           \* names the camouflage manifest serves
          primary, backup,  \* the LKG files; None when missing or invalid
          \* bounds and history
          faults, corrupted

panelVars   == <<height, content>>
memory      == <<latest, highest, lastDesired, applied, pending, status>>
runtime     == <<running, raw, plan>>
lkg         == <<primary, backup>>
vars == <<panelVars, up, memory, job, runtime, wanted, active, lkg, faults, corrupted>>

Panel == INSTANCE RevisionAuthority WITH Identities <- Configs, MaxHeight <- MaxRev

TypeOK ==
  /\ Panel!LogTypeOK
  /\ up \in BOOLEAN /\ corrupted \in BOOLEAN
  /\ latest \in 0..MaxRev /\ highest \in 0..MaxRev
  /\ lastDesired \in Configs \cup {None}
  /\ applied \in Versioned \cup {None}
  /\ pending \in Pendings \cup {None}
  /\ status \in Status
  /\ job \in Jobs \cup {None}
  /\ running \in Versioned \cup {None}
  /\ raw \in [Rules -> [spec : Raws, rev : Revisions] \cup {None}]
  /\ wanted \subseteq Snis
  /\ plan \in [routes : [Rules -> Snis \cup {Off}], rev : 0..MaxRev]
  /\ active \subseteq Snis
  /\ primary \in Versioned \cup {None} /\ backup \in Versioned \cup {None}
  /\ faults \in 0..MaxFaults

Init ==
  /\ Panel!LogInit
  /\ up = FALSE
  /\ latest = 0 /\ highest = 0
  /\ lastDesired = None /\ applied = None /\ pending = None
  /\ status = "waiting"
  /\ job = None
  /\ running = None
  /\ raw = [r \in Rules |-> None]
  /\ wanted = {}
  /\ plan = [routes |-> [r \in Rules |-> Off], rev |-> 0]
  /\ active = {}
  /\ primary = None /\ backup = None
  /\ faults = 0 /\ corrupted = FALSE
-----------------------------------------------------------------------------
(* Pure helpers *)

\* SNI names a configuration routes through nginx (referenced_snis).
SnisOf(c) == {c.listen[r] : r \in Rules} \cap Snis

\* from_listeners rejects two routes of one port and name.
DuplicateRoute(c) == \E r, q \in Rules :
                       r # q /\ c.listen[r] \in Snis /\ c.listen[r] = c.listen[q]

ReadyUnchecked(c, s, act) == s \in c.sites       \* mutation: active ignored

Ready(c, s, act) == s \in c.sites /\ s \in act

EffectiveUnpreserved(c, prev, act) ==            \* mutation: previous ignored
  [listen |-> [r \in Rules |-> IF c.listen[r] \in Snis /\ ~Ready(c, c.listen[r], act)
                                 THEN Off ELSE c.listen[r]],
   sites  |-> c.sites]

\* build_effective_config: a listener whose site is not served yet is replaced
\* by the previous camouflaged listener of its rule, if that one is served.
Effective(c, prev, act) ==
  LET Preserved(r) == IF prev # None /\ prev.cfg.listen[r] \in Snis \cap act
                        THEN prev.cfg.listen[r] ELSE Off
      listen == [r \in Rules |-> IF c.listen[r] \in Snis /\ ~Ready(c, c.listen[r], act)
                                   THEN Preserved(r) ELSE c.listen[r]]
      kept == IF prev = None THEN {}
              ELSE prev.cfg.sites \cap {listen[r] : r \in Rules}
  IN [listen |-> listen, sites |-> c.sites \cup kept]

\* The nginx plan of a configuration; raw listeners are none of its business.
PlanWithRaws(c, rev) == [routes |-> c.listen, rev |-> rev]        \* mutation

PlanOf(c, rev) ==
  [routes |-> [r \in Rules |-> IF c.listen[r] \in Snis THEN c.listen[r] ELSE Off],
   rev    |-> rev]

\* Raw listeners after applying c under revision rev, when only the listeners
\* of rules in T could be started: an unchanged live one is left alone and
\* keeps counting for its old revision; without cleanup nothing is removed.
Listeners(old, c, rev, cleanup, T) ==
  [r \in Rules |->
     IF c.listen[r] \in Raws
       THEN IF old[r] # None /\ old[r].spec = c.listen[r] THEN old[r]
            ELSE IF r \in T THEN [spec |-> c.listen[r], rev |-> rev] ELSE None
     ELSE IF cleanup THEN None ELSE old[r]]

MustStart(c) == {r \in Rules : /\ c.listen[r] \in Raws
                               /\ raw[r] = None \/ raw[r].spec # c.listen[r]}

Healthy == /\ \A r \in Rules : running.cfg.listen[r] \in Raws => raw[r] # None
           /\ SnisOf(running.cfg) \subseteq active

CacheEntry == IF primary # None THEN primary ELSE backup

\* Reading the cache repairs an invalid primary, unless that write fails.
RepairPrimary == primary' \in {primary, CacheEntry}

AcceptsAfterLatest(r) == r >= latest   \* mutation: the recovered LKG forgotten

\* panel_snapshot_order; the panel never reuses a number (RevisionAuthority).
Accepts(r) == r >= highest

PendingFingerprintOnly(r) ==           \* mutation: revision not compared
  pending # None /\ content[pending.rev] = content[r]

PendingMatches(r) ==
  pending # None /\ content[pending.rev] = content[r] /\ pending.rev = r

\* camouflage_dependencies_ready
DependenciesNever(c) == SnisOf(c) = {}            \* mutation

DependenciesReady(c) == SnisOf(c) \subseteq active

Unchanged(r) == /\ running # None
                /\ lastDesired = content[r]
                /\ applied # None /\ applied.cfg = running.cfg /\ applied.rev = r

Settled(r, cfg) == IF cfg = content[r] THEN "converged" ELSE "withheld"

\* Nobody else holds the camouflage apply gate.
GateFree == job # None => \/ job.phase = "prepared"
                          \/ job.kind = "retry" /\ job.phase \in {"applied", "backed"}

\* The forwarder manager's mutex is free.
ManagerFree == job # None => job.phase \in {"prepared", "committed"} \/ job.kind = "retry"

Fault == faults < MaxFaults /\ faults' = faults + 1
NoFault == UNCHANGED <<faults, corrupted>>
-----------------------------------------------------------------------------
(* The reconciler's entries *)

Publish(c) ==
  /\ Panel!Publish(c)
  /\ UNCHANGED <<up, memory, job, runtime, wanted, active, lkg>> /\ NoFault

\* An accepted panel snapshot whose durable finalization is still owed.
RetryPending(r) ==
  /\ PendingMatches(r)
  /\ job' = [kind |-> "retry", cfg |-> pending.cfg, rev |-> r, cleanup |-> TRUE,
             phase |-> IF pending.committed THEN "committed" ELSE "applied"]
  /\ pending' = None
  /\ UNCHANGED <<status, wanted, primary>>

\* The same snapshot again: inspect, and repair dead listeners.
InspectPanel(r) ==
  /\ ~PendingMatches(r)
  /\ Unchanged(r)
  /\ ~(running.cfg # content[r] /\ DependenciesReady(content[r]))
  /\ pending' = None
  /\ IF Healthy
       THEN status' = Settled(r, running.cfg) /\ UNCHANGED job
       ELSE /\ job' = [kind |-> "repair", cfg |-> running.cfg, rev |-> running.rev,
                       cleanup |-> TRUE, phase |-> "prepared"]
            /\ UNCHANGED status
  /\ UNCHANGED <<wanted, primary>>

\* Anything else is applied; the LKG on disk is the previous configuration.
StartApply(r) ==
  /\ ~PendingMatches(r)
  /\ Unchanged(r) => running.cfg # content[r] /\ DependenciesReady(content[r])
  /\ pending' = None
  /\ wanted' = content[r].sites
  /\ job' = [kind |-> "panel", rev |-> r, cleanup |-> TRUE, phase |-> "prepared",
             cfg |-> Effective(content[r], CacheEntry, active)]
  /\ RepairPrimary
  /\ UNCHANGED status

\* HTTP poll, websocket push, or the certificate wake-up replaying latest.
PanelReconcile(r) ==
  /\ up /\ job = None
  /\ r \in 1..height /\ Accepts(r)
  /\ highest' = r /\ latest' = r
  /\ RetryPending(r) \/ InspectPanel(r) \/ StartApply(r)
  /\ UNCHANGED <<panelVars, up, lastDesired, applied, runtime, active, backup>>
  /\ NoFault

\* Recovery from the LKG on disk, which may only add to the runtime: it leaves
\* a runtime alone that is healthy or whose finalization is owed, repairs one
\* that is not, and applies the LKG only when nothing has been applied yet.
LocalRecovery ==
  LET local == [kind |-> "local", rev |-> CacheEntry.rev, cleanup |-> FALSE,
                cfg |-> Effective(CacheEntry.cfg, CacheEntry, active),
                phase |-> "prepared"]
      repair == [kind |-> "repair", rev |-> running.rev, cleanup |-> FALSE,
                 cfg |-> running.cfg, phase |-> "prepared"]
  IN
  /\ CacheEntry # None
  /\ RepairPrimary
  /\ highest' = IF CacheEntry.rev > highest THEN CacheEntry.rev ELSE highest
  /\ \/ /\ running # None /\ (pending # None \/ Healthy)
        /\ status' = IF Healthy THEN "degraded" ELSE "failed"
        /\ UNCHANGED <<wanted, job>>
     \/ /\ running # None /\ pending = None /\ ~Healthy
        /\ job' = repair
        /\ UNCHANGED <<wanted, status>>
     \/ /\ running = None
        /\ wanted' = CacheEntry.cfg.sites
        /\ job' = local
        /\ UNCHANGED status

WaitForPanel ==
  /\ CacheEntry = None
  /\ status' = "degraded"
  /\ UNCHANGED <<highest, wanted, job, primary>>

Boot ==
  /\ ~up /\ up' = TRUE
  /\ LocalRecovery \/ WaitForPanel
  /\ UNCHANGED <<panelVars, latest, lastDesired, applied, pending, runtime,
                 active, backup>>
  /\ NoFault

\* A poll the panel did not answer with a configuration.  (The shortcut of
\* preserve_converged_after_transient changes nothing and is no step.)
LocalRecoveryTick ==
  /\ up /\ job = None
  /\ LocalRecovery
  /\ UNCHANGED <<panelVars, up, latest, lastDesired, applied, pending, runtime,
                 active, backup>>
  /\ NoFault
-----------------------------------------------------------------------------
(* The steps of a job *)

JobDone == job' = None

KeepFailed(committed) ==
  /\ pending' = [cfg |-> job.cfg, rev |-> job.rev, committed |-> committed]
  /\ status' = "failed"
  /\ JobDone

\* The manager applied everything: panel jobs go on to the LKG commit.
ApplyListeners ==
  /\ job # None /\ job.phase = "prepared"
  /\ ~DuplicateRoute(job.cfg)
  /\ plan' = PlanOf(job.cfg, job.rev)
  /\ raw' = Listeners(raw, job.cfg, job.rev, job.cleanup, Rules)
  /\ running' = [cfg |-> job.cfg, rev |-> job.rev]
  /\ \/ /\ job.kind = "panel"
        /\ job' = [job EXCEPT !.phase = "applied"]
        /\ UNCHANGED <<applied, status>>
     \/ /\ job.kind = "local"
        /\ applied' = running'
        /\ status' = "degraded"
        /\ JobDone
     \/ /\ job.kind = "repair"
        /\ status' = IF job.cleanup THEN Settled(latest, job.cfg) ELSE "degraded"
        /\ JobDone
        /\ UNCHANGED applied
  /\ UNCHANGED <<panelVars, up, latest, highest, lastDesired, pending, wanted,
                 active, lkg>>
  /\ NoFault

ApplyFailed ==
  /\ status' = "failed"
  /\ JobDone
  /\ UNCHANGED <<panelVars, up, latest, highest, lastDesired, applied, pending,
                 running, wanted, active, lkg, corrupted>>

\* The plan is refused before anything is touched.
PlanRejected ==
  /\ job # None /\ job.phase = "prepared"
  /\ DuplicateRoute(job.cfg)
  /\ UNCHANGED <<raw, plan, faults>>
  /\ ApplyFailed

\* nginx refuses the new fragment, or does not reload: the old one is put back.
NginxFails ==
  /\ job # None /\ job.phase = "prepared"
  /\ running # None => plan # PlanOf(job.cfg, job.rev)
  /\ Fault
  /\ UNCHANGED <<raw, plan>>
  /\ ApplyFailed

RestoredUnderNewRevision == job.rev              \* mutation

RestoredRevision == running.rev

\* No address family of some raw listener can be bound: T had been started.
\* The previous configuration is applied again, which may fail in turn.
BindFails ==
  /\ job # None /\ job.phase = "prepared"
  /\ ~DuplicateRoute(job.cfg)
  /\ Fault
  /\ \E T \in SUBSET MustStart(job.cfg), T2 \in SUBSET Rules :
       LET mid == Listeners(raw, job.cfg, job.rev, job.cleanup, T)
           new == PlanOf(job.cfg, job.rev)
           old == PlanOf(running.cfg, RestoredRevision)
       IN /\ T # MustStart(job.cfg)
          /\ \/ /\ running # None => old # new  \* nothing to restore, or
                /\ raw' = mid                    \* nginx refuses it
                /\ plan' = new
             \/ /\ running # None
                /\ raw' = Listeners(mid, running.cfg, RestoredRevision, TRUE, T2)
                /\ plan' = old
  /\ ApplyFailed

\* commit_cache_with_metadata_at: a valid primary becomes the backup first ...
CommitBackupAlways ==                             \* mutation: validity unchecked
  /\ job # None /\ job.phase = "applied"
  /\ backup' = primary
  /\ job' = [job EXCEPT !.phase = "backed"]
  /\ UNCHANGED <<panelVars, up, memory, runtime, wanted, active, primary>>
  /\ NoFault

CommitBackup ==
  /\ job # None /\ job.phase = "applied"
  /\ backup' = IF primary # None THEN primary ELSE backup
  /\ job' = [job EXCEPT !.phase = "backed"]
  /\ UNCHANGED <<panelVars, up, memory, runtime, wanted, active, primary>>
  /\ NoFault

\* ... and then the new file is renamed over it.
CommitPrimary ==
  /\ job # None /\ job.phase = "backed"
  /\ primary' = [cfg |-> job.cfg, rev |-> job.rev]
  /\ job' = [job EXCEPT !.phase = "committed"]
  /\ UNCHANGED <<panelVars, up, memory, runtime, wanted, active, backup>>
  /\ NoFault

\* Any I/O error of the commit, the directory sync after the rename included.
CommitFails ==
  /\ job # None /\ job.phase \in {"applied", "backed"}
  /\ Fault
  /\ \/ primary' = primary
     \/ job.phase = "backed" /\ primary' = [cfg |-> job.cfg, rev |-> job.rev]
  /\ KeepFailed(FALSE)
  /\ UNCHANGED <<panelVars, up, latest, highest, lastDesired, applied, runtime,
                 wanted, active, backup, corrupted>>

KeptByDesired == active \cap content[job.rev].sites    \* mutation

\* Sites that finalization keeps: those the applied listeners refer to.
KeptSites == active \cap SnisOf(job.cfg)

\* Only after the commit are sites without a listener taken away.
Finalize ==
  /\ job # None /\ job.phase = "committed"
  /\ active' = KeptSites
  /\ lastDesired' = content[job.rev]
  /\ applied' = [cfg |-> job.cfg, rev |-> job.rev]
  /\ status' = Settled(job.rev, job.cfg)
  /\ JobDone
  /\ UNCHANGED <<panelVars, up, latest, highest, pending, runtime, wanted, lkg>>
  /\ NoFault

FinalizeFails ==
  /\ job # None /\ job.phase = "committed"
  /\ KeptSites # active
  /\ Fault
  /\ KeepFailed(TRUE)
  /\ UNCHANGED <<panelVars, up, latest, highest, lastDesired, applied, runtime,
                 wanted, active, lkg, corrupted>>
-----------------------------------------------------------------------------
(* The rest of the node *)

\* install_panel_certificates: missing scopes are skipped.  An installation
\* prepared against an older desired or active set is refused under the gate.
InstallCertificates(S) ==
  /\ up /\ GateFree
  /\ S # {} /\ S \subseteq (wanted \cap Issuable) \ active
  /\ active' = active \cup S
  /\ UNCHANGED <<panelVars, up, memory, job, runtime, wanted, lkg>> /\ NoFault

\* The DNS refresh after every poll (and the reapply command) renders the plan
\* from the running configuration, without the revision it is running under.
RefreshSniDns ==
  /\ up /\ ManagerFree /\ running # None
  /\ plan # PlanOf(running.cfg, 0)
  /\ plan' = PlanOf(running.cfg, 0)
  /\ UNCHANGED <<panelVars, up, memory, job, running, raw, wanted, active, lkg>>
  /\ NoFault

\* restart_rule, a command of the websocket: the rule's listener is closed and
\* the running configuration applied again; either may find a fault.  Without
\* a running configuration the next apply has to bring the listener back.
RestartRule(r) ==
  LET closed == [raw EXCEPT ![r] = None]
      Rebuilt(T) == Listeners(closed, running.cfg, running.rev, TRUE, T)
      current == PlanOf(running.cfg, running.rev)
  IN
  /\ up /\ ManagerFree /\ raw[r] # None
  /\ \/ running = None /\ raw' = closed /\ UNCHANGED plan /\ NoFault
     \/ running # None /\ raw' = Rebuilt(Rules) /\ plan' = current /\ NoFault
     \/ /\ running # None /\ Fault /\ UNCHANGED corrupted
        /\ \/ plan # current /\ raw' = closed /\ UNCHANGED plan  \* nginx refuses
           \/ /\ \E T \in SUBSET Rules : raw' = Rebuilt(T)         \* bind fails
              /\ plan' = current
  /\ UNCHANGED <<panelVars, up, memory, job, running, wanted, active, lkg>>

ListenerDies(r) ==
  /\ up /\ raw[r] # None
  /\ Fault
  /\ raw' = [raw EXCEPT ![r] = None]
  /\ UNCHANGED <<panelVars, up, memory, job, running, plan, wanted, active, lkg,
                 corrupted>>

\* A damaged primary is only considered when there is a backup.
CorruptPrimary ==
  /\ job = None /\ primary # None /\ backup # None
  /\ Fault
  /\ primary' = None /\ corrupted' = TRUE
  /\ UNCHANGED <<panelVars, up, memory, job, runtime, wanted, active, backup>>

Crash ==
  /\ up /\ up' = FALSE
  /\ Fault
  /\ latest' = 0 /\ highest' = 0
  /\ lastDesired' = None /\ applied' = None /\ pending' = None
  /\ status' = "waiting"
  /\ job' = None
  /\ running' = None /\ raw' = [r \in Rules |-> None]
  /\ wanted' = {}
  /\ UNCHANGED <<panelVars, plan, active, lkg, corrupted>>

Next ==
  \/ \E c \in Configs : Publish(c)
  \/ \E r \in Revisions : PanelReconcile(r)
  \/ Boot \/ LocalRecoveryTick
  \/ ApplyListeners \/ PlanRejected \/ NginxFails \/ BindFails
  \/ CommitBackup \/ CommitPrimary \/ CommitFails
  \/ Finalize \/ FinalizeFails
  \/ \E S \in SUBSET Snis : InstallCertificates(S)
  \/ RefreshSniDns
  \/ \E r \in Rules : RestartRule(r)
  \/ \E r \in Rules : ListenerDies(r)
  \/ CorruptPrimary
  \/ Crash

Spec == Init /\ [][Next]_vars

\* HTTP polling never ends and always offers the newest revision; the tokio
\* mutexes are fair queues; certificates the panel has are offered until they
\* are installed.  Faults are bounded, so a retried step succeeds in the end.
Fairness ==
  /\ WF_vars(Boot)
  /\ WF_vars(ApplyListeners) /\ WF_vars(PlanRejected)
  /\ WF_vars(CommitBackup) /\ WF_vars(CommitPrimary) /\ WF_vars(Finalize)
  /\ SF_vars(PanelReconcile(height))
  /\ \A s \in Snis : SF_vars(InstallCertificates({s}))

FairSpec == Spec /\ Fairness
-----------------------------------------------------------------------------
(* Properties *)

\* nginx never routes a name to the local camouflage endpoint that does not
\* serve it: sites are taken away only after the routes to them, through
\* withheld dependencies, failed applies, restores, finalizations and crashes.
RoutesHaveSites == \A r \in Rules : plan.routes[r] # Off => plan.routes[r] \in active

\* The LKG on disk can be served as it is: cleanup never precedes the commit
\* of the configuration that makes it right.  (After a damaged primary the
\* backup may name sites that are gone; recovery then withholds them.)
LkgSitesPresent ==
  ~corrupted /\ primary # None => SnisOf(primary.cfg) \subseteq active

\* One damaged file never costs the node its LKG, whenever the commits that
\* follow are interrupted: an invalid primary does not become the backup.
LkgSurvives == corrupted => primary # None \/ backup # None

\* A reported convergence is durable and current: the newest snapshot taken
\* is what runs, under its own revision, and what a restart would load.
ConvergedIsDurable ==
  status = "converged" /\ job = None =>
    /\ latest # 0
    /\ running = [cfg |-> content[latest], rev |-> latest]
    /\ ~corrupted => primary = running

\* Every live listener and every route counts its traffic under a revision
\* whose published configuration has that very rule, so that the panel can
\* attribute it.  (Revision 0 is the legacy generation, without a map.)
TagsAreAccountable ==
  \A r \in Rules :
    /\ raw[r] # None => content[raw[r].rev].listen[r] = raw[r].spec
    /\ plan.rev # 0 /\ plan.routes[r] # Off => content[plan.rev].listen[r] # Off

\* A duplicated or late snapshot never replaces a newer runtime or LKG.
NeverOlder ==
  [][/\ running # None /\ running' # None => running'.rev >= running.rev
     /\ primary # None /\ primary' # None => primary'.rev >= primary.rev]_vars

KeepsServing ==
  \A r \in Rules :
    running.cfg.listen[r] \in Snis /\ content[running'.rev].listen[r] \in Snis
      => running'.cfg.listen[r] # Off

\* A rule that moves from one server name to another keeps being served while
\* the certificate of the new name is missing, if the LKG is what is running.
ActiveRouteSurvives ==
  [][running # None /\ running' # None /\ primary = running => KeepsServing]_vars

\* The same, whatever happened to the LKG commit of the running configuration
\* (RC7_FAULT_INJECTION.md: the old active route is kept and is not deleted
\* because a new dependency is not ready).
ActiveRouteAlwaysSurvives ==
  [][running # None /\ running' # None => KeepsServing]_vars

\* manager.rs, refresh_nginx_sni_dns: a CHANGED resolved plan is applied.  No
\* target changes its address in this model.
UnchangedPlanIsNotReloaded ==
  [][running' = running /\ plan'.routes = plan.routes => plan' = plan]_vars

\* Once the panel stops publishing and faults stop, a configuration all of
\* whose certificates can be delivered runs, healthy and committed as LKG,
\* without anybody saving a rule again.
Satisfiable(c) == SnisOf(c) \subseteq c.sites \cap Issuable /\ ~DuplicateRoute(c)

Convergence ==
  <>[](height > 0 /\ Satisfiable(content[height]) =>
         /\ running = [cfg |-> content[height], rev |-> height]
         /\ ~corrupted => primary = running
         /\ Healthy)
=============================================================================

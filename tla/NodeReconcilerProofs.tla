------------------------ MODULE NodeReconcilerProofs ------------------------
(***************************************************************************)
(* Proofs about NodeReconciler, for any rules, server names,               *)
(* configurations and bounds.  The invariant is built in layers; the first *)
(* three are inductive together, each other relative to those before it:   *)
(*   Typed       the shape of every variable;                              *)
(*   Known       what the node holds stays faithful to a published revision*)
(*   JobFollows  what a reconcile call has applied is what runs;           *)
(*   Served      routes, jobs and the runtime name only served sites;      *)
(*   DiskFollows what is committed before sites are taken away;            *)
(*   Ascending   the order of the revision numbers;                        *)
(*   Durable     what an unchanged snapshot says of runtime and disk;      *)
(*   Preserves   which rules a prepared snapshot has not dropped.          *)
(* A lemma ...Unless lists the only ways one variable can change, a lemma  *)
(* ...Forms the outcomes of one entry of the reconciler.                   *)
(***************************************************************************)
EXTENDS NodeReconciler, TLAPS

\* build_effective_config: whatever it preserves is a configuration of served
\* names; a rule keeps its raw listener or none, no rule is added, and a rule
\* whose previous listener is served is not dropped for a missing certificate.
LEMMA EffectiveIs ==
  ASSUME NEW c \in Config, NEW prev \in Versioned \cup {None}, NEW act \in SUBSET Snis,
         NEW e, e = Effective(c, prev, act)
  PROVE  /\ e \in Config
         /\ SnisOf(e) \subseteq act
         /\ \A r \in Rules :
              /\ e.listen[r] \in Raws => c.listen[r] = e.listen[r]
              /\ e.listen[r] # Off => c.listen[r] # Off
              /\ prev # None /\ prev.cfg.listen[r] \in Snis \cap act /\ c.listen[r] \in Snis
                   => e.listen[r] # Off
<1> DEFINE Preserved(r) == IF prev # None /\ prev.cfg.listen[r] \in Snis \cap act
                             THEN prev.cfg.listen[r] ELSE Off
           listen == [r \in Rules |-> IF c.listen[r] \in Snis /\ ~Ready(c, c.listen[r], act)
                                        THEN Preserved(r) ELSE c.listen[r]]
           kept == IF prev = None THEN {} ELSE prev.cfg.sites \cap {listen[r] : r \in Rules}
<1>1. c.listen \in [Rules -> Routes] /\ c.sites \subseteq Snis
  BY DEF Config
<1>2. prev # None => prev.cfg.listen \in [Rules -> Routes] /\ prev.cfg.sites \subseteq Snis
  BY DEF Config, Versioned
<1>3. e = [listen |-> listen, sites |-> c.sites \cup kept]
  BY DEF Effective
<1>4. listen \in [Rules -> Routes] /\ kept \subseteq Snis
  BY <1>1, <1>2 DEF Routes
<1>5. e.listen = listen /\ e \in Config
  BY <1>1, <1>3, <1>4 DEF Config
<1>6. \A r \in Rules :
        e.listen[r] = IF c.listen[r] \in Snis /\ ~Ready(c, c.listen[r], act)
                        THEN Preserved(r) ELSE c.listen[r]
  BY <1>5
<1>7. \A r \in Rules : e.listen[r] \in Snis => e.listen[r] \in act
  BY <1>6, DistinctAssumption DEF Ready
<1>8. SnisOf(e) \subseteq act
  BY <1>7 DEF SnisOf
<1>9. ASSUME NEW r \in Rules
      PROVE  /\ e.listen[r] \in Raws => c.listen[r] = e.listen[r]
             /\ e.listen[r] # Off => c.listen[r] # Off
             /\ prev # None /\ prev.cfg.listen[r] \in Snis \cap act /\ c.listen[r] \in Snis
                  => e.listen[r] # Off
  BY <1>6, DistinctAssumption
<1>10. QED
  BY <1>5, <1>8, <1>9

\* A live raw listener.
Lives == [spec : Raws, rev : Revisions]

\* The panel's log.
LogTyped == height \in 0..MaxRev /\ content \in [1..height -> Configs]

\* The process and the memory of the reconciler.
MemoryTyped ==
  /\ up \in BOOLEAN /\ corrupted \in BOOLEAN
  /\ latest \in 0..MaxRev /\ highest \in 0..MaxRev
  /\ lastDesired \in Configs \cup {None}
  /\ applied \in Versioned \cup {None}
  /\ pending \in Pendings \cup {None}
  /\ status \in Status
  /\ job \in Jobs \cup {None}

\* The memory of the managers, the nginx plan and the served sites.
RuntimeTyped ==
  /\ running \in Versioned \cup {None}
  /\ raw \in [Rules -> Lives \cup {None}]
  /\ wanted \subseteq Snis
  /\ plan \in [routes : [Rules -> Snis \cup {Off}], rev : 0..MaxRev]
  /\ active \subseteq Snis

\* The LKG files and the bound on faults.
DiskTyped ==
  /\ primary \in Versioned \cup {None} /\ backup \in Versioned \cup {None}
  /\ faults \in 0..MaxFaults

\* TypeOK in the parts that steps change together.
Typed == LogTyped /\ MemoryTyped /\ RuntimeTyped /\ DiskTyped

\* A configuration on the node runs a rule only if the revision it is under does,
\* and counts raw traffic only under a revision with that very listener.
Faithful(h, named, c, v) ==
  /\ v \in 1..h
  /\ \A r \in Rules : /\ c.listen[r] \in Raws => named[v].listen[r] = c.listen[r]
                      /\ c.listen[r] # Off => named[v].listen[r] # Off

\* Whatever the node runs, applies, counts for or has on disk is faithful to a
\* revision that was published.
Known ==
  /\ latest <= height /\ highest <= height /\ plan.rev <= height
  /\ running # None => Faithful(height, content, running.cfg, running.rev)
  /\ primary # None => Faithful(height, content, primary.cfg, primary.rev)
  /\ backup # None => Faithful(height, content, backup.cfg, backup.rev)
  /\ job # None => Faithful(height, content, job.cfg, job.rev)
  /\ \A r \in Rules : raw[r] # None => raw[r].rev <= height
  /\ TagsAreAccountable

\* The parts make up the type invariant that the runs check.
LEMMA TypedIsTypeOK == Typed <=> TypeOK
BY DEF Typed, TypeOK, LogTyped, MemoryTyped, RuntimeTyped, DiskTyped, Jobs, Pendings, Lives,
       Panel!LogTypeOK

\* The panel appends to its log: what a revision named, it goes on naming.
LEMMA LogStep ==
  ASSUME LogTyped, [Next]_vars
  PROVE  /\ LogTyped' /\ height <= height'
         /\ \A r \in 1..height : content'[r] = content[r]
<1>1. ASSUME NEW c \in Configs, Publish(c)
      PROVE  /\ LogTyped' /\ height <= height'
             /\ \A r \in 1..height : content'[r] = content[r]
  BY <1>1, BoundsAssumption DEF LogTyped, Publish, Panel!Publish
<1>2. CASE UNCHANGED panelVars
  BY <1>2, BoundsAssumption DEF panelVars, LogTyped
<1>3. UNCHANGED panelVars \/ \E c \in Configs : Publish(c)
  BY DEF Next, vars, PanelReconcile, Boot, LocalRecoveryTick, ApplyListeners, PlanRejected,
     NginxFails, BindFails, ApplyFailed, CommitBackup, CommitPrimary, CommitFails, Finalize,
     FinalizeFails, InstallCertificates, RefreshSniDns, RestartRule, ListenerDies,
     CorruptPrimary, Crash
<1>4. QED
  BY <1>1, <1>2, <1>3

\* A new plan has routes to server names and the revision it was rendered for.
LEMMA PlanTyped ==
  ASSUME NEW c \in Config, NEW v \in 0..MaxRev
  PROVE  PlanOf(c, v) \in [routes : [Rules -> Snis \cup {Off}], rev : 0..MaxRev]
BY DEF PlanOf

\* Listeners that are kept, started or missing.
LEMMA ListenersTyped ==
  ASSUME NEW c \in Config, NEW v \in Revisions, NEW old \in [Rules -> Lives \cup {None}],
         NEW cleanup \in BOOLEAN, NEW T \in SUBSET Rules
  PROVE  Listeners(old, c, v, cleanup, T) \in [Rules -> Lives \cup {None}]
BY DEF Listeners, Lives

\* The faults are counted up to their bound.
LEMMA FaultTyped ==
  ASSUME Fault \/ NoFault \/ UNCHANGED faults, faults \in 0..MaxFaults
  PROVE  faults' \in 0..MaxFaults
BY BoundsAssumption DEF Fault, NoFault

\* Reading the cache (the primary or else the backup) yields a configuration.
LEMMA CacheTyped ==
  ASSUME DiskTyped
  PROVE  /\ CacheEntry \in Versioned \cup {None}
         /\ CacheEntry # None => CacheEntry.cfg \in Config /\ CacheEntry.rev \in Revisions
         /\ RepairPrimary => primary' \in Versioned \cup {None}
BY DEF DiskTyped, CacheEntry, RepairPrimary, Versioned

\* The call that brings dead listeners of the running configuration back.
RepairJob(cleanup) == [kind |-> "repair", cfg |-> running.cfg, rev |-> running.rev,
                       cleanup |-> cleanup, phase |-> "prepared"]

\* A repair re-applies a configuration under its revision.
LEMMA RepairTyped ==
  ASSUME running \in Versioned
  PROVE  RepairJob(TRUE) \in Jobs /\ RepairJob(FALSE) \in Jobs
BY DEF RepairJob, Jobs, Versioned, Kinds, Phases

\* Inspection finds a healthy runtime or starts to repair it.
LEMMA InspectForms ==
  ASSUME NEW r, InspectPanel(r)
  PROVE  \/ job' = job /\ status' = Settled(r, running.cfg)
         \/ job' = RepairJob(TRUE) /\ status' = status
<1>1. CASE Healthy
  BY <1>1, Zenon DEF InspectPanel
<1>2. CASE ~Healthy
  BY <1>2, Zenon DEF InspectPanel, RepairJob
<1>3. QED
  BY <1>1, <1>2

\* Recovery leaves the runtime alone, repairs it, or applies what is on disk.
LEMMA LocalForms ==
  ASSUME LocalRecovery, NEW e, e = Effective(CacheEntry.cfg, CacheEntry, active)
  PROVE  \/ /\ running # None /\ UNCHANGED <<wanted, job>>
            /\ status' \in {"degraded", "failed"}
         \/ /\ running # None /\ pending = None /\ UNCHANGED <<wanted, status>>
            /\ job' = RepairJob(FALSE)
         \/ /\ running = None /\ wanted' = CacheEntry.cfg.sites /\ UNCHANGED status
            /\ job' = [kind |-> "local", rev |-> CacheEntry.rev, cleanup |-> FALSE,
                       cfg |-> e, phase |-> "prepared"]
<1>1. CASE running # None /\ (pending # None \/ Healthy)
           /\ status' = (IF Healthy THEN "degraded" ELSE "failed") /\ UNCHANGED <<wanted, job>>
  <2>1. status' = "degraded" \/ status' = "failed"
    BY <1>1, Zenon
  <2>2. QED
    BY <1>1, <2>1
<1>2. CASE running # None /\ pending = None /\ ~Healthy /\ UNCHANGED <<wanted, status>>
           /\ job' = RepairJob(FALSE)
  BY <1>2
<1>3. CASE running = None /\ wanted' = CacheEntry.cfg.sites /\ UNCHANGED status
           /\ job' = [kind |-> "local", rev |-> CacheEntry.rev, cleanup |-> FALSE,
                       cfg |-> e, phase |-> "prepared"]
  BY <1>3
<1>4. QED
  BY <1>1, <1>2, <1>3 DEF LocalRecovery, RepairJob

\* A snapshot taken from the panel starts a job of its own revision.
LEMMA PanelTyped ==
  ASSUME Typed, NEW r \in Revisions, PanelReconcile(r)
  PROVE  Typed'
<1>0. /\ LogTyped /\ MemoryTyped /\ RuntimeTyped /\ DiskTyped
      /\ r \in 1..height /\ content[r] \in Config /\ content[r].sites \subseteq Snis
  BY ConfigsAssumption DEF Typed, PanelReconcile, LogTyped, Config
<1>1. /\ UNCHANGED <<height, content, up, lastDesired, applied, running, raw, plan, active, backup,
                     faults, corrupted>>
      /\ highest' = r /\ latest' = r /\ pending' = None
  BY DEF PanelReconcile, panelVars, runtime, NoFault, RetryPending, InspectPanel, StartApply
<1>2. wanted' \subseteq Snis /\ primary' \in Versioned \cup {None} /\ status' \in Status
  BY <1>0, CacheTyped DEF PanelReconcile, RetryPending, InspectPanel, StartApply, Settled,
     Status, RuntimeTyped, DiskTyped, MemoryTyped
<1>3. job' \in Jobs \cup {None}
  <2>1. CASE RetryPending(r)
    <3>1. pending \in Pendings
      BY <1>0, <2>1 DEF RetryPending, PendingMatches, MemoryTyped
    <3>2. QED
      BY <2>1, <3>1 DEF RetryPending, Jobs, Pendings, Kinds, Phases
  <2>2. CASE InspectPanel(r)
    <3>1. running \in Versioned
      BY <1>0, <2>2 DEF InspectPanel, Unchanged, RuntimeTyped
    <3>2. QED
      BY <1>0, <2>2, <3>1, InspectForms, RepairTyped DEF MemoryTyped
  <2>3. CASE StartApply(r)
    <3>1. PICK e : e = Effective(content[r], CacheEntry, active)
      OBVIOUS
    <3>2. e \in Config
      BY <1>0, <3>1, CacheTyped, EffectiveIs DEF RuntimeTyped
    <3>3. QED
      BY <2>3, <3>1, <3>2 DEF StartApply, Jobs, Kinds, Phases
  <2>4. QED
    BY <2>1, <2>2, <2>3 DEF PanelReconcile
<1>4. QED
  BY <1>0, <1>1, <1>2, <1>3 DEF Typed, LogTyped, MemoryTyped, RuntimeTyped, DiskTyped, Revisions

\* Recovery from the disk, at boot and later.
LEMMA LocalTyped ==
  ASSUME Typed, LocalRecovery
  PROVE  /\ highest' \in 0..MaxRev /\ status' \in Status /\ wanted' \subseteq Snis
         /\ job' \in Jobs \cup {job, None} /\ primary' \in Versioned \cup {None}
<1>0. /\ MemoryTyped /\ RuntimeTyped /\ DiskTyped
      /\ CacheEntry \in Versioned /\ CacheEntry.cfg \in Config /\ CacheEntry.rev \in Revisions
      /\ CacheEntry.cfg.sites \subseteq Snis
  BY CacheTyped DEF Typed, LocalRecovery, Config
<1>1. highest' \in 0..MaxRev
  BY <1>0 DEF LocalRecovery, MemoryTyped, Revisions
<1>2. status' \in Status /\ wanted' \subseteq Snis /\ primary' \in Versioned \cup {None}
  BY <1>0, CacheTyped DEF LocalRecovery, MemoryTyped, RuntimeTyped, Status
<1>3. job' \in Jobs \cup {job, None}
  <2>1. PICK e : e = Effective(CacheEntry.cfg, CacheEntry, active)
    OBVIOUS
  <2>2. e \in Config
    BY <1>0, <2>1, EffectiveIs DEF RuntimeTyped
  <2>3. QED
    <3>1. running # None => running \in Versioned
      BY <1>0 DEF RuntimeTyped
    <3>2. running = None => [kind |-> "local", rev |-> CacheEntry.rev, cleanup |-> FALSE,
                             cfg |-> e, phase |-> "prepared"] \in Jobs
      BY <1>0, <2>2 DEF Jobs, Kinds, Phases
    <3>3. QED
      BY <2>1, <3>1, <3>2, LocalForms, RepairTyped
<1>4. QED
  BY <1>1, <1>2, <1>3

\* A restarted rule's listener is closed, and the running configuration applied
\* again unless there is none or nginx refuses it.
LEMMA RestartForms ==
  ASSUME NEW r \in Rules, RestartRule(r), NEW closed, closed = [raw EXCEPT ![r] = None]
  PROVE  \/ UNCHANGED plan /\ raw' = closed
         \/ running # None /\ plan' = PlanOf(running.cfg, running.rev)
            /\ \E T \in SUBSET Rules : raw' = Listeners(closed, running.cfg, running.rev, TRUE, T)
<1> DEFINE Applied(T) == raw' = Listeners(closed, running.cfg, running.rev, TRUE, T)
           current == PlanOf(running.cfg, running.rev)
<1>1. \/ raw' = closed /\ UNCHANGED plan
      \/ running # None /\ Applied(Rules) /\ plan' = current
      \/ running # None /\ plan # current /\ raw' = closed /\ UNCHANGED plan
      \/ running # None /\ (\E T \in SUBSET Rules : Applied(T)) /\ plan' = current
  BY DEF RestartRule
<1>2. Rules \in SUBSET Rules
  OBVIOUS
<1> HIDE DEF Applied, current
<1>3. \/ UNCHANGED plan /\ raw' = closed
      \/ running # None /\ plan' = current /\ \E T \in SUBSET Rules : Applied(T)
  BY <1>1, <1>2
<1>4. QED
  BY <1>3 DEF Applied, current

\* Every step of reconciler, manager, disk and panel keeps the types.
LEMMA TypedStep == Typed /\ Known /\ [Next]_vars => Typed'
<1> SUFFICES ASSUME Typed, Known, [Next]_vars PROVE Typed'
  OBVIOUS
<1>0. LogTyped /\ LogTyped' /\ MemoryTyped /\ RuntimeTyped /\ DiskTyped
  BY LogStep DEF Typed
<1>1. \A r \in Revisions : PanelReconcile(r) => Typed'
  BY PanelTyped
<1>2. ASSUME Boot \/ LocalRecoveryTick PROVE Typed'
  <2>1. /\ UNCHANGED <<latest, lastDesired, applied, pending, running, raw, plan, active, backup,
                       faults, corrupted>>
        /\ up' \in BOOLEAN
    BY <1>0, <1>2 DEF Boot, LocalRecoveryTick, panelVars, runtime, NoFault, MemoryTyped
  <2>2. /\ highest' \in 0..MaxRev /\ status' \in Status /\ wanted' \subseteq Snis
        /\ job' \in Jobs \cup {None} /\ primary' \in Versioned \cup {None}
    <3>1. CASE LocalRecovery
      BY <1>0, <3>1, LocalTyped DEF MemoryTyped
    <3>2. CASE WaitForPanel
      BY <1>0, <3>2 DEF WaitForPanel, Status, MemoryTyped, RuntimeTyped, DiskTyped
    <3>3. QED
      BY <1>2, <3>1, <3>2 DEF Boot, LocalRecoveryTick
  <2>3. QED
    BY <1>0, <2>1, <2>2 DEF Typed, MemoryTyped, RuntimeTyped, DiskTyped
<1>3. ASSUME ApplyListeners PROVE Typed'
  <2>1. job \in Jobs /\ job.cfg \in Config /\ job.rev \in Revisions /\ job.rev \in 0..MaxRev
        /\ job.cleanup \in BOOLEAN
    BY <1>0, <1>3 DEF ApplyListeners, MemoryTyped, Jobs, Revisions
  <2>2. plan' \in [routes : [Rules -> Snis \cup {Off}], rev : 0..MaxRev]
    BY <1>3, <2>1, PlanTyped DEF ApplyListeners
  <2>3. raw' \in [Rules -> Lives \cup {None}]
    BY <1>0, <1>3, <2>1, ListenersTyped DEF ApplyListeners, RuntimeTyped
  <2>4. running' \in Versioned
    BY <1>3, <2>1 DEF ApplyListeners, Versioned
  <2>5. [job EXCEPT !.phase = "applied"] \in Jobs
    BY <2>1 DEF Jobs, Phases
  <2>6. job' \in Jobs \cup {None} /\ applied' \in Versioned \cup {None} /\ status' \in Status
    BY <1>0, <1>3, <2>4, <2>5 DEF ApplyListeners, JobDone, Settled, Status, MemoryTyped
  <2>7. UNCHANGED <<up, latest, highest, lastDesired, pending, wanted, active, primary, backup,
                    faults, corrupted>>
    BY <1>3 DEF ApplyListeners, lkg, NoFault
  <2>8. QED
    BY <1>0, <2>2, <2>3, <2>4, <2>6, <2>7 DEF Typed, MemoryTyped, RuntimeTyped, DiskTyped
<1>4. ASSUME PlanRejected \/ NginxFails \/ BindFails PROVE Typed'
  <2>1. job \in Jobs /\ job.cfg \in Config /\ job.rev \in Revisions /\ job.rev \in 0..MaxRev
        /\ job.cleanup \in BOOLEAN
    <3>1. job # None
      BY <1>4, Zenon DEF PlanRejected, NginxFails, BindFails
    <3>2. QED
      BY <1>0, <3>1 DEF MemoryTyped, Jobs, Revisions
  <2>2. /\ UNCHANGED <<up, latest, highest, lastDesired, applied, pending, running, wanted, active,
                       primary, backup, corrupted>>
        /\ status' = "failed" /\ job' = None
    BY <1>4 DEF PlanRejected, NginxFails, BindFails, ApplyFailed, JobDone, lkg
  <2>3. faults' \in 0..MaxFaults
    BY <1>0, <1>4, FaultTyped DEF PlanRejected, NginxFails, BindFails, DiskTyped
  <2>4. raw' \in [Rules -> Lives \cup {None}]
        /\ plan' \in [routes : [Rules -> Snis \cup {Off}], rev : 0..MaxRev]
    <3>1. CASE UNCHANGED <<raw, plan>>
      BY <1>0, <3>1 DEF RuntimeTyped
    <3>2. CASE BindFails
      <4>1. PICK T \in SUBSET MustStart(job.cfg), T2 \in SUBSET Rules :
              \/ /\ raw' = Listeners(raw, job.cfg, job.rev, job.cleanup, T)
                 /\ plan' = PlanOf(job.cfg, job.rev)
              \/ /\ running # None
                 /\ raw' = Listeners(Listeners(raw, job.cfg, job.rev, job.cleanup, T),
                                     running.cfg, RestoredRevision, TRUE, T2)
                 /\ plan' = PlanOf(running.cfg, RestoredRevision)
        BY <3>2 DEF BindFails
      <4>2. T \in SUBSET Rules
        BY DEF MustStart
      <4>3. Listeners(raw, job.cfg, job.rev, job.cleanup, T) \in [Rules -> Lives \cup {None}]
        BY <1>0, <2>1, <4>2, ListenersTyped DEF RuntimeTyped
      <4>4. running # None => running.cfg \in Config /\ RestoredRevision \in Revisions
                              /\ RestoredRevision \in 0..MaxRev
        BY <1>0 DEF RuntimeTyped, Versioned, RestoredRevision, Revisions
      <4>5. running # None =>
              Listeners(Listeners(raw, job.cfg, job.rev, job.cleanup, T),
                        running.cfg, RestoredRevision, TRUE, T2) \in [Rules -> Lives \cup {None}]
        BY <4>3, <4>4, ListenersTyped
      <4>6. CASE raw' = Listeners(raw, job.cfg, job.rev, job.cleanup, T)
                 /\ plan' = PlanOf(job.cfg, job.rev)
        BY <2>1, <4>3, <4>6, PlanTyped
      <4>7. CASE /\ running # None
                 /\ raw' = Listeners(Listeners(raw, job.cfg, job.rev, job.cleanup, T),
                                     running.cfg, RestoredRevision, TRUE, T2)
                 /\ plan' = PlanOf(running.cfg, RestoredRevision)
        <5>1. plan' \in [routes : [Rules -> Snis \cup {Off}], rev : 0..MaxRev]
          BY <4>4, <4>7, PlanTyped
        <5>2. QED
          BY <4>5, <4>7, <5>1
      <4>8. QED
        BY <4>1, <4>6, <4>7
    <3>3. QED
      BY <1>4, <3>1, <3>2 DEF PlanRejected, NginxFails
  <2>5. QED
    BY <1>0, <2>2, <2>3, <2>4 DEF Typed, MemoryTyped, RuntimeTyped, DiskTyped, Status
<1>5. ASSUME CommitBackup \/ CommitPrimary \/ CommitFails PROVE Typed'
  <2>1. job \in Jobs
    BY <1>0, <1>5 DEF CommitBackup, CommitPrimary, CommitFails, MemoryTyped
  <2>2. /\ [cfg |-> job.cfg, rev |-> job.rev] \in Versioned
        /\ [cfg |-> job.cfg, rev |-> job.rev, committed |-> FALSE] \in Pendings
        /\ [job EXCEPT !.phase = "backed"] \in Jobs /\ [job EXCEPT !.phase = "committed"] \in Jobs
    BY <2>1 DEF Jobs, Versioned, Pendings, Phases
  <2>3. /\ primary' \in Versioned \cup {None} /\ backup' \in Versioned \cup {None}
        /\ pending' \in Pendings \cup {None} /\ job' \in Jobs \cup {None} /\ status' \in Status
    BY <1>0, <1>5, <2>2 DEF CommitBackup, CommitPrimary, CommitFails, KeepFailed, JobDone, memory,
       MemoryTyped, DiskTyped, Status
  <2>4. faults' \in 0..MaxFaults
    BY <1>0, <1>5, FaultTyped DEF CommitBackup, CommitPrimary, CommitFails, DiskTyped
  <2>5. UNCHANGED <<up, latest, highest, lastDesired, applied, running, raw, plan, wanted, active,
                    corrupted>>
    BY <1>5 DEF CommitBackup, CommitPrimary, CommitFails, memory, runtime, NoFault
  <2>6. QED
    BY <1>0, <2>3, <2>4, <2>5 DEF Typed, MemoryTyped, RuntimeTyped, DiskTyped
<1>6. ASSUME Finalize \/ FinalizeFails PROVE Typed'
  <2>1. job \in Jobs
    BY <1>0, <1>6 DEF Finalize, FinalizeFails, MemoryTyped
  <2>2. [cfg |-> job.cfg, rev |-> job.rev] \in Versioned
        /\ [cfg |-> job.cfg, rev |-> job.rev, committed |-> TRUE] \in Pendings
    BY <2>1 DEF Jobs, Versioned, Pendings
  <2>3. lastDesired' \in Configs \cup {None}
    <3>1. CASE Finalize
      <4>1. lastDesired' = content[job.rev]
        BY <3>1 DEF Finalize
      <4>2. QED
        BY <1>0, <3>1, <4>1 DEF Known, Faithful, Finalize, LogTyped
    <3>2. QED
      BY <1>0, <1>6, <3>1 DEF FinalizeFails, MemoryTyped
  <2>4. /\ applied' \in Versioned \cup {None} /\ job' = None /\ status' \in Status
        /\ pending' \in Pendings \cup {None} /\ active' \subseteq Snis
    BY <1>0, <1>6, <2>2 DEF Finalize, FinalizeFails, KeepFailed, JobDone, Settled, Status,
       KeptSites, MemoryTyped, RuntimeTyped
  <2>5. faults' \in 0..MaxFaults
    BY <1>0, <1>6, FaultTyped DEF Finalize, FinalizeFails, DiskTyped
  <2>6. UNCHANGED <<up, latest, highest, running, raw, plan, wanted, primary, backup, corrupted>>
    BY <1>6 DEF Finalize, FinalizeFails, runtime, lkg, NoFault
  <2>7. QED
    BY <1>0, <2>3, <2>4, <2>5, <2>6 DEF Typed, MemoryTyped, RuntimeTyped, DiskTyped
<1>7. ASSUME NEW S \in SUBSET Snis, InstallCertificates(S) PROVE Typed'
  BY <1>0, <1>7 DEF InstallCertificates, memory, runtime, lkg, NoFault, Typed, MemoryTyped,
     RuntimeTyped, DiskTyped
<1>8. ASSUME RefreshSniDns PROVE Typed'
  <2>1. plan' \in [routes : [Rules -> Snis \cup {Off}], rev : 0..MaxRev]
    BY <1>0, <1>8, PlanTyped, BoundsAssumption DEF RefreshSniDns, RuntimeTyped, Versioned
  <2>2. QED
    BY <1>0, <1>8, <2>1 DEF RefreshSniDns, memory, runtime, lkg, NoFault, Typed, MemoryTyped,
       RuntimeTyped, DiskTyped
<1>9. ASSUME NEW r \in Rules, RestartRule(r) PROVE Typed'
  <2>1. PICK closed : closed = [raw EXCEPT ![r] = None]
    OBVIOUS
  <2>2. closed \in [Rules -> Lives \cup {None}]
    BY <1>0, <2>1 DEF RuntimeTyped
  <2>3. running # None => running.cfg \in Config /\ running.rev \in Revisions
                          /\ running.rev \in 0..MaxRev
    BY <1>0 DEF RuntimeTyped, Versioned, Revisions
  <2>4. \/ UNCHANGED plan /\ raw' = closed
        \/ running # None /\ plan' = PlanOf(running.cfg, running.rev)
           /\ \E T \in SUBSET Rules : raw' = Listeners(closed, running.cfg, running.rev, TRUE, T)
    BY <1>9, <2>1, RestartForms
  <2>5. raw' \in [Rules -> Lives \cup {None}]
        /\ plan' \in [routes : [Rules -> Snis \cup {Off}], rev : 0..MaxRev]
    <3>1. CASE UNCHANGED plan /\ raw' = closed
      BY <1>0, <2>2, <3>1 DEF RuntimeTyped
    <3>2. ASSUME NEW T \in SUBSET Rules, running # None, plan' = PlanOf(running.cfg, running.rev),
                 raw' = Listeners(closed, running.cfg, running.rev, TRUE, T)
          PROVE  /\ raw' \in [Rules -> Lives \cup {None}]
                 /\ plan' \in [routes : [Rules -> Snis \cup {Off}], rev : 0..MaxRev]
      <4>1. raw' \in [Rules -> Lives \cup {None}]
        BY <2>2, <2>3, <3>2, ListenersTyped
      <4>2. plan' \in [routes : [Rules -> Snis \cup {Off}], rev : 0..MaxRev]
        BY <2>3, <3>2, PlanTyped
      <4>3. QED
        BY <4>1, <4>2
    <3>3. QED
      BY <2>4, <3>1, <3>2
  <2>6. faults' \in 0..MaxFaults /\ corrupted' = corrupted
    BY <1>0, <1>9, FaultTyped DEF RestartRule, DiskTyped, NoFault
  <2>7. QED
    <3>1. UNCHANGED <<up, latest, highest, lastDesired, applied, pending, status, job, running,
                      wanted, active, primary, backup>>
      BY <1>9 DEF RestartRule, memory, lkg
    <3>2. QED
      BY <1>0, <2>5, <2>6, <3>1 DEF Typed, MemoryTyped, RuntimeTyped, DiskTyped
<1>10. ASSUME NEW r \in Rules, ListenerDies(r) PROVE Typed'
  <2>1. faults' \in 0..MaxFaults
    BY <1>0, <1>10, FaultTyped DEF ListenerDies, DiskTyped
  <2>2. QED
    BY <1>0, <1>10, <2>1 DEF ListenerDies, memory, lkg, Typed, MemoryTyped, RuntimeTyped, DiskTyped
<1>11. ASSUME CorruptPrimary PROVE Typed'
  <2>1. faults' \in 0..MaxFaults
    BY <1>0, <1>11, FaultTyped DEF CorruptPrimary, DiskTyped
  <2>2. QED
    BY <1>0, <1>11, <2>1 DEF CorruptPrimary, memory, runtime, Typed, MemoryTyped, RuntimeTyped,
       DiskTyped
<1>12. ASSUME Crash PROVE Typed'
  <2>1. faults' \in 0..MaxFaults
    BY <1>0, <1>12, FaultTyped DEF Crash, DiskTyped
  <2>2. QED
    <3>1. MemoryTyped'
      <4>1. up' \in BOOLEAN /\ corrupted' \in BOOLEAN
        BY <1>0, <1>12 DEF Crash, MemoryTyped
      <4>2. QED
        BY <1>12, <4>1, BoundsAssumption DEF Crash, MemoryTyped, Status
    <3>2. RuntimeTyped'
      BY <1>0, <1>12 DEF Crash, RuntimeTyped
    <3>3. DiskTyped'
      BY <1>0, <1>12, <2>1 DEF Crash, lkg, DiskTyped
    <3>4. QED
      BY <1>0, <3>1, <3>2, <3>3 DEF Typed
<1>13. ASSUME UNCHANGED vars PROVE Typed'
  BY <1>0, <1>13 DEF vars, memory, runtime, lkg, Typed, MemoryTyped, RuntimeTyped, DiskTyped
<1>14. ASSUME NEW c \in Configs, Publish(c) PROVE Typed'
  BY <1>0, <1>14 DEF Publish, NoFault, memory, runtime, lkg, Typed, MemoryTyped, RuntimeTyped,
     DiskTyped
<1>15. QED
  BY <1>1, <1>2, <1>3, <1>4, <1>5, <1>6, <1>7, <1>8, <1>9, <1>10, <1>11, <1>12, <1>13, <1>14
     DEF Next
-----------------------------------------------------------------------------
(* The call in progress.                                                   *)

\* The routes of the nginx plan of a configuration.
RoutesOf(c) == PlanOf(c, 0).routes

\* What has been applied is what runs, and nothing else is applied before it is
\* finalized or given up to the next call.
JobFollows ==
  /\ ~up => job = None /\ running = None
  /\ running = None => pending = None /\ lastDesired = None /\ applied = None
  /\ pending # None => /\ job = None
                       /\ running = [cfg |-> pending.cfg, rev |-> pending.rev]
                       /\ plan.routes = RoutesOf(pending.cfg)
  /\ job # None =>
       /\ job.phase # "prepared" => /\ job.kind \in {"panel", "retry"}
                                    /\ running = [cfg |-> job.cfg, rev |-> job.rev]
                                    /\ plan.routes = RoutesOf(job.cfg)
       /\ job.kind = "retry" => job.phase # "prepared"
       /\ job.kind \in {"panel", "retry"} => job.rev = latest /\ job.rev = highest
       /\ job.kind = "local" => running = None
       /\ job.kind = "repair" => running = [cfg |-> job.cfg, rev |-> job.rev]

\* What a poll, a push or the certificate wake-up makes of the call.
LEMMA PanelForms ==
  ASSUME NEW r \in Revisions, PanelReconcile(r),
         NEW e, e = Effective(content[r], CacheEntry, active)
  PROVE  \/ /\ PendingMatches(r) /\ UNCHANGED <<status, wanted, primary>>
            /\ job' = [kind |-> "retry", cfg |-> pending.cfg, rev |-> r, cleanup |-> TRUE,
                       phase |-> IF pending.committed THEN "committed" ELSE "applied"]
         \/ /\ ~PendingMatches(r) /\ Unchanged(r) /\ UNCHANGED <<job, wanted, primary>>
            /\ status' = Settled(r, running.cfg)
         \/ /\ ~PendingMatches(r) /\ Unchanged(r) /\ UNCHANGED <<status, wanted, primary>>
            /\ job' = RepairJob(TRUE)
         \/ /\ ~PendingMatches(r) /\ RepairPrimary /\ UNCHANGED status
            /\ wanted' = content[r].sites
            /\ job' = [kind |-> "panel", rev |-> r, cleanup |-> TRUE, phase |-> "prepared",
                       cfg |-> e]
<1>1. CASE RetryPending(r)
  BY <1>1 DEF RetryPending
<1>2. CASE InspectPanel(r)
  BY <1>2, InspectForms DEF InspectPanel
<1>3. CASE StartApply(r)
  BY <1>3 DEF StartApply
<1>4. QED
  BY <1>1, <1>2, <1>3 DEF PanelReconcile

\* An accepted snapshot sets the numbers and leaves runtime and backup alone.
LEMMA PanelKeeps ==
  ASSUME NEW r \in Revisions, PanelReconcile(r)
  PROVE  /\ up /\ job = None /\ r \in 1..height /\ Accepts(r)
         /\ highest' = r /\ latest' = r /\ pending' = None
         /\ UNCHANGED <<height, content, up, lastDesired, applied, running, raw, plan, active,
                        backup, faults, corrupted>>
BY DEF PanelReconcile, RetryPending, InspectPanel, StartApply, panelVars, runtime, NoFault

\* Recovery runs at boot and when a poll brings no configuration.
LEMMA LocalKeeps ==
  ASSUME Typed, JobFollows, Boot \/ LocalRecoveryTick
  PROVE  /\ job = None /\ up' = TRUE
         /\ UNCHANGED <<height, content, latest, lastDesired, applied, pending, running, raw, plan,
                        active, backup, faults, corrupted>>
         /\ \/ LocalRecovery
            \/ WaitForPanel /\ running = None
<1>1. up \in BOOLEAN
  BY DEF Typed, MemoryTyped
<1>2. QED
  BY <1>1 DEF Boot, LocalRecoveryTick, JobFollows, panelVars, runtime, NoFault

\* A failed apply ends its call and leaves memory, disk and sites alone.
LEMMA FailedKeeps ==
  ASSUME PlanRejected \/ NginxFails \/ BindFails
  PROVE  /\ job # None /\ job.phase = "prepared"
         /\ job' = None /\ status' = "failed"
         /\ UNCHANGED <<height, content, up, latest, highest, lastDesired, applied, pending,
                        running, wanted, active, primary, backup, corrupted>>
<1>1. job # None /\ job.phase = "prepared" /\ ApplyFailed
  BY Zenon DEF PlanRejected, NginxFails, BindFails
<1>2. QED
  BY <1>1 DEF ApplyFailed, JobDone, panelVars, lkg

\* The routes of a plan do not depend on the revision it is rendered for.
LEMMA RoutesSame ==
  ASSUME NEW c, NEW v
  PROVE  PlanOf(c, v).routes = RoutesOf(c) /\ PlanOf(c, v).rev = v
BY DEF PlanOf, RoutesOf

\* Calls are serialized by the reconciler's mutex: no step of anything else
\* separates what was applied from what its finalization will record.
LEMMA JobStep == Typed /\ JobFollows /\ [Next]_vars => JobFollows'
<1> SUFFICES ASSUME Typed, JobFollows, [Next]_vars PROVE JobFollows'
  OBVIOUS
<1>0. MemoryTyped /\ RuntimeTyped /\ DiskTyped
  BY DEF Typed
<1>1. ASSUME NEW r \in Revisions, PanelReconcile(r) PROVE JobFollows'
  <2>1. PICK e : e = Effective(content[r], CacheEntry, active)
    OBVIOUS
  <2>2. /\ up /\ job = None /\ highest' = r /\ latest' = r /\ pending' = None
        /\ UNCHANGED <<up, lastDesired, applied, running, plan>>
    BY <1>1, PanelKeeps
  <2>3. CASE /\ PendingMatches(r)
             /\ job' = [kind |-> "retry", cfg |-> pending.cfg, rev |-> r, cleanup |-> TRUE,
                        phase |-> IF pending.committed THEN "committed" ELSE "applied"]
    <3>1. /\ job'.kind = "retry" /\ job'.cfg = pending.cfg /\ job'.rev = r
          /\ job'.phase # "prepared"
      BY <2>3
    <3>2. /\ running = [cfg |-> pending.cfg, rev |-> r] /\ plan.routes = RoutesOf(pending.cfg)
          /\ running # None
      BY <2>3 DEF PendingMatches, JobFollows
    <3>3. QED
      BY <2>2, <3>1, <3>2 DEF JobFollows
  <2>4. CASE job' = job
    BY <2>2, <2>4 DEF JobFollows
  <2>5. CASE Unchanged(r) /\ job' = RepairJob(TRUE)
    <3>1. running \in Versioned
      BY <1>0, <2>5 DEF Unchanged, RuntimeTyped
    <3>2. /\ job'.kind = "repair" /\ job'.cfg = running.cfg /\ job'.rev = running.rev
          /\ job'.phase = "prepared" /\ running = [cfg |-> running.cfg, rev |-> running.rev]
      BY <2>5, <3>1 DEF RepairJob, Versioned
    <3>3. QED
      BY <2>2, <3>2 DEF JobFollows
  <2>6. CASE job' = [kind |-> "panel", rev |-> r, cleanup |-> TRUE, phase |-> "prepared", cfg |-> e]
    BY <2>2, <2>6 DEF JobFollows
  <2>7. QED
    BY <1>1, <2>1, <2>3, <2>4, <2>5, <2>6, PanelForms
<1>2. ASSUME Boot \/ LocalRecoveryTick PROVE JobFollows'
  <2>1. PICK e : e = Effective(CacheEntry.cfg, CacheEntry, active)
    OBVIOUS
  <2>2. CASE LocalRecovery
    <3>1. /\ job = None /\ up' = TRUE
          /\ UNCHANGED <<lastDesired, applied, pending, running, plan>>
      BY <1>2, LocalKeeps
    <3>2. CASE job' = job
      BY <3>1, <3>2 DEF JobFollows
    <3>3. CASE running # None /\ pending = None /\ job' = RepairJob(FALSE)
      <4>1. running \in Versioned
        BY <1>0, <3>3 DEF RuntimeTyped
      <4>2. /\ job'.kind = "repair" /\ job'.cfg = running.cfg /\ job'.rev = running.rev
            /\ job'.phase = "prepared" /\ running = [cfg |-> running.cfg, rev |-> running.rev]
        BY <3>3, <4>1 DEF RepairJob, Versioned
      <4>3. QED
        BY <3>1, <3>3, <4>2 DEF JobFollows
    <3>4. CASE running = None
               /\ job' = [kind |-> "local", rev |-> CacheEntry.rev, cleanup |-> FALSE,
                          cfg |-> e, phase |-> "prepared"]
      BY <3>1, <3>4 DEF JobFollows
    <3>5. QED
      BY <2>1, <2>2, <3>2, <3>3, <3>4, LocalForms
  <2>3. CASE WaitForPanel
    BY <1>2, <2>3, LocalKeeps DEF WaitForPanel, JobFollows, RoutesOf
  <2>4. QED
    BY <1>2, <2>2, <2>3, LocalKeeps
<1>3. ASSUME ApplyListeners PROVE JobFollows'
  <2>1. job \in Jobs
    BY <1>0, <1>3 DEF ApplyListeners, MemoryTyped
  <2>2. [job EXCEPT !.phase = "applied"].phase = "applied"
        /\ [job EXCEPT !.phase = "applied"].kind = job.kind
        /\ [job EXCEPT !.phase = "applied"].cfg = job.cfg
        /\ [job EXCEPT !.phase = "applied"].rev = job.rev
    BY <2>1 DEF Jobs
  <2>3. plan'.routes = RoutesOf(job.cfg) /\ running' = [cfg |-> job.cfg, rev |-> job.rev]
    BY <1>3, RoutesSame DEF ApplyListeners
  <2>4. [cfg |-> job.cfg, rev |-> job.rev] # None
    BY <2>1, DistinctAssumption DEF Jobs, Versioned
  <2>5. QED
    BY <1>3, <2>1, <2>2, <2>3, <2>4 DEF ApplyListeners, JobFollows, JobDone
<1>4. ASSUME PlanRejected \/ NginxFails \/ BindFails PROVE JobFollows'
  BY <1>4, FailedKeeps DEF JobFollows
<1>5. ASSUME CommitBackup \/ CommitPrimary \/ CommitFails \/ Finalize \/ FinalizeFails
      PROVE  JobFollows'
  <2>1. job # None /\ job \in Jobs /\ job.phase # "prepared"
    BY <1>0, <1>5 DEF CommitBackup, CommitPrimary, CommitFails, Finalize, FinalizeFails, MemoryTyped
  <2>2. UNCHANGED <<up, latest, highest, running, plan>>
    BY <1>5 DEF CommitBackup, CommitPrimary, CommitFails, Finalize, FinalizeFails, memory, runtime
  <2>3. CASE CommitBackup \/ CommitPrimary
    <3>1. PICK ph \in Phases : job' = [job EXCEPT !.phase = ph] /\ ph # "prepared"
      BY <2>3 DEF CommitBackup, CommitPrimary, Phases
    <3>2. /\ job'.phase # "prepared" /\ job'.kind = job.kind
          /\ job'.cfg = job.cfg /\ job'.rev = job.rev
      BY <2>1, <3>1 DEF Jobs
    <3>3. UNCHANGED <<pending, lastDesired, applied>>
      BY <2>3 DEF CommitBackup, CommitPrimary, memory
    <3>4. /\ running = [cfg |-> job.cfg, rev |-> job.rev] /\ plan.routes = RoutesOf(job.cfg)
          /\ job.kind \in {"panel", "retry"} /\ job.rev = latest /\ job.rev = highest
          /\ pending = None /\ up
      BY <2>1 DEF JobFollows
    <3>5. running # None
      BY <2>1, <3>4, DistinctAssumption DEF Jobs, Versioned
    <3>6. QED
      BY <2>2, <3>2, <3>3, <3>4, <3>5 DEF JobFollows
  <2>4. CASE CommitFails \/ FinalizeFails
    <3>1. PICK b \in BOOLEAN : pending' = [cfg |-> job.cfg, rev |-> job.rev, committed |-> b]
      BY <2>4 DEF CommitFails, FinalizeFails, KeepFailed
    <3>2. job' = None /\ UNCHANGED <<lastDesired, applied>>
      BY <2>4 DEF CommitFails, FinalizeFails, KeepFailed, JobDone
    <3>3. job # None /\ running = [cfg |-> job.cfg, rev |-> job.rev] /\ running # None
          /\ plan.routes = RoutesOf(job.cfg)
      <4>1. running = [cfg |-> job.cfg, rev |-> job.rev] /\ plan.routes = RoutesOf(job.cfg)
        BY <2>1 DEF JobFollows
      <4>2. QED
        BY <2>1, <4>1, DistinctAssumption DEF Jobs, Versioned
    <3>4. QED
      BY <2>2, <3>1, <3>2, <3>3 DEF JobFollows
  <2>5. CASE Finalize
    <3>1. running # None /\ running = [cfg |-> job.cfg, rev |-> job.rev]
          /\ job' = None /\ pending' = pending /\ pending = None
      BY <2>1, <2>5, DistinctAssumption DEF Finalize, JobDone, JobFollows, Jobs, Versioned
    <3>2. QED
      BY <2>2, <3>1, <2>5 DEF JobFollows
  <2>6. QED
    BY <1>5, <2>3, <2>4, <2>5
<1>6. ASSUME UNCHANGED <<up, job, running, pending, lastDesired, applied, latest, highest>>,
             UNCHANGED plan \/ (running # None /\ plan'.routes = RoutesOf(running.cfg))
      PROVE  JobFollows'
  BY <1>6 DEF JobFollows
<1>7. ASSUME RefreshSniDns PROVE JobFollows'
  BY <1>6, <1>7, RoutesSame DEF RefreshSniDns, memory
<1>8. ASSUME NEW r \in Rules, RestartRule(r) PROVE JobFollows'
  <2>1. PICK closed : closed = [raw EXCEPT ![r] = None]
    OBVIOUS
  <2>2. UNCHANGED plan \/ (running # None /\ plan'.routes = RoutesOf(running.cfg))
    BY <1>8, <2>1, RestartForms, RoutesSame
  <2>3. UNCHANGED <<up, memory, job, running>>
    BY <1>8 DEF RestartRule
  <2>4. QED
    BY <1>6, <2>2, <2>3 DEF memory
<1>9. ASSUME UNCHANGED <<up, memory, job, running, plan>> PROVE JobFollows'
  BY <1>6, <1>9 DEF memory
<1>10. ASSUME Crash PROVE JobFollows'
  BY <1>10 DEF Crash, JobFollows
<1>11. QED
  BY <1>1, <1>2, <1>3, <1>4, <1>5, <1>7, <1>8, <1>9, <1>10
     DEF Next, vars, Publish, InstallCertificates, ListenerDies, CorruptPrimary, runtime
-----------------------------------------------------------------------------
(* Routes, sites and listeners.                                            *)

\* A job is new for what the panel or the disk says, or for what runs already.
LEMMA JobUnless ==
  ASSUME Typed, JobFollows, [Next]_vars, job' # None
  PROVE  \/ /\ job # None /\ job'.kind = job.kind /\ job'.cfg = job.cfg /\ job'.rev = job.rev
            /\ job'.cleanup = job.cleanup
         \/ /\ running # None /\ job'.cfg = running.cfg /\ job'.rev = running.rev
            /\ UNCHANGED <<active, plan, raw, running>>
         \/ /\ UNCHANGED <<active, plan, raw, running>>
            /\ \E r \in 1..height : /\ job'.rev = r
                                    /\ job'.cfg = Effective(content[r], CacheEntry, active)
         \/ /\ UNCHANGED <<active, plan, raw, running>>
            /\ CacheEntry # None /\ job'.rev = CacheEntry.rev
            /\ job'.cfg = Effective(CacheEntry.cfg, CacheEntry, active)
<1>0. MemoryTyped /\ RuntimeTyped
  BY DEF Typed
<1> DEFINE Same == job # None /\ job'.kind = job.kind /\ job'.cfg = job.cfg /\ job'.rev = job.rev
                   /\ job'.cleanup = job.cleanup
           Old == running # None /\ job'.cfg = running.cfg /\ job'.rev = running.rev
                  /\ UNCHANGED <<active, plan, raw, running>>
           Fresh == UNCHANGED <<active, plan, raw, running>>
                    /\ \E r \in 1..height : /\ job'.rev = r
                                    /\ job'.cfg = Effective(content[r], CacheEntry, active)
           Disk == UNCHANGED <<active, plan, raw, running>> /\ CacheEntry # None
                   /\ job'.rev = CacheEntry.rev
                   /\ job'.cfg = Effective(CacheEntry.cfg, CacheEntry, active)
<1>1. ASSUME NEW r \in Revisions, PanelReconcile(r) PROVE Same \/ Old \/ Fresh
  <2>1. PICK e : e = Effective(content[r], CacheEntry, active)
    OBVIOUS
  <2>2. r \in 1..height /\ job = None /\ UNCHANGED <<active, plan, raw, running>>
    BY <1>1, PanelKeeps
  <2>3. CASE /\ PendingMatches(r)
             /\ job' = [kind |-> "retry", cfg |-> pending.cfg, rev |-> r, cleanup |-> TRUE,
                        phase |-> IF pending.committed THEN "committed" ELSE "applied"]
    <3>1. running # None /\ running = [cfg |-> pending.cfg, rev |-> r]
      BY <2>3 DEF PendingMatches, JobFollows
    <3>2. job'.cfg = pending.cfg /\ job'.rev = r
      BY <2>3
    <3>3. QED
      BY <2>2, <3>1, <3>2
  <2>4. CASE Unchanged(r) /\ job' = RepairJob(TRUE)
    BY <2>2, <2>4 DEF RepairJob, Unchanged
  <2>5. CASE job' = [kind |-> "panel", rev |-> r, cleanup |-> TRUE, phase |-> "prepared", cfg |-> e]
    BY <2>1, <2>2, <2>5
  <2>6. QED
    BY <1>1, <2>1, <2>2, <2>3, <2>4, <2>5, PanelForms
<1>2. ASSUME Boot \/ LocalRecoveryTick PROVE Old \/ Disk
  <2>1. PICK e : e = Effective(CacheEntry.cfg, CacheEntry, active)
    OBVIOUS
  <2>2. job = None /\ UNCHANGED <<active, plan, raw, running>>
    BY <1>2, LocalKeeps
  <2>3. CASE LocalRecovery
    <3>1. CacheEntry # None
      BY <2>3 DEF LocalRecovery
    <3>2. CASE running # None /\ job' = RepairJob(FALSE)
      BY <2>2, <3>2 DEF RepairJob
    <3>3. CASE job' = [kind |-> "local", rev |-> CacheEntry.rev, cleanup |-> FALSE,
                       cfg |-> e, phase |-> "prepared"]
      BY <2>1, <2>2, <3>1, <3>3
    <3>4. QED
      BY <2>1, <2>2, <2>3, <3>2, <3>3, LocalForms
  <2>4. QED
    BY <1>2, <2>2, <2>3, LocalKeeps DEF WaitForPanel
<1>3. ASSUME NEW ph, job # None, job' = [job EXCEPT !.phase = ph] PROVE Same
  BY <1>0, <1>3 DEF MemoryTyped, Jobs
<1>4. ASSUME ApplyListeners \/ CommitBackup \/ CommitPrimary PROVE Same
  BY <1>3, <1>4 DEF ApplyListeners, CommitBackup, CommitPrimary, JobDone
<1>5. ASSUME job' = None \/ job' = job PROVE Same
  BY <1>5
<1> HIDE DEF Same, Old, Fresh, Disk
<1>6. Same \/ Old \/ Fresh \/ Disk
  BY <1>1, <1>2, <1>4, <1>5, FailedKeeps DEF Next, vars, Publish, CommitFails, Finalize,
     FinalizeFails, KeepFailed, JobDone, InstallCertificates, RefreshSniDns, RestartRule,
     ListenerDies, CorruptPrimary, Crash
<1>7. QED
  BY <1>6 DEF Same, Old, Fresh, Disk

\* The plan is that of the job being applied or of what runs.
LEMMA PlanUnless ==
  ASSUME [Next]_vars
  PROVE  \/ UNCHANGED plan
         \/ job # None /\ plan' = PlanOf(job.cfg, job.rev)
         \/ running # None /\ plan' \in {PlanOf(running.cfg, running.rev), PlanOf(running.cfg, 0)}
<1>1. ASSUME NEW r \in Rules, RestartRule(r)
      PROVE  UNCHANGED plan \/ (running # None /\ plan' = PlanOf(running.cfg, running.rev))
  <2>1. PICK closed : closed = [raw EXCEPT ![r] = None]
    OBVIOUS
  <2>2. QED
    BY <1>1, <2>1, RestartForms
<1>2. ASSUME BindFails
      PROVE  \/ job # None /\ plan' = PlanOf(job.cfg, job.rev)
             \/ running # None /\ plan' = PlanOf(running.cfg, running.rev)
  BY <1>2 DEF BindFails, RestoredRevision
<1>3. ASSUME NEW r \in Revisions, PanelReconcile(r) PROVE UNCHANGED plan
  BY <1>3, PanelKeeps
<1>4. QED
  BY <1>1, <1>2, <1>3 DEF Next, vars, Publish, Boot, LocalRecoveryTick, ApplyListeners,
     PlanRejected, NginxFails, CommitBackup, CommitPrimary, CommitFails, Finalize, FinalizeFails,
     InstallCertificates, RefreshSniDns, ListenerDies, CorruptPrimary, Crash, runtime

\* What runs changes only when a prepared job is applied.
LEMMA RunningUnless ==
  ASSUME [Next]_vars
  PROVE  \/ UNCHANGED running
         \/ Crash
         \/ /\ ApplyListeners
            /\ running' = [cfg |-> job.cfg, rev |-> job.rev]
<1>1. ASSUME NEW r \in Revisions, PanelReconcile(r) PROVE UNCHANGED running
  BY <1>1, PanelKeeps
<1>2. QED
  BY <1>1, FailedKeeps DEF Next, vars, Publish, Boot, LocalRecoveryTick, ApplyListeners,
     CommitBackup, CommitPrimary, CommitFails, Finalize, FinalizeFails, InstallCertificates,
     RefreshSniDns, RestartRule, ListenerDies, CorruptPrimary, runtime

\* Sites are taken away by finalization only.
LEMMA ActiveUnless ==
  ASSUME [Next]_vars
  PROVE  active \subseteq active' \/ Finalize
<1>1. ASSUME NEW r \in Revisions, PanelReconcile(r) PROVE UNCHANGED active
  BY <1>1, PanelKeeps
<1>2. QED
  BY <1>1, FailedKeeps DEF Next, vars, Publish, Boot, LocalRecoveryTick, ApplyListeners,
     CommitBackup, CommitPrimary, CommitFails, FinalizeFails, InstallCertificates,
     RefreshSniDns, RestartRule, ListenerDies, CorruptPrimary, Crash

\* nginx routes only the names the configuration lists.
LEMMA RoutesAreSnis ==
  ASSUME NEW c, NEW v, NEW r \in Rules, PlanOf(c, v).routes[r] # Off
  PROVE  PlanOf(c, v).routes[r] \in SnisOf(c) /\ c.listen[r] = PlanOf(c, v).routes[r]
BY DEF PlanOf, SnisOf

\* What runs, what is being applied and what nginx routes to is served.
Served ==
  /\ RoutesHaveSites
  /\ running # None => SnisOf(running.cfg) \subseteq active
  /\ job # None => SnisOf(job.cfg) \subseteq active

\* Withheld dependencies never reach a job, and finalization keeps what the
\* applied listeners refer to.
LEMMA ServedStep == Typed /\ Known /\ JobFollows /\ Served /\ [Next]_vars => Served'
<1> SUFFICES ASSUME Typed, Known, JobFollows, Served, [Next]_vars PROVE Served'
  OBVIOUS
<1>1. CASE Finalize
  <2>1. /\ job # None /\ active' = active \cap SnisOf(job.cfg) /\ job' = None
        /\ UNCHANGED <<running, plan>> /\ job.phase = "committed"
    BY <1>1 DEF Finalize, KeptSites, JobDone, runtime
  <2>2. running = [cfg |-> job.cfg, rev |-> job.rev] /\ plan.routes = PlanOf(job.cfg, 0).routes
    BY <2>1 DEF JobFollows, RoutesOf
  <2>3. RoutesHaveSites'
    BY <2>1, <2>2, RoutesAreSnis DEF Served, RoutesHaveSites
  <2>4. running' # None => SnisOf(running'.cfg) \subseteq active'
    BY <2>1, <2>2 DEF Served, SnisOf
  <2>5. QED
    BY <2>1, <2>3, <2>4 DEF Served, SnisOf
<1>2. CASE active \subseteq active'
  <2>1. RoutesHaveSites'
    <3>1. ASSUME NEW c, NEW v, plan' = PlanOf(c, v), SnisOf(c) \subseteq active
          PROVE  RoutesHaveSites'
      BY <1>2, <3>1, RoutesAreSnis DEF RoutesHaveSites
    <3>2. CASE UNCHANGED plan
      BY <1>2, <3>2 DEF Served, RoutesHaveSites
    <3>3. QED
      BY <3>1, <3>2, PlanUnless DEF Served
  <2>2. running' # None => SnisOf(running'.cfg) \subseteq active'
    <3>1. CASE UNCHANGED running
      BY <1>2, <3>1 DEF Served, SnisOf
    <3>2. CASE Crash
      BY <3>2 DEF Crash
    <3>3. CASE ApplyListeners /\ running' = [cfg |-> job.cfg, rev |-> job.rev]
      <4>1. running'.cfg = job.cfg /\ job # None
        BY <3>3 DEF ApplyListeners
      <4>2. QED
        BY <1>2, <4>1 DEF Served, SnisOf
    <3>4. QED
      BY <3>1, <3>2, <3>3, RunningUnless
  <2>3. job' # None => SnisOf(job'.cfg) \subseteq active'
    <3> SUFFICES ASSUME job' # None PROVE SnisOf(job'.cfg) \subseteq active
      BY <1>2
    <3>0. active \in SUBSET Snis /\ CacheEntry \in Versioned \cup {None}
          /\ (CacheEntry # None => CacheEntry.cfg \in Config)
      BY CacheTyped DEF Typed, RuntimeTyped
    <3>1. ASSUME NEW r \in 1..height, job'.cfg = Effective(content[r], CacheEntry, active)
          PROVE  SnisOf(job'.cfg) \subseteq active
      <4>1. content[r] \in Config
        BY ConfigsAssumption DEF Typed, LogTyped
      <4>2. QED
        BY <3>0, <3>1, <4>1, EffectiveIs
    <3>2. CASE CacheEntry # None /\ job'.cfg = Effective(CacheEntry.cfg, CacheEntry, active)
      BY <3>0, <3>2, EffectiveIs
    <3>3. ASSUME NEW c, job'.cfg = c, SnisOf(c) \subseteq active
          PROVE  SnisOf(job'.cfg) \subseteq active
      BY <3>3
    <3>4. QED
      BY <3>1, <3>2, <3>3, JobUnless DEF Served
  <2>4. QED
    BY <2>1, <2>2, <2>3 DEF Served, SnisOf
<1>3. QED
  BY <1>1, <1>2, ActiveUnless

-----------------------------------------------------------------------------
(* What counters and nginx can be asked about.                             *)

\* Appending to the log does not make a faithful configuration unfaithful.
LEMMA FaithfulKept ==
  ASSUME NEW h \in Nat, NEW k \in Nat, NEW f, NEW g, NEW c, NEW v,
         Faithful(h, f, c, v), h <= k, \A r \in 1..h : g[r] = f[r]
  PROVE  Faithful(k, g, c, v)
BY DEF Faithful

\* A listener is kept, started under the revision of the job, or missing.
LEMMA ListenersAre ==
  ASSUME NEW old, NEW c, NEW v, NEW cleanup, NEW T, NEW r \in Rules,
         NEW new, new = Listeners(old, c, v, cleanup, T)
  PROVE  \/ new[r] = None
         \/ new[r] = old[r]
         \/ c.listen[r] \in Raws /\ new[r] = [spec |-> c.listen[r], rev |-> v]
BY DEF Listeners

\* The listener of rule r was started for the configuration of v.
Started(r, v) == v # None /\ v.cfg.listen[r] \in Raws
                 /\ raw'[r] = [spec |-> v.cfg.listen[r], rev |-> v.rev]

\* A listener lives on, is gone, or was started for the job or for the running
\* configuration (a restored or restarted one).
LEMMA RawUnless ==
  ASSUME Typed, [Next]_vars, NEW r \in Rules
  PROVE  raw'[r] = None \/ raw'[r] = raw[r] \/ Started(r, job) \/ Started(r, running)
<1>0. MemoryTyped /\ RuntimeTyped
  BY DEF Typed
<1>1. ASSUME NEW q \in Rules, RestartRule(q)
      PROVE  raw'[r] = None \/ raw'[r] = raw[r] \/ Started(r, running)
  <2>1. PICK closed : closed = [raw EXCEPT ![q] = None]
    OBVIOUS
  <2>2. closed[r] = None \/ closed[r] = raw[r]
    BY <1>0, <2>1 DEF RuntimeTyped
  <2>3. ASSUME NEW T \in SUBSET Rules, running # None,
               raw' = Listeners(closed, running.cfg, running.rev, TRUE, T)
        PROVE  raw'[r] = None \/ raw'[r] = raw[r] \/ Started(r, running)
    <3>1. PICK new : new = Listeners(closed, running.cfg, running.rev, TRUE, T)
      OBVIOUS
    <3>2. \/ new[r] = None \/ new[r] = closed[r]
          \/ /\ running.cfg.listen[r] \in Raws
             /\ new[r] = [spec |-> running.cfg.listen[r], rev |-> running.rev]
      BY <3>1 DEF Listeners
    <3>3. QED
      BY <2>2, <2>3, <3>1, <3>2 DEF Started
  <2>4. raw' = closed \/ (running # None /\ \E T \in SUBSET Rules :
                            raw' = Listeners(closed, running.cfg, running.rev, TRUE, T))
    BY <1>1, <2>1, RestartForms
  <2>5. QED
    BY <2>2, <2>3, <2>4
<1>2. ASSUME ApplyListeners PROVE raw'[r] = None \/ raw'[r] = raw[r] \/ Started(r, job)
  <2>1. job # None /\ job.cleanup \in BOOLEAN
        /\ raw' = Listeners(raw, job.cfg, job.rev, job.cleanup, Rules)
    BY <1>0, <1>2 DEF ApplyListeners, MemoryTyped, Jobs
  <2>2. QED
    BY <2>1, ListenersAre DEF Started
<1>3. ASSUME BindFails
      PROVE  raw'[r] = None \/ raw'[r] = raw[r] \/ Started(r, job) \/ Started(r, running)
  <2>1. PICK T \in SUBSET MustStart(job.cfg), T2 \in SUBSET Rules :
          \/ raw' = Listeners(raw, job.cfg, job.rev, job.cleanup, T)
          \/ /\ running # None
             /\ raw' = Listeners(Listeners(raw, job.cfg, job.rev, job.cleanup, T),
                                 running.cfg, RestoredRevision, TRUE, T2)
    BY <1>3 DEF BindFails
  <2>2. job # None /\ job.cleanup \in BOOLEAN
    BY <1>0, <1>3, FailedKeeps DEF MemoryTyped, Jobs
  <2>3. PICK mid : mid = Listeners(raw, job.cfg, job.rev, job.cleanup, T)
    OBVIOUS
  <2>4. \/ mid[r] = None \/ mid[r] = raw[r]
        \/ job.cfg.listen[r] \in Raws /\ mid[r] = [spec |-> job.cfg.listen[r], rev |-> job.rev]
    BY <2>2, <2>3, ListenersAre
  <2>5. CASE raw' = mid
    BY <2>2, <2>4, <2>5 DEF Started
  <2>6. CASE running # None /\ raw' = Listeners(mid, running.cfg, RestoredRevision, TRUE, T2)
    <3>1. \/ raw'[r] = None \/ raw'[r] = mid[r]
          \/ /\ running.cfg.listen[r] \in Raws
             /\ raw'[r] = [spec |-> running.cfg.listen[r], rev |-> running.rev]
      <4>1. PICK new : new = Listeners(mid, running.cfg, running.rev, TRUE, T2)
        OBVIOUS
      <4>2. \/ new[r] = None \/ new[r] = mid[r]
            \/ /\ running.cfg.listen[r] \in Raws
               /\ new[r] = [spec |-> running.cfg.listen[r], rev |-> running.rev]
        BY <4>1 DEF Listeners
      <4>3. QED
        BY <2>6, <4>1, <4>2 DEF RestoredRevision
    <3>2. QED
      BY <2>2, <2>4, <2>6, <3>1 DEF Started
  <2>7. QED
    BY <2>1, <2>3, <2>5, <2>6
<1>4. ASSUME NEW q \in Revisions, PanelReconcile(q) PROVE UNCHANGED raw
  BY <1>4, PanelKeeps
<1>5. ASSUME NEW q \in Rules, ListenerDies(q) PROVE raw'[r] = None \/ raw'[r] = raw[r]
  BY <1>0, <1>5 DEF ListenerDies, RuntimeTyped
<1>6. ASSUME Crash PROVE raw'[r] = None
  BY <1>6 DEF Crash
<1>7. QED
  BY <1>1, <1>2, <1>3, <1>4, <1>5, <1>6 DEF Next, vars, Publish, Boot, LocalRecoveryTick,
     PlanRejected, NginxFails, CommitBackup, CommitPrimary, CommitFails, Finalize, FinalizeFails,
     InstallCertificates, RefreshSniDns, CorruptPrimary, runtime

\* The files on disk change by a commit, a repair and a fault.
LEMMA DiskUnless ==
  ASSUME Typed, JobFollows, [Next]_vars
  PROVE  /\ backup' = backup \/ (CommitBackup /\ primary # None /\ backup' = primary)
         /\ \/ primary' = primary
            \/ job = None /\ primary' = CacheEntry /\ UNCHANGED <<backup, corrupted>>
            \/ CorruptPrimary
            \/ /\ job # None /\ job.phase = "backed" /\ UNCHANGED <<backup, corrupted>>
               /\ primary' = [cfg |-> job.cfg, rev |-> job.rev]
<1>1. ASSUME NEW r \in Revisions, PanelReconcile(r)
      PROVE  backup' = backup /\ job = None /\ corrupted' = corrupted
             /\ primary' \in {primary, CacheEntry}
  <2>1. PICK e : e = Effective(content[r], CacheEntry, active)
    OBVIOUS
  <2>2. QED
    BY <1>1, <2>1, PanelKeeps, PanelForms DEF RepairPrimary
<1>2. ASSUME Boot \/ LocalRecoveryTick
      PROVE  backup' = backup /\ job = None /\ corrupted' = corrupted
             /\ primary' \in {primary, CacheEntry}
  BY <1>2, LocalKeeps DEF LocalRecovery, WaitForPanel, RepairPrimary
<1>3. ASSUME CommitBackup \/ CommitPrimary \/ CommitFails
      PROVE  /\ backup' = backup \/ (CommitBackup /\ primary # None /\ backup' = primary)
             /\ \/ primary' = primary
                \/ /\ job # None /\ job.phase = "backed" /\ UNCHANGED <<backup, corrupted>>
                   /\ primary' = [cfg |-> job.cfg, rev |-> job.rev]
  BY <1>3 DEF CommitBackup, CommitPrimary, CommitFails, NoFault
<1>4. QED
  BY <1>1, <1>2, <1>3, FailedKeeps DEF Next, vars, Publish, ApplyListeners, Finalize,
     FinalizeFails, InstallCertificates, RefreshSniDns, RestartRule, ListenerDies,
     CorruptPrimary, Crash, lkg

\* A repair and the read of the cache take what one of the files holds.
LEMMA CacheKnown ==
  ASSUME Known, CacheEntry # None
  PROVE  Faithful(height, content, CacheEntry.cfg, CacheEntry.rev)
BY DEF Known, CacheEntry

\* Whatever is preserved, withheld, restored or recovered, a configuration on
\* the node stays faithful to the revision it is under.
LEMMA KnownStep == Typed /\ Known /\ JobFollows /\ [Next]_vars => Known'
<1> SUFFICES ASSUME Typed, Known, JobFollows, [Next]_vars PROVE Known'
  OBVIOUS
<1>0. /\ height \in Nat /\ height' \in Nat /\ height <= height'
      /\ \A r \in 1..height : content'[r] = content[r]
      /\ MemoryTyped /\ RuntimeTyped /\ DiskTyped
  BY LogStep, BoundsAssumption DEF Typed, LogTyped
<1>1. \A c, v : Faithful(height, content, c, v) => Faithful(height', content', c, v)
  BY <1>0, FaithfulKept
<1>2. running' # None => Faithful(height', content', running'.cfg, running'.rev)
  <2>1. CASE UNCHANGED running
    BY <1>1, <2>1 DEF Known
  <2>2. CASE ApplyListeners /\ running' = [cfg |-> job.cfg, rev |-> job.rev]
    <3>1. job # None /\ running'.cfg = job.cfg /\ running'.rev = job.rev
      BY <2>2 DEF ApplyListeners
    <3>2. QED
      BY <1>1, <3>1 DEF Known
  <2>3. QED
    BY <2>1, <2>2, RunningUnless DEF Crash
<1>3. primary' # None => Faithful(height', content', primary'.cfg, primary'.rev)
  <2>1. CASE primary' = primary
    BY <1>1, <2>1 DEF Known
  <2>2. CASE primary' = CacheEntry
    BY <1>1, <2>2, CacheKnown
  <2>3. CASE job # None /\ primary' = [cfg |-> job.cfg, rev |-> job.rev]
    <3>1. primary'.cfg = job.cfg /\ primary'.rev = job.rev
      BY <2>3
    <3>2. QED
      BY <1>1, <2>3, <3>1 DEF Known
  <2>4. QED
    BY <2>1, <2>2, <2>3, DiskUnless DEF CorruptPrimary
<1>4. backup' # None => Faithful(height', content', backup'.cfg, backup'.rev)
  <2>1. backup' = backup \/ (primary # None /\ backup' = primary)
    BY DiskUnless
  <2>2. QED
    BY <1>1, <2>1 DEF Known
<1>5. job' # None => Faithful(height', content', job'.cfg, job'.rev)
  <2> SUFFICES ASSUME job' # None PROVE Faithful(height, content, job'.cfg, job'.rev)
    BY <1>1
  <2>1. ASSUME NEW c \in Config, NEW v, Faithful(height, content, c, v),
               job'.rev = v, job'.cfg = Effective(c, CacheEntry, active)
        PROVE  Faithful(height, content, job'.cfg, job'.rev)
    <3>1. \A r \in Rules : /\ job'.cfg.listen[r] \in Raws => c.listen[r] = job'.cfg.listen[r]
                           /\ job'.cfg.listen[r] # Off => c.listen[r] # Off
      BY <1>0, <2>1, CacheTyped, EffectiveIs DEF RuntimeTyped
    <3>2. QED
      BY <2>1, <3>1 DEF Faithful
  <2>2. ASSUME NEW r \in 1..height, job'.rev = r,
               job'.cfg = Effective(content[r], CacheEntry, active)
        PROVE  Faithful(height, content, job'.cfg, job'.rev)
    <3>1. content[r] \in Config /\ Faithful(height, content, content[r], r)
      BY ConfigsAssumption DEF Typed, LogTyped, Faithful
    <3>2. QED
      BY <2>1, <2>2, <3>1
  <2>3. CASE /\ CacheEntry # None /\ job'.rev = CacheEntry.rev
             /\ job'.cfg = Effective(CacheEntry.cfg, CacheEntry, active)
    <3>1. CacheEntry.cfg \in Config /\ Faithful(height, content, CacheEntry.cfg, CacheEntry.rev)
      BY <1>0, <2>3, CacheTyped, CacheKnown
    <3>2. QED
      BY <2>1, <2>3, <3>1
  <2>4. ASSUME NEW c, NEW v, Faithful(height, content, c, v), job'.cfg = c, job'.rev = v
        PROVE  Faithful(height, content, job'.cfg, job'.rev)
    BY <2>4
  <2>5. QED
    BY <2>2, <2>3, <2>4, JobUnless DEF Known
<1>6. \A r \in Rules : raw'[r] # None =>
        raw'[r].rev <= height' /\ content'[raw'[r].rev].listen[r] = raw'[r].spec
  <2> SUFFICES ASSUME NEW r \in Rules, raw'[r] # None
               PROVE  raw'[r].rev <= height' /\ content'[raw'[r].rev].listen[r] = raw'[r].spec
    OBVIOUS
  <2>1. CASE raw'[r] = raw[r]
    <3>1. raw[r] \in Lives /\ raw[r].rev \in 1..height
      BY <1>0, <2>1 DEF RuntimeTyped, Lives, Revisions, Known
    <3>2. content[raw[r].rev].listen[r] = raw[r].spec
      BY <2>1 DEF Known, TagsAreAccountable
    <3>3. QED
      BY <1>0, <2>1, <3>1, <3>2
  <2>2. ASSUME NEW v, Started(r, v), Faithful(height, content, v.cfg, v.rev)
        PROVE  raw'[r].rev <= height' /\ content'[raw'[r].rev].listen[r] = raw'[r].spec
    <3>1. /\ raw'[r].rev = v.rev /\ raw'[r].spec = v.cfg.listen[r] /\ v.cfg.listen[r] \in Raws
          /\ v.rev \in 1..height /\ content[v.rev].listen[r] = v.cfg.listen[r]
      BY <2>2 DEF Started, Faithful
    <3>2. QED
      BY <1>0, <3>1
  <2>3. QED
    BY <2>1, <2>2, RawUnless DEF Known, Started
<1>7. plan'.rev <= height' /\ \A r \in Rules :
        plan'.rev # 0 /\ plan'.routes[r] # Off => content'[plan'.rev].listen[r] # Off
  <2>1. CASE UNCHANGED plan
    <3>1. plan.rev \in 0..height
      BY <1>0 DEF RuntimeTyped, Known
    <3>2. \A r \in Rules : plan.rev # 0 /\ plan.routes[r] # Off => content[plan.rev].listen[r] # Off
      BY DEF Known, TagsAreAccountable
    <3>3. QED
      BY <1>0, <2>1, <3>1, <3>2
  <2>2. ASSUME NEW c, NEW v, NEW w \in {v, 0}, plan' = PlanOf(c, w), Faithful(height, content, c, v)
        PROVE  plan'.rev <= height' /\ \A r \in Rules :
                 plan'.rev # 0 /\ plan'.routes[r] # Off => content'[plan'.rev].listen[r] # Off
    <3>1. plan'.rev = w /\ v \in 1..height
          /\ \A r \in Rules : plan'.routes[r] # Off => c.listen[r] # Off
      BY <2>2, DistinctAssumption DEF PlanOf, Faithful
    <3>2. \A r \in Rules : plan'.rev # 0 /\ plan'.routes[r] # Off => content[v].listen[r] # Off
      BY <2>2, <3>1 DEF Faithful
    <3>3. QED
      BY <1>0, <2>2, <3>1, <3>2
  <2>3. QED
    BY <2>1, <2>2, PlanUnless DEF Known
<1>8. latest' <= height' /\ highest' <= height'
  <2>1. ASSUME NEW r \in Revisions, PanelReconcile(r)
        PROVE  latest' <= height' /\ highest' <= height'
    BY <1>0, <2>1, PanelKeeps
  <2>2. ASSUME Boot \/ LocalRecoveryTick PROVE latest' <= height' /\ highest' <= height'
    <3>1. latest' = latest /\ highest' \in {highest, CacheEntry.rev}
          /\ (highest' # highest => CacheEntry # None)
      BY <2>2, LocalKeeps DEF LocalRecovery, WaitForPanel
    <3>2. CacheEntry # None => CacheEntry.rev \in 1..height
      BY CacheKnown DEF Faithful
    <3>3. QED
      BY <1>0, <3>1, <3>2 DEF Known, MemoryTyped
  <2>3. ASSUME UNCHANGED <<latest, highest>> PROVE latest' <= height' /\ highest' <= height'
    BY <1>0, <2>3 DEF Known, MemoryTyped
  <2>4. ASSUME Crash PROVE latest' <= height' /\ highest' <= height'
    BY <1>0, <2>4 DEF Crash
  <2>5. QED
    BY <2>1, <2>2, <2>3, <2>4, FailedKeeps DEF Next, vars, memory, Publish, ApplyListeners,
       CommitBackup, CommitPrimary, CommitFails, Finalize, FinalizeFails, InstallCertificates,
       RefreshSniDns, RestartRule, ListenerDies, CorruptPrimary
<1>9. TagsAreAccountable'
  BY <1>6, <1>7 DEF TagsAreAccountable
<1>10. \A r \in Rules : raw'[r] # None => raw'[r].rev <= height'
  BY <1>6
<1>11. QED
  BY <1>2, <1>3, <1>4, <1>5, <1>7, <1>8, <1>9, <1>10 DEF Known

-----------------------------------------------------------------------------
(* The last-known-good configuration.                                      *)

\* Until a file is damaged, a valid backup stands behind a valid primary; what
\* waits for finalization has been committed.
DiskFollows ==
  /\ ~corrupted /\ backup # None => primary # None
  /\ job # None /\ job.phase = "committed" =>
       corrupted \/ primary = [cfg |-> job.cfg, rev |-> job.rev]
  /\ pending # None /\ pending.committed => corrupted \/ primary = running
  /\ LkgSurvives
  /\ LkgSitesPresent

\* A repair writes nothing new while no file is damaged, and never loses one.
LEMMA RepairKeeps ==
  ASSUME DiskFollows, primary' \in {primary, CacheEntry}, UNCHANGED <<backup, corrupted>>
  PROVE  /\ ~corrupted => primary' = primary
         /\ LkgSurvives' /\ (~corrupted' /\ backup' # None => primary' # None)
BY DEF DiskFollows, CacheEntry, LkgSurvives

\* Sites are taken away after the commit, and no interrupted commit, repair or
\* damaged file leaves the node without an LKG.
LEMMA DiskStep == Typed /\ JobFollows /\ Served /\ DiskFollows /\ [Next]_vars => DiskFollows'
<1> SUFFICES ASSUME Typed, JobFollows, Served, DiskFollows, [Next]_vars PROVE DiskFollows'
  OBVIOUS
<1>0. MemoryTyped /\ RuntimeTyped /\ DiskTyped
  BY DEF Typed
<1>1. ASSUME NEW r \in Revisions, PanelReconcile(r) PROVE DiskFollows'
  <2>1. PICK e : e = Effective(content[r], CacheEntry, active)
    OBVIOUS
  <2>2. /\ job = None /\ pending' = None
        /\ UNCHANGED <<running, active, backup, corrupted>>
    BY <1>1, PanelKeeps
  <2>3. primary' \in {primary, CacheEntry}
    BY <1>1, <2>1, PanelForms DEF RepairPrimary
  <2>4. LkgSitesPresent' /\ LkgSurvives' /\ (~corrupted' /\ backup' # None => primary' # None)
    BY <2>2, <2>3, RepairKeeps DEF DiskFollows, LkgSitesPresent, SnisOf
  <2>5. job' # None /\ job'.phase = "committed" =>
          corrupted' \/ primary' = [cfg |-> job'.cfg, rev |-> job'.rev]
    <3>1. CASE /\ PendingMatches(r) /\ primary' = primary
               /\ job' = [kind |-> "retry", cfg |-> pending.cfg, rev |-> r, cleanup |-> TRUE,
                          phase |-> IF pending.committed THEN "committed" ELSE "applied"]
      <4>1. running = [cfg |-> pending.cfg, rev |-> r] /\ pending # None
        BY <3>1 DEF PendingMatches, JobFollows
      <4>2. job'.cfg = pending.cfg /\ job'.rev = r
            /\ (job'.phase = "committed" => pending.committed)
        BY <3>1
      <4>3. pending.committed => corrupted \/ primary = running
        BY <4>1 DEF DiskFollows
      <4>4. QED
        BY <2>2, <3>1, <4>1, <4>2, <4>3
    <3>2. CASE job' = job
      BY <2>2, <3>2
    <3>3. CASE job' = RepairJob(TRUE)
      BY <3>3 DEF RepairJob
    <3>4. CASE job' = [kind |-> "panel", rev |-> r, cleanup |-> TRUE, phase |-> "prepared",
                       cfg |-> e]
      BY <3>4
    <3>5. QED
      BY <1>1, <2>1, <3>1, <3>2, <3>3, <3>4, PanelForms
  <2>6. QED
    BY <2>2, <2>4, <2>5 DEF DiskFollows
<1>2. ASSUME Boot \/ LocalRecoveryTick PROVE DiskFollows'
  <2>1. PICK e : e = Effective(CacheEntry.cfg, CacheEntry, active)
    OBVIOUS
  <2>2. job = None /\ UNCHANGED <<pending, running, active, backup, corrupted>>
    BY <1>2, LocalKeeps
  <2>3. primary' \in {primary, CacheEntry}
    BY <1>2, LocalKeeps DEF LocalRecovery, WaitForPanel, RepairPrimary
  <2>4. job' # None => job'.phase # "committed"
    <3>1. CASE LocalRecovery
      BY <2>1, <2>2, <3>1, LocalForms DEF RepairJob
    <3>2. CASE WaitForPanel
      BY <2>2, <3>2 DEF WaitForPanel
    <3>3. QED
      BY <1>2, <3>1, <3>2, LocalKeeps
  <2>5. LkgSitesPresent' /\ LkgSurvives' /\ (~corrupted' /\ backup' # None => primary' # None)
    BY <2>2, <2>3, RepairKeeps DEF DiskFollows, LkgSitesPresent, SnisOf
  <2>6. pending' # None /\ pending'.committed => corrupted' \/ primary' = running'
    BY <2>2, <2>3, RepairKeeps DEF DiskFollows
  <2>7. QED
    BY <2>4, <2>5, <2>6 DEF DiskFollows
<1>3. ASSUME UNCHANGED <<primary, backup, corrupted>>, active \subseteq active'
      PROVE  /\ LkgSitesPresent' /\ LkgSurvives'
             /\ ~corrupted' /\ backup' # None => primary' # None
  BY <1>3 DEF DiskFollows, LkgSitesPresent, LkgSurvives, SnisOf
<1>4. ASSUME ApplyListeners PROVE DiskFollows'
  <2>1. /\ job # None /\ UNCHANGED <<primary, backup, corrupted, active, pending>>
        /\ job' = None \/ job' = [job EXCEPT !.phase = "applied"]
    BY <1>4 DEF ApplyListeners, lkg, NoFault, JobDone
  <2>2. pending = None /\ (job' # None => job'.phase # "committed")
    BY <1>0, <2>1 DEF JobFollows, MemoryTyped, Jobs
  <2>3. QED
    BY <1>3, <2>1, <2>2 DEF DiskFollows
<1>5. ASSUME PlanRejected \/ NginxFails \/ BindFails PROVE DiskFollows'
  <2>1. /\ job # None /\ job' = None
        /\ UNCHANGED <<primary, backup, corrupted, active, pending>>
    BY <1>5, FailedKeeps
  <2>2. QED
    BY <1>3, <2>1 DEF DiskFollows, JobFollows
<1>6. ASSUME CommitBackup PROVE DiskFollows'
  <2>1. /\ job # None /\ job' = [job EXCEPT !.phase = "backed"]
        /\ UNCHANGED <<primary, corrupted, active, pending>>
        /\ backup' = IF primary # None THEN primary ELSE backup
    BY <1>6 DEF CommitBackup, memory, NoFault
  <2>2. job'.phase # "committed" /\ pending = None
    BY <1>0, <2>1 DEF JobFollows, MemoryTyped, Jobs
  <2>3. QED
    BY <2>1, <2>2 DEF DiskFollows, LkgSitesPresent, LkgSurvives, SnisOf
<1>7. ASSUME job # None, primary' = [cfg |-> job.cfg, rev |-> job.rev],
             UNCHANGED <<backup, corrupted, active>>
      PROVE  /\ LkgSitesPresent' /\ LkgSurvives'
             /\ ~corrupted' /\ backup' # None => primary' # None
  <2>1. [cfg |-> job.cfg, rev |-> job.rev] # None /\ primary'.cfg = job.cfg
    BY <1>0, <1>7, DistinctAssumption DEF MemoryTyped, Jobs, Versioned
  <2>2. QED
    BY <1>7, <2>1 DEF Served, LkgSitesPresent, LkgSurvives, SnisOf
<1>8. ASSUME CommitPrimary PROVE DiskFollows'
  <2>1. /\ job # None /\ job' = [job EXCEPT !.phase = "committed"]
        /\ primary' = [cfg |-> job.cfg, rev |-> job.rev]
        /\ UNCHANGED <<backup, corrupted, active, pending>>
    BY <1>8 DEF CommitPrimary, memory, NoFault
  <2>2. job'.cfg = job.cfg /\ job'.rev = job.rev /\ pending = None
    BY <1>0, <2>1 DEF JobFollows, MemoryTyped, Jobs
  <2>3. QED
    BY <1>7, <2>1, <2>2 DEF DiskFollows
<1>9. ASSUME CommitFails PROVE DiskFollows'
  <2>1. /\ job # None /\ job' = None /\ ~pending'.committed
        /\ primary' = primary \/ primary' = [cfg |-> job.cfg, rev |-> job.rev]
        /\ UNCHANGED <<backup, corrupted, active>>
    BY <1>9 DEF CommitFails, KeepFailed, JobDone
  <2>2. QED
    BY <1>3, <1>7, <2>1 DEF DiskFollows
<1>10. ASSUME Finalize PROVE DiskFollows'
  <2>1. /\ job # None /\ job' = None /\ job.phase = "committed"
        /\ active' = active \cap SnisOf(job.cfg)
        /\ UNCHANGED <<primary, backup, corrupted, pending>>
    BY <1>10 DEF Finalize, JobDone, KeptSites, lkg, NoFault
  <2>2. pending = None /\ (corrupted \/ primary = [cfg |-> job.cfg, rev |-> job.rev])
    BY <2>1 DEF JobFollows, DiskFollows
  <2>3. LkgSitesPresent'
    BY <2>1, <2>2 DEF DiskFollows, LkgSitesPresent, SnisOf
  <2>4. QED
    BY <2>1, <2>2, <2>3 DEF DiskFollows, LkgSurvives
<1>11. ASSUME FinalizeFails PROVE DiskFollows'
  <2>1. /\ job # None /\ job' = None /\ job.phase = "committed"
        /\ UNCHANGED <<primary, backup, corrupted, active, running>>
    BY <1>11 DEF FinalizeFails, KeepFailed, JobDone, lkg, runtime
  <2>2. running = [cfg |-> job.cfg, rev |-> job.rev]
        /\ (corrupted \/ primary = [cfg |-> job.cfg, rev |-> job.rev])
    BY <2>1 DEF JobFollows, DiskFollows
  <2>3. QED
    BY <1>3, <2>1, <2>2 DEF DiskFollows
<1>12. ASSUME CorruptPrimary PROVE DiskFollows'
  BY <1>12 DEF CorruptPrimary, memory, runtime, DiskFollows, LkgSurvives, LkgSitesPresent
<1>13. ASSUME Crash PROVE DiskFollows'
  <2>1. job' = None /\ pending' = None /\ UNCHANGED <<primary, backup, corrupted, active>>
    BY <1>13 DEF Crash, lkg
  <2>2. QED
    BY <1>3, <2>1 DEF DiskFollows
<1>14. ASSUME UNCHANGED <<primary, backup, corrupted, job, pending, running>>,
              active \subseteq active'
       PROVE  DiskFollows'
  BY <1>3, <1>14 DEF DiskFollows
<1>15. QED
  BY <1>1, <1>2, <1>4, <1>5, <1>6, <1>8, <1>9, <1>10, <1>11, <1>12, <1>13, <1>14 DEF Next, vars,
     memory, runtime, lkg, NoFault, Publish, InstallCertificates, RefreshSniDns, RestartRule,
     ListenerDies
-----------------------------------------------------------------------------
(* Revision numbers.                                                       *)

\* The backup is never newer than the primary, and a running node has taken
\* into its highest number whatever it runs, applies or keeps on disk.
Ascending ==
  /\ primary # None /\ backup # None => backup.rev <= primary.rev
  /\ up => /\ primary # None => primary.rev <= highest
           /\ backup # None => backup.rev <= highest
           /\ running # None => running.rev <= highest
           /\ applied # None => applied.rev <= highest
           /\ job # None => job.rev <= highest

\* The numbers that Ascending compares are natural numbers.
LEMMA NumbersTyped ==
  ASSUME Typed
  PROVE  /\ highest \in Nat /\ latest \in Nat
         /\ primary # None => primary.rev \in Nat
         /\ backup # None => backup.rev \in Nat
         /\ running # None => running.rev \in Nat
         /\ applied # None => applied.rev \in Nat
         /\ job # None => job.rev \in Nat
         /\ pending # None => pending.rev \in Nat
BY BoundsAssumption DEF Typed, MemoryTyped, RuntimeTyped, DiskTyped, Versioned, Jobs, Pendings,
   Revisions

\* What the cache offers is at least as new as either file.
LEMMA CacheTops ==
  ASSUME Typed, Ascending, CacheEntry # None
  PROVE  /\ CacheEntry.rev \in Nat
         /\ primary # None => primary.rev <= CacheEntry.rev
         /\ backup # None => backup.rev <= CacheEntry.rev
         /\ up => CacheEntry.rev <= highest
BY NumbersTyped DEF Ascending, CacheEntry

\* Deliveries, recoveries, commits and crashes keep the numbers in order.
LEMMA AscendingStep == Typed /\ JobFollows /\ Ascending /\ [Next]_vars => Ascending'
<1> SUFFICES ASSUME Typed, JobFollows, Ascending, [Next]_vars PROVE Ascending'
  OBVIOUS
<1>0. MemoryTyped /\ RuntimeTyped /\ DiskTyped
  BY DEF Typed
<1>1. ASSUME NEW r \in Revisions, PanelReconcile(r) PROVE Ascending'
  <2>1. PICK e : e = Effective(content[r], CacheEntry, active)
    OBVIOUS
  <2>2. /\ up /\ highest' = r /\ r \in Nat /\ highest <= r /\ job = None
        /\ UNCHANGED <<applied, running, backup>>
    BY <1>1, PanelKeeps, BoundsAssumption DEF Accepts, Revisions
  <2>3. primary' = primary \/ primary' = CacheEntry
    BY <1>1, <2>1, PanelForms DEF RepairPrimary
  <2>4. job' # None => job'.rev = r \/ (running # None /\ job'.rev = running.rev)
    <3>1. Unchanged(r) => running # None
      BY DEF Unchanged
    <3>2. QED
      BY <1>1, <2>1, <2>2, <3>1, PanelForms DEF RepairJob
  <2>5. (primary' # None => primary'.rev <= r)
        /\ (primary' # None /\ backup # None => backup.rev <= primary'.rev)
    BY <2>2, <2>3, NumbersTyped, CacheTops DEF Ascending
  <2>6. QED
    BY <2>2, <2>4, <2>5, NumbersTyped DEF Ascending
<1>2. ASSUME Boot \/ LocalRecoveryTick PROVE Ascending'
  <2>1. PICK e : e = Effective(CacheEntry.cfg, CacheEntry, active)
    OBVIOUS
  <2>2. job = None /\ UNCHANGED <<applied, running, backup>>
    BY <1>2, LocalKeeps
  <2>3. CASE LocalRecovery
    <3>1. CacheEntry # None /\ (primary' = primary \/ primary' = CacheEntry)
          /\ highest' = IF CacheEntry.rev > highest THEN CacheEntry.rev ELSE highest
      BY <2>3 DEF LocalRecovery, RepairPrimary
    <3>2. highest' \in Nat /\ highest <= highest' /\ CacheEntry.rev <= highest'
      BY <3>1, NumbersTyped, CacheTops
    <3>3. /\ primary' # None => primary'.rev <= highest'
          /\ backup # None => backup.rev <= highest'
          /\ primary' # None /\ backup # None => backup.rev <= primary'.rev
      BY <3>1, <3>2, NumbersTyped, CacheTops DEF Ascending
    <3>4. (running # None => running.rev <= highest') /\ (applied # None => applied.rev <= highest')
      <4>1. ~up => running = None /\ applied = None
        BY DEF JobFollows
      <4>2. QED
        BY <3>2, <4>1, NumbersTyped DEF Ascending
    <3>5. job' # None => job'.rev = CacheEntry.rev \/ (running # None /\ job'.rev = running.rev)
      BY <2>1, <2>2, <2>3, LocalForms DEF RepairJob
    <3>6. QED
      BY <2>2, <3>2, <3>3, <3>4, <3>5 DEF Ascending
  <2>4. CASE WaitForPanel /\ running = None
    <3>1. primary = None /\ backup = None /\ primary' = primary /\ job' = job /\ applied = None
      BY <2>4 DEF WaitForPanel, CacheEntry, JobFollows
    <3>2. QED
      BY <2>2, <2>4, <3>1 DEF Ascending
  <2>5. QED
    BY <1>2, <2>3, <2>4, LocalKeeps
<1>3. ASSUME ApplyListeners PROVE Ascending'
  <2>1. job # None /\ UNCHANGED <<up, highest, primary, backup>>
    BY <1>3 DEF ApplyListeners, lkg
  <2>2. running'.rev = job.rev
    BY <1>3 DEF ApplyListeners
  <2>3. applied' = applied \/ applied'.rev = job.rev
    BY <1>3, <2>2 DEF ApplyListeners
  <2>4. job' = None \/ job'.rev = job.rev
    BY <1>0, <1>3, <2>1 DEF ApplyListeners, JobDone, MemoryTyped, Jobs
  <2>5. QED
    BY <2>1, <2>2, <2>3, <2>4 DEF Ascending
<1>4. ASSUME CommitBackup PROVE Ascending'
  <2>1. /\ UNCHANGED <<up, highest, running, applied, primary>> /\ job # None
        /\ backup' = IF primary # None THEN primary ELSE backup
        /\ job' = [job EXCEPT !.phase = "backed"]
    BY <1>4 DEF CommitBackup, memory, runtime
  <2>2. job'.rev = job.rev
    BY <1>0, <2>1 DEF MemoryTyped, Jobs
  <2>3. QED
    BY <2>1, <2>2, NumbersTyped DEF Ascending
<1>5. ASSUME job # None, job.phase \in {"applied", "backed"},
             UNCHANGED <<up, highest, running, applied, backup>>,
             primary' = primary \/ primary' = [cfg |-> job.cfg, rev |-> job.rev],
             job' = None \/ job'.rev = job.rev
      PROVE  Ascending'
  <2>1. up /\ job.rev = highest
    BY <1>0, <1>5 DEF JobFollows, MemoryTyped
  <2>2. primary' = primary \/ primary'.rev = highest
    BY <1>5, <2>1
  <2>3. QED
    BY <1>5, <2>1, <2>2, NumbersTyped DEF Ascending
<1>6. ASSUME CommitPrimary PROVE Ascending'
  <2>1. job # None /\ job'.rev = job.rev
    BY <1>0, <1>6 DEF CommitPrimary, MemoryTyped, Jobs
  <2>2. UNCHANGED <<up, highest, running, applied, backup>>
    BY <1>6 DEF CommitPrimary, memory, runtime
  <2>3. QED
    BY <1>5, <1>6, <2>1, <2>2 DEF CommitPrimary
<1>7. ASSUME CommitFails PROVE Ascending'
  <2>1. UNCHANGED <<up, highest, running, applied, backup>>
    BY <1>7 DEF CommitFails, runtime
  <2>2. primary' = primary \/ primary' = [cfg |-> job.cfg, rev |-> job.rev]
    BY <1>7 DEF CommitFails
  <2>3. QED
    BY <1>5, <1>7, <2>1, <2>2 DEF CommitFails, KeepFailed, JobDone
<1>8. ASSUME Finalize PROVE Ascending'
  <2>1. /\ job # None /\ job' = None /\ applied' = [cfg |-> job.cfg, rev |-> job.rev]
        /\ UNCHANGED <<up, highest, running, primary, backup>>
    BY <1>8 DEF Finalize, JobDone, runtime, lkg
  <2>2. applied'.rev = job.rev
    BY <2>1
  <2>3. QED
    BY <2>1, <2>2 DEF Ascending
<1>9. ASSUME UNCHANGED <<up, highest, running, applied, backup>>,
             primary' = primary \/ primary' = None, job' = job \/ job' = None
      PROVE  Ascending'
  BY <1>9 DEF Ascending
<1>10. ASSUME FinalizeFails PROVE Ascending'
  BY <1>9, <1>10 DEF FinalizeFails, KeepFailed, JobDone, runtime, lkg
<1>11. ASSUME PlanRejected \/ NginxFails \/ BindFails PROVE Ascending'
  BY <1>9, <1>11, FailedKeeps
<1>12. ASSUME CorruptPrimary PROVE Ascending'
  BY <1>9, <1>12 DEF CorruptPrimary, memory, runtime
<1>13. ASSUME Crash PROVE Ascending'
  BY <1>13 DEF Crash, lkg, Ascending
<1>14. QED
  BY <1>1, <1>2, <1>3, <1>4, <1>6, <1>7, <1>8, <1>9, <1>10, <1>11, <1>12, <1>13 DEF Next, vars,
     memory, runtime, lkg, Publish, InstallCertificates, RefreshSniDns, RestartRule, ListenerDies
-----------------------------------------------------------------------------
(* Convergence.                                                            *)

\* What runs is what a restart would load.
OnDisk == corrupted \/ primary = running

\* What was last finalized under the highest number taken still runs and is on
\* disk, or another apply under that number is owed its finalization; a repair
\* that may report convergence repairs what is on disk.
Durable ==
  /\ lastDesired # None /\ applied # None /\ applied.rev = highest =>
       \/ running = applied /\ OnDisk
       \/ pending # None /\ pending.rev = highest
       \/ job # None /\ job.phase # "prepared"
  /\ job # None /\ job.kind = "repair" /\ job.cleanup =>
       latest # 0 /\ job.rev = latest /\ OnDisk
  /\ ConvergedIsDurable

\* Nothing of Durable is touched while the disk and the reconciler rest.
LEMMA DurableKept ==
  ASSUME Typed, Known, Durable,
         UNCHANGED <<latest, highest, lastDesired, applied, pending, status, job>>,
         UNCHANGED <<running, primary>>,
         corrupted => corrupted',
         \A r \in 1..height : content'[r] = content[r]
  PROVE  Durable'
<1>1. OnDisk => OnDisk'
  BY DEF OnDisk
<1>2. latest # 0 => content'[latest] = content[latest]
  BY DEF Typed, LogTyped, MemoryTyped, Known
<1>3. ConvergedIsDurable'
  BY <1>2 DEF Durable, ConvergedIsDurable
<1>4. QED
  BY <1>1, <1>3 DEF Durable

\* The snapshot that is found unchanged is the one that was finalized last,
\* and it is what runs and what is on disk.
LEMMA UnchangedIsDurable ==
  ASSUME Typed, JobFollows, Ascending, Durable, NEW r \in 1..height,
         up, job = None, Accepts(r), Unchanged(r), ~PendingMatches(r)
  PROVE  running = applied /\ running.rev = r /\ OnDisk
<1>1. content[r] # None /\ r \in Nat
  BY ConfigsAssumption, DistinctAssumption DEF Typed, LogTyped
<1>2. lastDesired # None /\ applied # None /\ applied.rev = r
  BY <1>1 DEF Unchanged
<1>3. applied.rev = highest
  BY <1>1, <1>2, NumbersTyped DEF Ascending, Accepts
<1>4. ~(pending # None /\ pending.rev = highest)
  BY <1>2, <1>3 DEF PendingMatches
<1>5. QED
  BY <1>2, <1>3, <1>4 DEF Durable

\* Whatever is delivered again, retried, repaired or given up, convergence is
\* reported only of what was committed.
LEMMA DurableStep ==
  Typed /\ Known /\ JobFollows /\ DiskFollows /\ Ascending /\ Durable /\ [Next]_vars => Durable'
<1> SUFFICES ASSUME Typed, Known, JobFollows, DiskFollows, Ascending, Durable, [Next]_vars
             PROVE  Durable'
  OBVIOUS
<1>0. MemoryTyped /\ RuntimeTyped /\ DiskTyped /\ \A r \in 1..height : content'[r] = content[r]
  BY LogStep DEF Typed
<1>1. ASSUME NEW r \in Revisions, PanelReconcile(r) PROVE Durable'
  <2>1. PICK e : e = Effective(content[r], CacheEntry, active)
    OBVIOUS
  <2>2. /\ up /\ job = None /\ r \in 1..height /\ Accepts(r) /\ r # 0
        /\ highest' = r /\ latest' = r /\ pending' = None /\ r \in Nat
        /\ UNCHANGED <<content, lastDesired, applied, running, backup, corrupted>>
    BY <1>1, PanelKeeps, BoundsAssumption DEF Revisions
  <2>3. OnDisk => OnDisk'
    <3>1. primary' \in {primary, CacheEntry}
      BY <1>1, <2>1, PanelForms DEF RepairPrimary
    <3>2. QED
      BY <2>2, <3>1, RepairKeeps DEF OnDisk
  <2>4. lastDesired # None /\ applied # None /\ applied.rev = r =>
          \/ running = applied /\ OnDisk
          \/ PendingMatches(r)
    <3>1. applied # None /\ applied.rev = r => r = highest
      BY <2>2, NumbersTyped DEF Ascending, Accepts
    <3>2. QED
      BY <2>2, <3>1 DEF Durable, PendingMatches
  <2>5. CASE /\ PendingMatches(r)
             /\ job' = [kind |-> "retry", cfg |-> pending.cfg, rev |-> r, cleanup |-> TRUE,
                        phase |-> IF pending.committed THEN "committed" ELSE "applied"]
    <3>1. job' \in Jobs
      <4>1. pending \in Pendings
        BY <1>0, <2>5 DEF PendingMatches, MemoryTyped
      <4>2. QED
        BY <1>1, <2>5, <4>1 DEF Jobs, Pendings, Kinds, Phases
    <3>2. job' # None /\ job'.phase # "prepared" /\ job'.kind = "retry"
      BY <2>5, <3>1, DistinctAssumption
    <3>3. QED
      BY <3>2 DEF Durable, ConvergedIsDurable
  <2>6. CASE ~PendingMatches(r) /\ Unchanged(r) /\ job' = job /\ status' = Settled(r, running.cfg)
             /\ primary' = primary
    <3>1. running = applied /\ running.rev = r /\ OnDisk
      BY <2>2, <2>6, UnchangedIsDurable
    <3>2. running \in Versioned
      BY <1>0, <2>6 DEF Unchanged, RuntimeTyped
    <3>3. ConvergedIsDurable'
      BY <2>2, <2>6, <3>1, <3>2 DEF ConvergedIsDurable, Settled, Versioned, OnDisk
    <3>4. QED
      BY <2>2, <2>3, <2>6, <3>1, <3>3 DEF Durable
  <2>7. CASE ~PendingMatches(r) /\ Unchanged(r) /\ job' = RepairJob(TRUE)
    <3>1. running = applied /\ running.rev = r /\ OnDisk
      BY <2>2, <2>7, UnchangedIsDurable
    <3>2. running \in Versioned
      BY <1>0, <2>7 DEF Unchanged, RuntimeTyped
    <3>3. job' # None /\ job'.rev = running.rev
      BY <2>7, <3>2, RepairTyped, DistinctAssumption DEF RepairJob
    <3>4. QED
      BY <2>2, <2>3, <3>1, <3>3 DEF Durable, ConvergedIsDurable
  <2>8. CASE /\ ~PendingMatches(r)
             /\ job' = [kind |-> "panel", rev |-> r, cleanup |-> TRUE, phase |-> "prepared",
                        cfg |-> e]
    <3>1. job' \in Jobs
      <4>1. content[r] \in Config
        BY <2>2, ConfigsAssumption DEF Typed, LogTyped
      <4>2. e \in Config
        BY <1>0, <2>1, <4>1, CacheTyped, EffectiveIs DEF RuntimeTyped
      <4>3. QED
        BY <1>1, <2>8, <4>2 DEF Jobs, Kinds, Phases
    <3>2. job' # None /\ job'.kind = "panel"
      BY <2>8, <3>1, DistinctAssumption
    <3>3. QED
      BY <2>2, <2>3, <2>4, <2>8, <3>2 DEF Durable, ConvergedIsDurable
  <2>9. QED
    BY <1>1, <2>1, <2>5, <2>6, <2>7, <2>8, PanelForms
<1>2. ASSUME Boot \/ LocalRecoveryTick PROVE Durable'
  <2>1. PICK e : e = Effective(CacheEntry.cfg, CacheEntry, active)
    OBVIOUS
  <2>2. /\ job = None
        /\ UNCHANGED <<latest, lastDesired, applied, pending, running, backup, corrupted>>
    BY <1>2, LocalKeeps
  <2>3. CASE LocalRecovery
    <3>1. OnDisk => OnDisk'
      BY <2>2, <2>3, RepairKeeps DEF OnDisk, LocalRecovery, RepairPrimary
    <3>2. lastDesired # None => highest' = highest
      <4>1. lastDesired # None => up
        BY DEF JobFollows
      <4>2. QED
        BY <2>3, <4>1, NumbersTyped, CacheTops DEF LocalRecovery
    <3>3. job' # None => ~(job'.kind = "repair" /\ job'.cleanup)
      BY <2>1, <2>2, <2>3, LocalForms DEF RepairJob
    <3>4. status' = "converged" => job' # None
      <4>1. CASE running # None /\ job' = RepairJob(FALSE)
        BY <1>0, <4>1, RepairTyped, DistinctAssumption DEF RuntimeTyped
      <4>2. CASE job' = [kind |-> "local", rev |-> CacheEntry.rev, cleanup |-> FALSE,
                         cfg |-> e, phase |-> "prepared"]
        <5>1. CacheEntry # None
          BY <2>3 DEF LocalRecovery
        <5>2. e \in Config /\ CacheEntry.rev \in Revisions
          BY <1>0, <2>1, <5>1, CacheTyped, EffectiveIs DEF RuntimeTyped
        <5>3. job' \in Jobs
          BY <4>2, <5>2 DEF Jobs, Kinds, Phases
        <5>4. QED
          BY <5>3, DistinctAssumption
      <4>3. QED
        BY <2>1, <2>3, <4>1, <4>2, LocalForms
    <3>5. QED
      BY <2>2, <3>1, <3>2, <3>3, <3>4 DEF Durable, ConvergedIsDurable
  <2>4. CASE WaitForPanel /\ running = None
    BY <2>2, <2>4 DEF WaitForPanel, JobFollows, Durable, ConvergedIsDurable
  <2>5. QED
    BY <1>2, <2>3, <2>4, LocalKeeps
<1>3. ASSUME ApplyListeners PROVE Durable'
  <2>1. /\ job # None /\ job \in Jobs /\ job.phase = "prepared"
        /\ UNCHANGED <<content, latest, highest, lastDesired, pending, primary, corrupted>>
        /\ running' = [cfg |-> job.cfg, rev |-> job.rev]
    BY <1>0, <1>3 DEF ApplyListeners, MemoryTyped, panelVars, lkg, NoFault
  <2>2. CASE job.kind = "panel" /\ job' = [job EXCEPT !.phase = "applied"]
    <3>1. job' \in Jobs /\ job'.phase = "applied" /\ job'.kind = "panel"
      BY <2>1, <2>2 DEF Jobs, Phases
    <3>2. job' # None
      BY <3>1, DistinctAssumption
    <3>3. QED
      BY <3>1, <3>2 DEF Durable, ConvergedIsDurable
  <2>3. CASE job.kind = "local" /\ status' = "degraded" /\ job' = None
    <3>1. lastDesired = None
      BY <2>1, <2>3 DEF JobFollows
    <3>2. QED
      BY <2>1, <2>3, <3>1 DEF Durable, ConvergedIsDurable
  <2>4. CASE /\ job.kind = "repair" /\ job' = None /\ applied' = applied
             /\ status' = IF job.cleanup THEN Settled(latest, job.cfg) ELSE "degraded"
    <3>1. running = [cfg |-> job.cfg, rev |-> job.rev] /\ running' = running
      BY <2>1, <2>4 DEF JobFollows
    <3>2. OnDisk' <=> OnDisk
      BY <2>1, <3>1 DEF OnDisk
    <3>3. status' = "converged" =>
            latest # 0 /\ job.rev = latest /\ OnDisk /\ job.cfg = content[latest]
      BY <2>1, <2>4 DEF Settled, Durable
    <3>4. ConvergedIsDurable'
      BY <2>1, <2>4, <3>1, <3>3 DEF ConvergedIsDurable, OnDisk
    <3>5. QED
      BY <2>1, <2>4, <3>1, <3>2, <3>4 DEF Durable
  <2>5. QED
    BY <1>3, <2>2, <2>3, <2>4 DEF ApplyListeners, JobDone
<1>4. ASSUME PlanRejected \/ NginxFails \/ BindFails PROVE Durable'
  <2>1. /\ job # None /\ job.phase = "prepared" /\ job' = None /\ status' = "failed"
        /\ UNCHANGED <<highest, lastDesired, applied, pending, running, primary, corrupted>>
    BY <1>4, FailedKeeps
  <2>2. QED
    BY <2>1 DEF Durable, ConvergedIsDurable, OnDisk
<1>5. ASSUME CommitBackup \/ CommitPrimary PROVE Durable'
  <2>1. job # None /\ job \in Jobs /\ job.phase # "prepared"
    BY <1>0, <1>5 DEF CommitBackup, CommitPrimary, MemoryTyped
  <2>2. PICK ph \in Phases : job' = [job EXCEPT !.phase = ph] /\ ph # "prepared"
    BY <1>5 DEF CommitBackup, CommitPrimary, Phases
  <2>3. job' \in Jobs /\ job'.phase # "prepared" /\ job'.kind = job.kind
    BY <2>1, <2>2 DEF Jobs
  <2>4. job' # None /\ job'.kind # "repair"
    BY <2>1, <2>3, DistinctAssumption DEF JobFollows
  <2>5. QED
    BY <2>3, <2>4 DEF Durable, ConvergedIsDurable
<1>6. ASSUME CommitFails \/ FinalizeFails PROVE Durable'
  <2>1. job # None /\ job \in Jobs /\ job.phase # "prepared"
    BY <1>0, <1>6 DEF CommitFails, FinalizeFails, MemoryTyped
  <2>2. PICK b \in BOOLEAN : pending' = [cfg |-> job.cfg, rev |-> job.rev, committed |-> b]
    BY <1>6 DEF CommitFails, FinalizeFails, KeepFailed
  <2>3. pending' \in Pendings /\ pending'.rev = job.rev
    BY <2>1, <2>2 DEF Jobs, Pendings
  <2>4. pending' # None /\ pending'.rev = highest
    BY <2>1, <2>3, DistinctAssumption DEF JobFollows
  <2>5. job' = None /\ status' = "failed" /\ highest' = highest
    BY <1>6 DEF CommitFails, FinalizeFails, KeepFailed, JobDone
  <2>6. QED
    BY <2>4, <2>5 DEF Durable, ConvergedIsDurable
<1>7. ASSUME Finalize PROVE Durable'
  <2>1. /\ job # None /\ job \in Jobs /\ job.phase = "committed" /\ job' = None
        /\ applied' = [cfg |-> job.cfg, rev |-> job.rev] /\ status' = Settled(job.rev, job.cfg)
        /\ UNCHANGED <<content, latest, highest, running, primary, corrupted>>
    BY <1>0, <1>7 DEF Finalize, JobDone, MemoryTyped, panelVars, runtime, lkg, NoFault
  <2>2. running = [cfg |-> job.cfg, rev |-> job.rev] /\ job.rev = latest /\ job.rev \in Revisions
    BY <2>1 DEF JobFollows, Jobs
  <2>3. corrupted \/ primary = running
    BY <2>1, <2>2 DEF DiskFollows
  <2>4. latest # 0
    BY <2>2, BoundsAssumption DEF Revisions
  <2>5. running' = applied' /\ OnDisk'
    BY <2>1, <2>2, <2>3 DEF OnDisk
  <2>6. ConvergedIsDurable'
    BY <2>1, <2>2, <2>3, <2>4 DEF ConvergedIsDurable, Settled
  <2>7. QED
    BY <2>1, <2>5, <2>6 DEF Durable
<1>8. ASSUME CorruptPrimary PROVE Durable'
  <2>1. corrupted' /\ job = None /\ job' = job
        /\ UNCHANGED <<latest, highest, lastDesired, applied, pending, status, running, content>>
    BY <1>8 DEF CorruptPrimary, memory, runtime, panelVars
  <2>2. QED
    BY <2>1 DEF Durable, ConvergedIsDurable, OnDisk
<1>9. ASSUME Crash PROVE Durable'
  BY <1>9 DEF Crash, Durable, ConvergedIsDurable
<1>10. ASSUME UNCHANGED <<memory, job, running, primary, corrupted>> PROVE Durable'
  BY <1>0, <1>10, DurableKept DEF memory
<1>11. QED
  BY <1>1, <1>2, <1>3, <1>4, <1>5, <1>6, <1>7, <1>8, <1>9, <1>10 DEF Next, vars, runtime, lkg,
     NoFault, Publish, InstallCertificates, RefreshSniDns, RestartRule, ListenerDies
-----------------------------------------------------------------------------
(* Active routes.                                                          *)

\* While the LKG is what runs, a snapshot on its way to the listeners has not
\* dropped a rule that is served and that the snapshot still routes by name.
Preserves ==
  (/\ job # None /\ job.kind = "panel" /\ job.phase = "prepared"
   /\ running # None /\ primary = running)
  => \A r \in Rules :
       running.cfg.listen[r] \in Snis /\ content[job.rev].listen[r] \in Snis
         => job.cfg.listen[r] # Off

\* A prepared snapshot was made from the LKG, which nothing else writes until
\* the snapshot is applied.
LEMMA PreservesStep ==
  Typed /\ Known /\ JobFollows /\ Served /\ Preserves /\ [Next]_vars => Preserves'
<1> SUFFICES ASSUME Typed, Known, JobFollows, Served, Preserves, [Next]_vars,
                    job' # None, job'.kind = "panel", job'.phase = "prepared",
                    running' # None, primary' = running',
                    NEW r \in Rules, running'.cfg.listen[r] \in Snis,
                    content'[job'.rev].listen[r] \in Snis
             PROVE  job'.cfg.listen[r] # Off
  BY DEF Preserves
<1>0. MemoryTyped /\ RuntimeTyped /\ DiskTyped /\ \A v \in 1..height : content'[v] = content[v]
  BY LogStep DEF Typed
<1>1. ASSUME NEW v \in Revisions, PanelReconcile(v) PROVE job'.cfg.listen[r] # Off
  <2>1. PICK e : e = Effective(content[v], CacheEntry, active)
    OBVIOUS
  <2>2. job = None /\ v \in 1..height /\ UNCHANGED <<content, running, active>>
    BY <1>1, PanelKeeps
  <2>3. CASE /\ RepairPrimary
             /\ job' = [kind |-> "panel", rev |-> v, cleanup |-> TRUE, phase |-> "prepared",
                        cfg |-> e]
    <3>1. job'.rev = v /\ job'.cfg = e
      BY <2>3
    <3>2. CacheEntry = running /\ CacheEntry # None
      BY <2>2, <2>3 DEF RepairPrimary, CacheEntry
    <3>3. content[v] \in Config /\ CacheEntry \in Versioned
      BY <1>0, <2>2, <3>2, ConfigsAssumption, CacheTyped DEF Typed, LogTyped
    <3>4. running.cfg.listen[r] \in Snis \cap active
      BY <2>2, <3>2 DEF Served, SnisOf
    <3>5. content[v].listen[r] \in Snis
      BY <2>2, <3>1
    <3>6. e.listen[r] # Off
      BY <1>0, <2>1, <3>2, <3>3, <3>4, <3>5, EffectiveIs DEF RuntimeTyped
    <3>7. QED
      BY <3>1, <3>6
  <2>4. CASE job' = [kind |-> "retry", cfg |-> pending.cfg, rev |-> v, cleanup |-> TRUE,
                     phase |-> IF pending.committed THEN "committed" ELSE "applied"]
    BY <2>4
  <2>5. CASE job' = RepairJob(TRUE)
    BY <2>5 DEF RepairJob
  <2>6. QED
    BY <1>1, <2>1, <2>2, <2>3, <2>4, <2>5, PanelForms
<1>2. ASSUME Boot \/ LocalRecoveryTick PROVE FALSE
  <2>1. PICK e : e = Effective(CacheEntry.cfg, CacheEntry, active)
    OBVIOUS
  <2>2. job = None
    BY <1>2, LocalKeeps
  <2>3. CASE LocalRecovery
    BY <2>1, <2>2, <2>3, LocalForms DEF RepairJob
  <2>4. QED
    BY <1>2, <2>2, <2>3, LocalKeeps DEF WaitForPanel
<1>3. ASSUME job' = job, running' = running, primary' = primary PROVE job'.cfg.listen[r] # Off
  <2>1. job.rev \in 1..height
    BY <1>3 DEF Known, Faithful
  <2>2. content[job.rev].listen[r] \in Snis
    BY <1>0, <1>3, <2>1
  <2>3. QED
    BY <1>3, <2>2 DEF Preserves
<1>4. ASSUME ApplyListeners \/ CommitBackup \/ CommitPrimary PROVE FALSE
  <2>1. job # None /\ job \in Jobs
    BY <1>0, <1>4 DEF ApplyListeners, CommitBackup, CommitPrimary, MemoryTyped
  <2>2. PICK ph : job' = [job EXCEPT !.phase = ph] /\ ph # "prepared"
    BY <1>4 DEF ApplyListeners, CommitBackup, CommitPrimary, JobDone
  <2>3. QED
    BY <2>1, <2>2 DEF Jobs
<1>5. ASSUME CorruptPrimary PROVE FALSE
  BY <1>5 DEF CorruptPrimary
<1>6. QED
  BY <1>1, <1>2, <1>3, <1>4, <1>5, FailedKeeps DEF Next, vars, memory, runtime, lkg, Publish,
     CommitFails, Finalize, FinalizeFails, KeepFailed, JobDone, InstallCertificates,
     RefreshSniDns, RestartRule, ListenerDies, Crash
-----------------------------------------------------------------------------
(* The theorems.                                                           *)

\* The first three parts are inductive together, the others one after another.
Inv == /\ Typed /\ Known /\ JobFollows /\ Served
       /\ DiskFollows /\ Ascending /\ Durable /\ Preserves

\* A node that was never started has no files, no listeners and no sites.
LEMMA InitInv == Init => Inv
<1> SUFFICES ASSUME Init PROVE Inv
  OBVIOUS
<1>1. height = 0 /\ content = << >> /\ ~up /\ ~corrupted
  BY DEF Init, Panel!LogInit
<1>2. /\ latest = 0 /\ highest = 0 /\ lastDesired = None /\ applied = None /\ pending = None
      /\ status = "waiting" /\ job = None /\ running = None /\ wanted = {} /\ active = {}
      /\ primary = None /\ backup = None /\ faults = 0
      /\ raw = [r \in Rules |-> None] /\ plan = [routes |-> [r \in Rules |-> Off], rev |-> 0]
  BY DEF Init
<1>3. Typed
  <2>1. LogTyped
    BY <1>1, BoundsAssumption DEF LogTyped
  <2>2. MemoryTyped
    <3>1. up \in BOOLEAN /\ corrupted \in BOOLEAN
      BY DEF Init
    <3>2. QED
      BY <1>2, <3>1, BoundsAssumption DEF MemoryTyped, Status
  <2>3. RuntimeTyped /\ DiskTyped
    BY <1>2, BoundsAssumption DEF RuntimeTyped, DiskTyped
  <2>4. QED
    BY <2>1, <2>2, <2>3 DEF Typed
<1>4. Known /\ Served
  BY <1>1, <1>2 DEF Known, TagsAreAccountable, Served, RoutesHaveSites
<1>5. JobFollows /\ Ascending /\ Preserves
  BY <1>1, <1>2 DEF JobFollows, Ascending, Preserves
<1>6. DiskFollows /\ Durable
  BY <1>1, <1>2 DEF DiskFollows, LkgSurvives, LkgSitesPresent, Durable, ConvergedIsDurable
<1>7. QED
  BY <1>3, <1>4, <1>5, <1>6 DEF Inv

\* Every step of the node, the panel and the faults keeps the invariant.
LEMMA NextInv == Inv /\ [Next]_vars => Inv'
BY TypedStep, KnownStep, JobStep, ServedStep, DiskStep, AscendingStep, DurableStep, PreservesStep
   DEF Inv

\* The invariant holds in every state of every behaviour, for any rules, names,
\* configurations and bounds.
THEOREM Invariance == Spec => []Inv
BY InitInv, NextInv, PTL DEF Spec

\* The state of the reconciler, the manager and the disk is well formed.
THEOREM TypeCorrect == Spec => []TypeOK
<1>1. Inv => TypeOK
  BY TypedIsTypeOK DEF Inv
<1>2. QED
  BY <1>1, Invariance, PTL

\* nginx never routes a name to a site that is not served.
THEOREM RoutesServed == Spec => []RoutesHaveSites
<1>1. Inv => RoutesHaveSites
  BY DEF Inv, Served
<1>2. QED
  BY <1>1, Invariance, PTL

\* The LKG on disk can be served as it is until a file is damaged.
THEOREM LkgServable == Spec => []LkgSitesPresent
<1>1. Inv => LkgSitesPresent
  BY DEF Inv, DiskFollows
<1>2. QED
  BY <1>1, Invariance, PTL

\* One damaged file never costs the node its LKG.
THEOREM LkgKept == Spec => []LkgSurvives
<1>1. Inv => LkgSurvives
  BY DEF Inv, DiskFollows
<1>2. QED
  BY <1>1, Invariance, PTL

\* Live listeners and routes count under a revision that has their rule.
THEOREM TagsAccounted == Spec => []TagsAreAccountable
<1>1. Inv => TagsAreAccountable
  BY DEF Inv, Known
<1>2. QED
  BY <1>1, Invariance, PTL

\* A reported convergence is what runs and what a restart would load.
THEOREM ConvergenceDurable == Spec => []ConvergedIsDurable
<1>1. Inv => ConvergedIsDurable
  BY DEF Inv, Durable
<1>2. QED
  BY <1>1, Invariance, PTL

\* The step of NeverOlder.
Forward == /\ running # None /\ running' # None => running'.rev >= running.rev
           /\ primary # None /\ primary' # None => primary'.rev >= primary.rev

\* No step of the node goes back behind a revision it runs or has on disk.
LEMMA StepForward == Inv /\ [Next]_vars => Forward
<1> SUFFICES ASSUME Inv, [Next]_vars PROVE Forward
  OBVIOUS
<1>0. Typed /\ JobFollows /\ Ascending /\ MemoryTyped
  BY DEF Inv, Typed
<1>1. ASSUME running # None, running' # None PROVE running'.rev >= running.rev
  <2>1. CASE UNCHANGED running
    BY <1>0, <1>1, <2>1, NumbersTyped
  <2>2. CASE Crash
    BY <1>1, <2>2 DEF Crash
  <2>3. CASE ApplyListeners /\ running' = [cfg |-> job.cfg, rev |-> job.rev]
    <3>1. job # None /\ job \in Jobs /\ running'.rev = job.rev
      BY <1>0, <2>3 DEF ApplyListeners, MemoryTyped
    <3>2. job.kind = "local" => running = None
      BY <1>0, <3>1 DEF JobFollows
    <3>3. job.kind = "repair" => running.rev = job.rev
      BY <1>0, <3>1 DEF JobFollows
    <3>4. job.kind \in {"panel", "retry"} => job.rev = highest /\ running.rev <= highest
      <4>1. up
        BY <1>0, <3>1 DEF JobFollows, Typed
      <4>2. QED
        BY <1>0, <1>1, <3>1, <4>1 DEF JobFollows, Ascending
    <3>5. QED
      BY <1>0, <1>1, <3>1, <3>2, <3>3, <3>4, NumbersTyped DEF Jobs, Kinds
  <2>4. QED
    BY <2>1, <2>2, <2>3, RunningUnless
<1>2. ASSUME primary # None, primary' # None PROVE primary'.rev >= primary.rev
  <2>1. CASE primary' = primary \/ primary' = CacheEntry
    BY <1>0, <1>2, <2>1, NumbersTyped DEF CacheEntry
  <2>2. CASE CorruptPrimary
    BY <1>2, <2>2 DEF CorruptPrimary
  <2>3. CASE job # None /\ job.phase = "backed" /\ primary' = [cfg |-> job.cfg, rev |-> job.rev]
    <3>1. up /\ job.rev = highest /\ primary'.rev = job.rev
      BY <1>0, <2>3 DEF JobFollows, MemoryTyped
    <3>2. QED
      BY <1>0, <1>2, <3>1, NumbersTyped DEF Ascending
  <2>4. QED
    BY <1>0, <2>1, <2>2, <2>3, DiskUnless
<1>3. QED
  BY <1>1, <1>2 DEF Forward

\* A duplicated or late snapshot never replaces a newer runtime or LKG.
THEOREM NeverBackward == Spec => NeverOlder
<1>1. Spec => [][Forward]_vars
  BY Invariance, StepForward, PTL DEF Spec
<1>2. QED
  BY <1>1, PTL DEF NeverOlder, Forward

\* The step of ActiveRouteSurvives.
Keeping == running # None /\ running' # None /\ primary = running => KeepsServing

\* What is applied over the LKG goes on serving the rules that it routes.
LEMMA StepKeeping == Inv /\ [Next]_vars => Keeping
<1> SUFFICES ASSUME Inv, [Next]_vars, running # None, running' # None, primary = running,
                    NEW r \in Rules, running.cfg.listen[r] \in Snis,
                    content[running'.rev].listen[r] \in Snis
             PROVE  running'.cfg.listen[r] # Off
  BY DEF Keeping, KeepsServing
<1>0. Typed /\ JobFollows /\ Preserves /\ MemoryTyped
  BY DEF Inv, Typed
<1>1. CASE UNCHANGED running
  BY <1>1, DistinctAssumption
<1>2. CASE Crash
  BY <1>2 DEF Crash
<1>3. CASE ApplyListeners /\ running' = [cfg |-> job.cfg, rev |-> job.rev]
  <2>1. job # None /\ job.phase = "prepared" /\ job.kind \in {"panel", "local", "repair"}
        /\ running'.cfg = job.cfg /\ running'.rev = job.rev
    BY <1>3 DEF ApplyListeners
  <2>2. job.kind = "panel" => job.cfg.listen[r] # Off
    BY <1>0, <2>1 DEF Preserves
  <2>3. job.kind = "repair" => job.cfg = running.cfg
    BY <1>0, <2>1 DEF JobFollows
  <2>4. job.kind # "local"
    BY <1>0, <2>1 DEF JobFollows
  <2>5. QED
    BY <2>1, <2>2, <2>3, <2>4, DistinctAssumption
<1>4. QED
  BY <1>1, <1>2, <1>3, RunningUnless

\* A rule that moves between server names keeps being served while the new
\* certificate is missing, if the LKG is what is running.
THEOREM ActiveRouteKept == Spec => ActiveRouteSurvives
<1>1. Spec => [][Keeping]_vars
  BY Invariance, StepKeeping, PTL DEF Spec
<1>2. QED
  BY <1>1, PTL DEF ActiveRouteSurvives, Keeping

-----------------------------------------------------------------------------
(* The panel the node talks to.                                            *)

\* What the node takes for its panel is the log that ConfigRevision implements
\* (ImplementsRevisionLog): no delivery, apply, crash or repair of the node
\* writes to it, so what is proved of either holds of both together.
THEOREM PanelIsALog == Spec => Panel!LogSpec
<1>1. Init => Panel!LogInit
  BY DEF Init
<1>2. [Next]_vars => [Panel!LogNext]_(Panel!logVars)
  <2> SUFFICES ASSUME [Next]_vars PROVE Panel!LogNext \/ UNCHANGED <<height, content>>
    BY DEF Panel!logVars
  <2>1. ASSUME NEW c \in Configs, Publish(c) PROVE Panel!LogNext
    BY <2>1 DEF Publish, Panel!LogNext
  <2>2. UNCHANGED panelVars \/ \E c \in Configs : Publish(c)
    BY DEF Next, vars, PanelReconcile, Boot, LocalRecoveryTick, ApplyListeners, PlanRejected,
       NginxFails, BindFails, ApplyFailed, CommitBackup, CommitPrimary, CommitFails, Finalize,
       FinalizeFails, InstallCertificates, RefreshSniDns, RestartRule, ListenerDies,
       CorruptPrimary, Crash
  <2>3. QED
    BY <2>1, <2>2 DEF panelVars
<1>3. QED
  BY <1>1, <1>2, PTL DEF Spec, Panel!LogSpec
=============================================================================

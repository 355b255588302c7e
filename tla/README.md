# Reality Panel: a TLA+ verification project

Reality Panel is a control plane (the *panel*: axum, SQLite or PostgreSQL) and a
fleet of *relay nodes*. The panel owns users, rules, groups, certificates and
DNS; a node polls it for a configuration, runs raw TCP/TLS/WS/UDP listeners and
an nginx SNI front, and reports traffic. All paths below are relative to
`src/crates/`.

This directory holds TLA+ modules translated from the Rust code, TLC
configurations that check them on small instances, and TLAPS proofs.

```
tlc -workers 2 -config MCConfigRevision.cfg MCConfigRevision
tlc -workers 2 -config MCNodeReconciler.cfg MCNodeReconciler
tlc -workers 2 -config MCTrafficAccounting.cfg MCTrafficAccounting
tlc -workers 2 -config MCNodeCredential.cfg MCNodeCredential
tlc -workers 2 -config MCRelaySwitch.cfg MCRelaySwitch
tlc -workers 2 -config MCPanelCertificate.cfg MCPanelCertificate
tlapm ConfigRevisionProofs.tla
tlapm NodeReconcilerProofs.tla
tlapm TrafficAccountingProofs.tla
tlapm NodeCredentialProofs.tla
tlapm RelaySwitchProofs.tla
tlapm PanelCertificateProofs.tla
```

`PROJECT.json` lists the components, the runs, a mutation of the code for every
property, the source lines of every definition, the findings, the hazards and
the theorems.

## 1. Inventory

| Component | State it keeps | Operations | What makes it correct |
| --- | --- | --- | --- |
| Revision planner (`panel/src/service/node_config.rs`) | per node: `node_config_revision` of the concrete and of the legacy namespace; `node_config_rule_sources/_owners` per revision; `CONFIG_BUILD_LOCK` | build for delivery, build for status, push | a number names one configuration; numbers never go back; every delivered number can be attributed |
| Config and traffic endpoints (`panel/src/api/node.rs`) | none of their own | `get_config`, `report_traffic`, status | retired authority gets nothing; every strict batch has one verdict |
| Node pool migration (`panel/src/service/node_pool.rs`) | completion row | `record_migration_completion` | no legacy delivery afterwards |
| Reconciler (`node/src/reconciler.rs`) | latest snapshot, highest revision, last applied, pending finalization, status | reconcile (panel, pending retry, repair, local recovery) | late snapshots change nothing; a failed finalization is retried, not forgotten |
| LKG cache (`node/src/poller.rs`) | primary, backup and temporary file | load, repair, commit | one valid configuration survives any single fault |
| Forwarder manager (`node/src/forwarder/manager.rs`, `nginx_sni.rs`) | last configuration and revision, listeners, nginx plan | apply, restore, inspect, DNS refresh, reapply | a failed apply restores the previous runtime |
| Camouflage sites (`node/src/forwarder/camouflage_site.rs`, `node/src/panel_certificate.rs`) | desired and active sites, apply gate | prepare, install certificates, finalize | no route without a site; cleanup last |
| Traffic counters and spool (`node/src/reporter.rs`) | counters, sequence, batches on disk, poison flag | add, snapshot, seal, commit, send, unlink | a byte is in one batch, a batch is deleted after its ACK |
| Access-log ingestion (`node/src/forwarder/nginx_sni_traffic.rs`) | durable cursor (file, generation, offset, last sequence) | recover, prepare, seal, move the cursor | the cursor passes only sealed lines |
| Settlement (`panel/src/db/{sqlite,pg}_repo/traffic.rs`) | idempotency rows, history, balances | apply a batch in a transaction | once, in order, billed where it was forwarded |
| Credentials and claims (`panel/src/node_credential.rs`, `node_claim.rs`, `db/*/node_*`) | claim, delivery, credential, generation | create, claim, prepare, activate, replace, revoke, expire | one active credential; a repeated activation is idempotent; a revoked one stays revoked |
| Relay routing (`panel/src/service/relay_{preference,failover,schedule}.rs`, `carrier_lines.rs`) | preference with its transaction journal, policy, exclusions, schedules | switch, roll back, transition mode, probe, claim a slot | one authority at a time; a switch commits or rolls back; no uninstalling node becomes a target |
| DNS synchronisation (`panel/src/service/dnsmgr*`) | desired records, bindings, sync rows | derive, ensure, delete, audit | only owned records are touched; an old result never marks a newer desire as applied |
| Panel certificates (`panel/src/service/panel_certificate.rs`) | generations, retry state, attempts | reconcile a scope, hook, publish, manifest | published only with a receipt of its own and present authority; what is served is not lost before it expires |
| Lifecycle, upgrade, uninstall (`node/src/{lifecycle,updater}.rs`, `panel/src/api/node_{ops,deploy,batch_upgrade}.rs`) | phase files, jobs | upgrade, confirm, roll back, uninstall | a failed upgrade returns to the old binary |
| Users, shop, redeem codes, rules, groups | database rows | CRUD, purchase | atomic conditional updates |
| Watchers, notifications, pruning, diagnostics, frontend, scripts | | | |

### How they interact

```
 rules, bindings --> revision planner --(HTTP poll / WS push: revision, config)--> reconciler
        ^                 |                                                        |   |
 migration row       source/owner map                                   LKG <------+   +--> forwarder manager --> listeners, nginx
                          |                                                            +--> camouflage sites <-- panel certificates
                          v                                                                        |
                   report_traffic <----(strict batches, FIFO)---- spool <---- counters, nginx access log
                          |
                    idempotent settlement

 operator, schedule, failover --> preference + journal --> desired DNS rows --> worker --> DNS provider
                                        ^                                         |
 uninstall, retirement, node status ----+            commit or roll back <--------+

 administrator --> claims --> deliveries --> credentials <--(claim, prepare, activate)-- helper on the host
                                                  |                                        | descriptor
                                            authentication of every node request <---- node process

 rules --> authorised domains --> worker --> certbot --(hook, receipt)--> generations, current.json, backup
                                                                            ^  |
                                                     repair without a lock  +--+--> manifests --> nodes
```

The revision ties everything together: the panel hands it out, the node orders
snapshots by it, listeners and the nginx log tag bytes with it, and the panel
settles a batch with the map stored under it.

### What is hard

* three unrelated writes for one revision, with a future that can be dropped
  between any two of them, and two namespaces that both hand out numbers;
* one node with four kinds of reconcile call, a certificate task and a DNS
  refresh that take different locks, two LKG files, and nginx and site state
  that outlive the process;
* exactly-once accounting from two sources (memory and a rotated log) through a
  spool on a file system whose syncs fail, over HTTP with late requests, while
  rules move between groups;
* a DNS switch as a transaction over rows that a worker applies one provider call
  at a time, with unknown outcomes, derivations that were made before the switch,
  three kinds of starter with one authority, and nodes that disappear meanwhile;
* a credential whose two halves are durable on two machines, with requests that
  are repeated, late or lost and deadlines and operators that close them;
* a publication of three writes that any crash may cut, repaired meanwhile by
  readers without a lock, behind an external program that keeps state of its own.

The list with lines is under `hazards` in `PROJECT.json`.

## 2. Modules

| Module | What it is |
| --- | --- |
| `RevisionAuthority` | abstract: the panel as a log of configurations |
| `ConfigRevision` | the planner for one node; implements `RevisionAuthority` |
| `ConfigRevisionProofs` | TLAPS proofs about `ConfigRevision` |
| `NodeReconciler` | reconciler, LKG, manager and sites of one node; uses `RevisionAuthority` as its panel |
| `NodeReconcilerProofs` | TLAPS proofs about `NodeReconciler` |
| `TrafficLedger` | abstract: what happens to a unit of traffic |
| `TrafficAccounting` | counters, log, spool, network and settlement; implements `TrafficLedger` |
| `TrafficAccountingProofs` | TLAPS proofs about `TrafficAccounting` |
| `CredentialRegistry` | abstract: the credentials ever issued for an identity |
| `NodeCredential` | claims, deliveries, credentials and the host's helper; implements `CredentialRegistry` |
| `NodeCredentialProofs` | TLAPS proofs about `NodeCredential` |
| `SwitchTransaction` | abstract: the journal of a switch and the records it names |
| `RelaySwitch` | the switch transaction of one group, its DNS rows and their worker; implements `SwitchTransaction` |
| `RelaySwitchProofs` | TLAPS proofs about `RelaySwitch` |
| `PanelCertificate` | attempts, publications, imports and manifests of one certificate domain |
| `PanelCertificateProofs` | TLAPS proofs about `PanelCertificate` |
| `MC...` | instances for TLC |

Every module is one small system with its whole control; configurations,
certificates and bytes are data.

### 2.1 ConfigRevision

| Model | Code |
| --- | --- |
| `persisted[ns]` | `node_config_revision:...` of the concrete and the legacy key (`PersistedConfigRevision`) |
| `ruleSources`, `ruleOwners` | the attribution keys of a revision |
| `waiting` | requests past admission that queue on `CONFIG_BUILD_LOCK` (a fair tokio mutex) |
| `build`, `LastStage` | `commit_snapshot_plan`: sources, owners, revision key |
| `retired`, `CompleteMigration` | the completion row; written without the build lock |
| `Admit` | `get_config` and the push: authentication mode, retirement check, then the queue |
| `Plan`, `PlanFails` | `build_guarded_node_config_snapshot` to `plan_snapshot_locked`: any candidate, or any error |
| `AbortBuild` | the future is dropped, a write fails, or the panel crashes (then the queue is lost) |
| `AuthorityCommitted` | the status verdict |
| `AccountingFor` | how `report_traffic` settles what a batch of a revision reports of a rule: by the stored map (`MappedUnder`), Home-only, or refused for want of a map or of the rule in it |

Abstractions: what a build reads is one of `Candidates`; `config_fingerprint`
and the attribution hash are injective. History variables `exposed` and
`lastRev` record what was committed: from then on it may reach the node. The
scope is one registration, because an uninstall deletes the concrete key.

An observation, which `ServedTrafficSettles` exempts by name (`Leftover`): a legacy
build writes no map, and removes none. When a concrete build was aborted after it
had written a map, and the legacy namespace then commits the same number,
`report_traffic` finds that map and settles the legacy revision by it, or refuses
rules it lacks with 403, where `node.rs:441-442` intends Home-only accounting.

### 2.2 NodeReconciler

| Model | Code |
| --- | --- |
| `latest`, `highest`, `lastDesired`, `applied`, `pending`, `status` | fields of `Reconciler` |
| `job` | the reconcile call that holds the reconciler's mutex; `phase` says how far `apply_coordinated` and the finalization have come |
| `running`, `raw`, `plan` | `last_config(_revision)`, the live raw listeners with the revision they count for, the nginx fragment on disk |
| `wanted`, `active` | desired and active sites of `CamouflageSiteManager` |
| `primary`, `backup` | the LKG files; `None` when absent or invalid |
| `PanelReconcile` | `RetryPending`, `InspectPanel` or `StartApply`, chosen as in `reconcile_with_paths` |
| `Boot`, `LocalRecoveryTick` | LKG recovery at start and after a poll without a configuration |
| `ApplyListeners`, `PlanRejected`, `NginxFails`, `BindFails` | `apply_config_scoped_with_revision`, including the restore of the previous configuration, which can fail as well |
| `CommitBackup`, `CommitPrimary`, `CommitFails` | `commit_cache_with_metadata_at`; a failed directory sync after the rename leaves the new file |
| `Finalize`, `FinalizeFails` | site cleanup under the apply gate, then the reconciler's bookkeeping |
| `InstallCertificates`, `RefreshSniDns`, `RestartRule`, `ListenerDies`, `CorruptPrimary`, `Crash` | the rest of the node, interleaved under the locks `GateFree` and `ManagerFree` |

Abstractions and why they are sound:

* a raw listener is the value its `ListenerFingerprint` compares, an SNI
  listener its server name; all SNI rules share one port;
* the apply itself (stop, nginx, start) is one step, because the manager's mutex
  and the apply gate are held over it and a crash in the middle leaves what
  `Crash` leaves: dead listeners and either nginx plan. `BindFails` keeps its
  intermediate result;
* nginx's and the camouflage service's processes survive a crash of the node;
* the replay of a withheld configuration when a *retry is due* is not a step:
  its condition is never true in a production build, since preparing the desired
  sites clears the retry state and the local ACME worker is `#[cfg(test)]`. A
  withheld configuration is applied again when **all** its dependencies are ready;
* `update_desired` takes the apply gate, so a preparation cannot interleave with
  the activation of a certificate;
* a stale or conflicting snapshot changes nothing and is no step.

### 2.3 TrafficAccounting

| Model | Code |
| --- | --- |
| `group`, `maps` | `device_group_in` of each rule; the map stored with each delivered revision |
| `tag`, `open`, `unit` | what listeners tag with, connections that can still carry bytes, the bytes themselves |
| `counter`, `SealCounters`, `CommitCounters` | `TrafficCounter`, `seal_strict_spool_batch`, `TrafficSnapshot::commit` (subtracts exactly the snapshot) |
| `log`, `file`, `cursor`, `truncated` | the access log, its identity, the durable `LogState` |
| `RecoverCheckpoint`, `PrepareStateForFile`, `SealSegment`, `AdvanceCursor` | one ingestion, in the order of the code |
| `spool`, `ghosts`, `nextSeq`, `poisoned` | batches on disk, unlinks that were not synced, `sequence.json`, `strict_seal_poisoned` |
| `phase` | which report or ingestion holds the gate and how far it is |
| `net`, `Send`, `Settle`, `Refuse`, `Timeout`, `DeleteBatch` | the FIFO drain; a request stays in `net`, so it can be delivered again and late |
| `ledger`, `BillTo`, `Refused` | the idempotent transaction and the disposition of every entry |
| `MoveRule`, `Deliver`, `RefreshSniDns` | ownership changes and new revisions, which may find an unchanged raw listener |

Abstractions: a unit is some bytes of one connection; owners of rules do not
change; the cursor exists (no first-boot bootstrap); one credential generation;
the single legacy pending file and the legacy at-least-once reporter are left
out. Lines of a rotated file that were not read count as lost (the code may
still read a few through the old descriptor). Connections of a rule that is no
longer served are cancelled asynchronously: the model lets them go on, which is
a superset. nginx keeps its connections when the node crashes.

### 2.4 NodeCredential

| Model | Code |
| --- | --- |
| `claims`, `deliveries`, `creds` | rows of `node_credential_claims`, `node_credential_deliveries`, `node_credentials` |
| `retired`, `Retire` | the `retired` row of an identity; `retire_installation_inner` writes it, closes what is live and revokes in one transaction |
| `Create`, `Cancel`, `Expire`, `DueClaims` | `create_node_credential_claim`, cancellation, the expiry that most operations perform first |
| `HandleClaim`, `HandlePrepare`, `HandleActivate` | the three requests of a host, with every refusal; a repeated request of the bound host is answered as before |
| `calls`, `Reply`, `LoseCall` | a request stays under way while its sender gives up, and its answer counts only if the sender still waits for it |
| `local`, `EnsureState`, `RunPrepare`, `PrepareAnswered`, ... | `credential-pending.json` and the phases of `relay-node-credential.sh`; hosts in `Scripted` run `relay-node-pool-migrate.py` instead |
| `descriptor`, `CommitDescriptor`, `authority`, `WatchAuth`, `Restart` | `runtime-auth.json` and the node's reload of it (`auth_reload.rs`) |

Every repository operation is one transaction under the writer lock of its home
group, so it is one action. A deadline passes by a step of its own
(`ClaimDeadline`, `DeliveryDeadline`); expiry is what some later transaction, or
the expiry call, does about it. Abstractions: a credential is named by the claim
it was issued for, since a claim has at most one delivery; nonces, secrets and
fingerprints are the identity of the host that made them. Enrolment, the proofs
of possession and the PostgreSQL layer are not modelled.

An observation: when the answer to the migrate script's *prepare* is lost, the
script starts over with *claim*, which `claim_node_credential` refuses in state
`CREDENTIAL_PENDING`. That host is stuck until the delivery expires and an
administrator creates another claim; `relay-node-credential.sh` resumes at its
phase and is not (`RunPrepare` is disabled for `Scripted` hosts).

### 2.5 RelaySwitch

| Model | Code |
| --- | --- |
| `pref` | `relay_preference:{group}`: phase, mode, nodes, source and the journal of the transaction (target and way back per rule) |
| `lock` | the holder of `RELAY_PREFERENCE_MUTATION_LOCK` while it schedules the rules of a transaction one by one |
| `Start`, `RollbackFor` | `start_relay_switch_locked`, `build_dns_transaction_records` |
| `ManualStart`; `ObserveFailing`, `StartIfCurrent`; `ClaimSchedule`, `ScheduledStart` | the operator; the failover task, which probes without the lock; the scheduler, which claims an occurrence first |
| `TransitionMode` | `transition_routing_mode`, with a transaction of its own when the Normal default is another node |
| `ScheduleRule`, `ScheduleFails`, `BeginRollback` | scheduling under the lock and what its failure leads to |
| `Derive`, `Persist`, `Desire`, `Fenced` | `derive_dns_desired`, `persist_resolution` and the fence that excludes provider calls |
| `Finalize`, `Prepare`, `RefreshDerive`, `RefreshPersist`, `List`, `Take`, `Authorize`, `Write`, `Reconcile`, `BatchDone` | one round of the worker: observe the transaction, refresh rows, list due rows, bring the provider to them, observe again |
| `batch`, `exec`, `Authorized` | rows listed and not yet authorised, rows in execution (`observations::executing`), and those past `upsert_is_authorized` or `delete_is_authorized` |
| `EditRules`, `ApiDerive`, `ApiPersist`, `SetDns` | API handlers, which derive now and store later |
| `BeginUninstallGate`, `RemoveAssignment`, `ReleaseGate`, `Retire`, `Report`, `InitializePreference`, `SetNormalDefault` | nodes that come, change their address and go |
| `Crash` | the panel stops anywhere between a taken row, its write and its result; start-up re-arms unfrozen rows (`resume_unfrozen_syncs_on_startup`) |

Abstractions:

* the list and the time at which a retry is due are left out: any due row may be
  listed. `REFUSED` stands for the results that are never retried (conflict,
  unknown outcome, unauthorised, non-retryable failure);
* one row in execution is four steps, between which everything else may happen:
  it is taken, its write is authorised, the provider changes, and the result is
  saved. Between the second and the third the code looks up the zone, its details,
  the binding and the provider's records, and asks for no authorisation again
  (`ensure_record`, `ensure_record_absent`). A call of unknown outcome was applied
  at once or never, and nobody else edits the provider's records;
* `persist_resolution` stores a failed row when the derived value is no IPv4
  address, which only the group's host can be: with `HostAssumption` that branch is
  not reached, and `Persist` has none for it;
* whether a node is ready, the failover thresholds and the timetable are
  nondeterministic: a switch may start whenever its stored preconditions allow
  it, and may be found not ready at its end;
* the rules of `Carrier` mode, carrier lines and record sets of several addresses
  are left out: one group, the default line, one address per record;
* the two deletions of `cleanup_uninstalled_node` are one step.

Four things the model shows that are the code's choice or at least its
behaviour. `retire_identity` (`node_pool.rs:328-379`) does not wait for provider
IO: a write that was authorised before reaches the provider of a group that the
retirement has stopped, and `StoppedStandsStill` allows exactly these writes.
`Manual` is left by no step of the program. An occurrence that was
claimed and whose switch did not begin before a crash is lost (at most once); no
property is about it.
`transition_routing_mode` looks at the uninstall gate of the Normal default
only, where `start_relay_switch_locked` also looks at the current node;
`UninstallExcluded` says so.

### 2.6 PanelCertificate

| Model | Code |
| --- | --- |
| `dirs`, `current`, `backup` | the generation directories, `current.json`, `current.backup.json` |
| `job` | the attempt (or the import) under way, and how far it is |
| `Consider`, `Authorize` | `reconcile_scope` up to certbot, and its second question after it |
| `HookPresents`, `receipts`, `CertbotSucceeds`, `CertbotFails`, `live` | certbot and its hook (`issue_candidate`, `run_hook`); `live` is certbot's own lineage |
| `BeginPublish`, `InstallGeneration`, `WriteBackup`, `WriteCurrent`, `Cleanup` | `publish_candidate_at_root`, one write at a time; `PublishFails` ends it anywhere |
| `BeginImport`, `migrated` | `migrate_legacy_certificates`: once per process, before anything else |
| `FindUnusable`, `ReadBackup`, `WriteBack` | `recover_current` of manifests and inventories, without the storage lock |
| `Crash`, `Damage`, `Misread`, `BackoffEnds`, `SetAuthorised`, `Tick` | the surroundings; `hurts` counts damage and misreadings of `current.json` |

Abstractions:

* one domain and one worker, so that the issuance lock is free and the checks
  before and after it are one step;
* certbot is external. It asks the CA unless its lineage is not due and
  `--force-renewal` is absent, and the CA may reuse an authorisation, whereupon no
  hook runs and no receipt is written. systemd ends it together with the panel;
* an attempt is a number and a certificate is the attempt it came from with its
  expiry; certificates of later attempts expire later. Time is in months and
  stands still while an attempt or a manifest is under way, both of which take
  minutes;
* a write is a rename of a synced file. Two readers that repair at once share a
  temporary file name; only the request of one of them fails, which is not
  modelled, nor is damage to the backup or to a generation's files;
* the rows of the challenge (`acme_dns01.rs`), the read-only status projection
  and the node's side of a manifest are not modelled.

Three things the model or its code shows, which are the code's behaviour and no
finding:

* a certificate that certbot obtained and the panel did not publish (it stopped,
  or the authorisation was withdrawn) is not used by later attempts when nothing
  valid is being served: they run certbot without `--force-renewal`, which keeps
  its lineage, runs no hook and leaves no receipt, until certbot's own threshold.
  README.md:171 says that a later retry may go through the full authorisation
  again; it does so then;
* one misreading of a good `current.json` (a transient I/O error) moves the
  pointer to the backup for good, and the newer generation is served again only
  after the next publication. Nodes refuse the older generation
  (`node/src/forwarder/camouflage_site.rs:1897`);
* `CertificateSurvives` under a misreading needs a lifetime of at least two
  renewal windows (`WindowAssumption`), as with 90 and 30 days. With less, the next renewal may be
  due at once, and a manifest that read the backup before two publications
  writes it over the second one.

## 3. Runs

| Run | Bounds | Checks |
| --- | --- | --- |
| `MCConfigRevision` | 3 revisions, 2 waiting requests, 4 candidates | `TypeOK`, `OneIdentityPerRevision`, `AttributionOfExposed`, `ServedTrafficSettles`, `StatusAuthorityExact`, `NeverBackward`, `ImplementsRevisionLog` |
| `MCConfigRevisionMigration` | the same | finding: `MigratedNeverLegacy` |
| `MCNodeReconciler` | 3 revisions of 5 configurations over 2 rules, 2 names, 1 raw listener; 2 faults | `TypeOK`, `RoutesHaveSites`, `LkgSitesPresent`, `LkgSurvives`, `ConvergedIsDurable`, `TagsAreAccountable`, `NeverOlder`, `ActiveRouteSurvives` |
| `MCNodeReconcilerLive` | 2 revisions, 1 fault | `Convergence` |
| `MCNodeReconcilerDns` | 1 revision, no fault | finding: `UnchangedPlanIsNotReloaded` |
| `MCNodeReconcilerRoute` | 3 revisions, 1 fault | finding: `ActiveRouteAlwaysSurvives` |
| `MCTrafficAccounting` | 2 revisions, 2 units, 2 sequence numbers, 1 move, 1 fault | `TypeOK`, `SettledOnceInSealOrder`, `BilledWhereForwarded` |
| `MCTrafficDurability` | 1 revision, 2 units, 4 sequence numbers, 3 log files, 2 faults | `NoUnitInTwoBatches`, `CursorPassesOnlySealed`, `ImplementsTrafficLedger`, `SealedEventuallySettles` |
| `MCTrafficMoved` | 2 revisions, 1 unit, 1 move | finding: `PostMoveTrafficBilled` |
| `MCNodeCredential` | 1 identity, 2 claims, 2 hosts (one per helper), 1 request at a time | `TypeOK`, `DeliveryFollowsClaim`, `HostNeverAhead`, `ClosedForGood`, `ImplementsRegistry` |
| `MCRelaySwitch` | 2 nodes, 2 addresses, 2 rules, 2 attempts, 1 transaction, 1 edit | `TypeOK`, `SyncHonest`, `RestoredWhileFrozen`, `SourceStaysAuthorized`, `UninstallExcluded`, `CommitMeansApplied`, `StoppedStandsStill`, `AutomaticActsOnCurrent`, `TransactionEnds` |
| `MCPanelCertificate` | 1 manifest at a time, certificates of 3 months renewed 1 month before, 3 attempts, 4 months, 3 generations, 1 hurt, 2 crashes or changes of authorisation | `TypeOK`, `CertificateSurvives`, `PublicationIsSound` |

Why the bounds are enough. The candidates of `MCConfigRevision` differ in
exactly one attribute each, and three revisions give both namespaces a number of
their own, a shared one and an aborted one. The five configurations of
`MCNodeReconciler` move a rule between a raw listener and names, exchange a name
between two rules, take a listener away and require a site that is not there;
two faults allow a failure during the repair of another. In the traffic runs two
units are what it takes to be out of order, duplicated or attributed to two
revisions; moves and durability have runs of their own because their bounds
multiply. `MCNodeCredential` is what one bootstrap command run on two hosts
leads to: the hosts compete for a claim, and a second claim meets what the first
left; the constraint `InOrder` only says that of two fresh claim ids the first is
`c1`. `MCRelaySwitch` starts in a group that was moved to Failover, with a rule
that has no record yet, or in a Normal one with a rule paused and DNSMgr switched
off; one edit is one interference (an address, a rule, a mode, a gate, a
retirement or a crash) at any moment of one transaction, and a fall-back makes two
phases of it. With two edits no violation of its safety properties was found among
13 million states (to depth 38), but the search was not finished; the proofs cover
the rest.
`MCPanelCertificate` covers the import and two renewals, so that a generation is
removed while pointers change; it was also checked with two manifests and two
hurts (some 5 million states).
Deadlock is not checked in the runs whose counters are bounded: when they are
used up the model stops.

For each property of a passing run `PROJECT.json` names a mutation of a
definition (kept beside the original, marked `mutation`) that violates it.

### Fairness

* `NodeReconciler!FairSpec`: the steps of a reconcile call are weakly fair (it
  runs to its end), so is `Boot` (the service manager restarts the process).
  `PanelReconcile(height)` is strongly fair: the poll loop never ends, always
  offers the newest revision, and the reconciler's mutex is a fair queue, but
  local recovery and pushes can disable it again and again. Certificates are
  offered by every manifest poll, under a gate that is released repeatedly:
  strong fairness as well. No fault is fair, and no fairness is assumed of
  `Publish`.
* `TrafficAccounting!FairSpec`: weak fairness of the steps of ingestion and
  report (the poll loop performs them on every iteration), of the panel's answer
  to the batch just sent, and of a restart after poisoning. Sealing is not fair:
  `SealedEventuallySettles` is about batches that exist.
* `RelaySwitch!FairSpec`: `WF_vars(Worker \/ Locked)`. The worker is a loop that
  never ends, and the task that holds the lock runs on. Nothing is assumed of
  operators, handlers, nodes or the provider's answers. `TransactionEnds` exempts
  a panel whose DNSMgr is switched off: a derivation made before the switch can
  take a row off the journal's value, and with DNSMgr off nobody derives it again,
  so the row is neither applied nor terminal.
* `NodeCredential` states none: whether a helper is ever run again is the
  operator's decision, and no liveness is claimed. Nor does `PanelCertificate`:
  the first observation in 2.6 is why renewal need not end.

### Findings

1. `MigratedNeverLegacy`: the retirement check precedes the wait for the build
   lock and the completion row is written without that lock. A waiting legacy
   request then commits a Home-only snapshot with a revision above the concrete
   one; the node runs it until its next poll.
2. `UnchangedPlanIsNotReloaded`: the DNS refresh compares a plan without
   revision with the running one, so the first refresh after every versioned
   apply reloads nginx and moves the log back to revision 0, whose batches are
   accounted Home-only.
3. `ActiveRouteAlwaysSurvives`: the route to preserve is taken from the LKG on
   disk, which is not the running configuration after a failed commit.
   `ActiveRouteSurvives` is the same property under `primary = running`, and holds.
4. `PostMoveTrafficBilled`: an unchanged raw listener keeps the revision of its
   rule's previous group, so traffic after a move between two served groups is
   unbillable until the listener changes or the node restarts.

Two further observations are hazards without a property. A Home-only batch with
a rule that has been moved or deleted is refused for ever and blocks the spool
(`SealedEventuallySettles` names this exception), and batches sealed under a
replaced credential fail the identity check.

## 4. Proofs

All theorems hold for every value of the constants that the assumptions allow:
any number of candidates, configurations, identities, claims, hosts, rules, nodes
and addresses, and any bound.

### ConfigRevisionProofs

| Theorem | Property |
| --- | --- |
| `TypeCorrect` | `TypeOK` |
| `RevisionIdentity` | `OneIdentityPerRevision` |
| `AttributionIsDurable` | `AttributionOfExposed` |
| `TrafficSettles` | `ServedTrafficSettles` |
| `StatusIsExact` | `StatusAuthorityExact` |
| `DeliveredNeverBackward` | `NeverBackward` |
| `RefinesRevisionLog` | `ImplementsRevisionLog` |
| `HistoryIsImmutable` | no step changes what an exposed number names (`HistoryKept`) |

Assumptions: `MaxRev` is a positive natural number, `MaxWaiting` a natural
number, `Candidates` are identities and `None` is none of the values
it stands beside. There is no assumption on the sizes of the sets.

The argument. None of these properties is inductive: `OneIdentityPerRevision`
alone does not say why a new commit cannot reuse a number. `IInv` adds

* `PersistedIsNewest`: what a key holds was exposed, and nothing of its
  namespace is newer;
* `LastIsHighest`: the last delivered revision is the larger of the two keys;
* `PlanStillCurrent`: while the lock is held nobody else writes a key, so the
  number of the plan in progress is still the one planning would give now. This
  is what makes an aborted build harmless to every concrete revision: its number
  is either new, and a concrete build overwrites its maps before it exposes the
  number, or it is that of an equal identity. It is not harmless to a legacy
  revision, which writes no map: hence `Leftover` in `ServedTrafficSettles`;
* `BuildProgress`, `LegacyWritesNoMap`: the maps that the stage of the build
  says are written;
* `NoGaps`: every number up to the last one was exposed, which the refinement
  needs to read the log's content off `exposed`.

The proof of `IInv /\ [Next]_vars => IInv'` has one step per action; only
`CommitRevision` and the two map writes disturb more than one conjunct. The
refinement theorem shows that `CommitRevision` is a publication or a stutter and
every other action a stutter. `HistoryIsImmutable` says the same of the concrete
state: numbers only rise, and each keeps its one identity.

### NodeReconcilerProofs

| Theorem | Property |
| --- | --- |
| `TypeCorrect` | `TypeOK` |
| `RoutesServed` | `RoutesHaveSites` |
| `LkgServable` | `LkgSitesPresent` |
| `LkgKept` | `LkgSurvives` |
| `TagsAccounted` | `TagsAreAccountable` |
| `ConvergenceDurable` | `ConvergedIsDurable` |
| `NeverBackward` | `NeverOlder` |
| `ActiveRouteKept` | `ActiveRouteSurvives` |
| `PanelIsALog` | the panel's part of the node's behaviour satisfies `LogSpec` of `RevisionAuthority` |

Assumptions: the published configurations are configurations, `Off` is no
listener, raw listeners are no names, `None` is none of the values it stands
beside, the bounds are natural numbers. The rules, names, configurations, their
number and the number of faults are arbitrary.

The invariant `Inv` has eight layers. The first three are inductive together,
each of the others relative to those before it:

* `Typed`, and `Known`: whatever runs, is applied, counts or lies on disk is
  `Faithful` to a published revision. It runs only rules that revision has and raw
  listeners exactly as published. This survives the substitution of preserved
  listeners (`EffectiveIs`), a restore and a later recovery;
* `JobFollows`: the mutex of the reconciler in invariant form. A call past
  `prepared`, or a finalization that is owed, is about what runs;
* `Served`: routes, the job and what runs name only served sites. The middle one is
  what makes `RoutesHaveSites` inductive: dependencies are withheld when the job
  is made, and only `Finalize`, when no other job is there, takes sites away;
* `DiskFollows`: a committed job is the primary (or a file was damaged), so the
  sites that `Finalize` keeps are those of the LKG;
* `Ascending`: backup, primary, runtime and job are not above `highest`. Together
  with `Accepts` it gives `NeverOlder`;
* `Durable`: why an *unchanged* snapshot may be reported as converged without
  writing anything. If what was finalized last has the highest number, it still
  runs and is on disk, unless a later apply under that very number is under way or
  owed, and then the snapshot matches `pending` and is retried instead;
* `Preserves`: between the reading of the LKG and the apply nobody else writes it.

Lemmas named `...Unless` list the only ways in which a variable changes, so that
the later layers need not go through all actions again.

`PanelIsALog` and `RefinesRevisionLog` join the two sides: what the node assumes of
its panel is the log that the planner was proved to implement, and no step of the
node writes to it.

### TrafficAccountingProofs

| Theorem | Property |
| --- | --- |
| `TypeCorrect` | `TypeOK` |
| `SettlementOrder` | `SettledOnceInSealOrder` |
| `SealedOnce` | `NoUnitInTwoBatches` |
| `CursorKeepsUp` | `CursorPassesOnlySealed` |
| `HistoricBilling` | `BilledWhereForwarded` |
| `LedgerRefined` | `ImplementsTrafficLedger` |
| `SpoolHoldsUntilSettled` | a batch leaves the spool only after its settlement (`SpoolGivesUpSettled`) |
| `SealedUnitsStay` | a durable unit stays durable or is settled, a settled one stays settled (`StagesKept`) |
| `LossHasTwoCauses` | a unit is lost only when the process ends with it in a raw counter, or the log is rotated over its line (`LossIsNamed`) |

Assumptions: the bounds are natural numbers, raw and SNI rules are disjoint, the
home group is one the node serves, and the special values are none of the values
they stand beside.

The invariant `Inv` is `IInv` with the properties themselves and `Once`. Its
parts follow the batch from the seal to the ledger:

* `Sequenced`: a number names one batch for ever. The counter is durable before
  the batch, and a repeated request or an unlink that a crash undid is that very
  batch;
* `Fifo`: of what can still reach the panel, all is settled but the oldest batch
  of the spool. So a settlement's number is above all earlier ones;
* `PhaseFollows`: until the counters or the cursor give its bytes up, the sealed
  batch is the newest in the spool;
* `CursorFollows`: the cursor has crossed every batch of the log, or stands
  exactly before a single one, which is in the spool and moves it first. This is
  what makes a crash between the batch and the cursor harmless;
* `GenerationsFollow`: a generation begins only after a rotation or a
  truncation, so the bound on files bounds generations too;
* `Once`: lines that are in a batch are before the cursor or in the batch it has
  to cross (`LogSealed`), that batch still holds them (`BatchHolds`), and counted
  units are in no batch but the one being committed (`CounterApart`). After a
  seal of unknown outcome the last one may fail: that is why the code refuses to
  seal again before a restart, which drops the counters.

The refinement names the stage of each unit before and after every action; the
last three theorems say what that means for the node's disk. `SpoolHoldsUntilSettled`
rests on `Fifo`: an answer `acked`, however late, is about a batch that is settled,
and what is deleted is the oldest one. `LossHasTwoCauses` excludes failed and
uncertain writes, poisoned queues, refusals and timeouts as causes.
`CHOOSE` of the oldest and newest batch needs a least element of a set of
numbers: `LeastExists` takes it from the well-founded order of finite sets, since
induction is out of the prover's reach.

### NodeCredentialProofs

| Theorem | Property |
| --- | --- |
| `TypeCorrect` | `TypeOK` |
| `OneStateMachine` | `DeliveryFollowsClaim` |
| `HostIsNeverAhead` | `HostNeverAhead` |
| `ClosedStaysClosed` | `ClosedForGood` |
| `RefinesRegistry` | `ImplementsRegistry` |
| `OneCredentialPerIdentity` | over all its claims an identity obtains one credential (`OneCredential`) |

Assumptions: each host has an identity (`NodeOf`), `MaxCalls` is positive, `None`
is no row. The argument has two layers. `PanelInv` is inductive by itself, since
the panel believes nothing a host says: the types of the rows, `RowFollows` (the
correspondence of one claim, its delivery and its credential, to which *an open
claim has no delivery* had to be added) and `OneLive`. What a step may do to a
row is proved once, as `Kept`: nodes and holders never change, closed and revoked
are final. `HostInv` adds `AnswersTrue`, that an answer under way tells the
truth about the row; `HostNeverAhead` is not inductive without it, because a host
writes down what it was told, and `Kept` is what keeps it true while it travels.
In the refinement, activation is the only step that issues, and only to an identity
without a history (`ActivationHistory`); `Kept` shows that none of its other claims
has a credential afterwards. `OneCredential` is inductive for the same reason, and
says it of the rows themselves.

### RelaySwitchProofs

| Theorem | Property |
| --- | --- |
| `TypeCorrect` | `TypeOK` |
| `AuthorityStays` | `SourceStaysAuthorized` |
| `UninstallStaysOut` | `UninstallExcluded` |
| `RowsAreHonest` | `SyncHonest` |
| `RollbackIsComplete` | `RestoredWhileFrozen` |
| `FrozenIsLeftAlone` | `StoppedStandsStill` |
| `CommitIsReal` | `CommitMeansApplied` |
| `FailoverActsOnCurrent` | `AutomaticActsOnCurrent` |
| `RefinesTransaction` | `ImplementsTransaction` |

Assumptions: rules are natural numbers (they are walked in order), `Host` is an
address, `Absent`, `None` and the verdicts of a derivation are no addresses, the
bounds are numbers. `IInv` has three parts:

* `SwitchInv`, about the preference: `SourceStaysAuthorized`,
  `UninstallExcluded`, and `LockFollows`: whoever holds the lock has a
  transaction and only journaled rules to schedule, and a roll-back in progress
  knows the way back of each rule;
* `RowInv`, about rows and execution. `SyncHonest` alone is not inductive, because a
  write reaches the provider when its row may have become another one: rows are in
  execution only while the worker executes, were taken and do not say
  `PROPAGATED`; and in a rolled-back group none is in execution or listed;
* `HandTypes`: the rest.

`PhaseFollows` says what a step on the first part owes the second: a phase that
promises something about the provider is entered only when the rows say so.
Every step that stores rows (scheduling, refreshing, disabling, resuming) is one
case, `Rearms`: it never claims success. Then there is one lemma per action, which
also gives `Still`, the step of `StoppedStandsStill`: nothing is authorised in a
stopped group (`FrozenMayNotWrite`), nothing is listed there, and a crash leaves
no row in execution, so that what was authorised before only becomes less.

`RefinesTransaction` hides the lock, the rows and the worker: what is left is a
transaction over the provider's records that moves all of them, puts all of them
back, or stops for an operator, and whose rolled-back state nothing disturbs. Its
steps are found from the lemmas above; it needs one fact more, that a group
without a transaction has no journal (`IdleIsClean`). TLC finds the refinement to
hold on the instance of `MCRelaySwitch` too; no run repeats it, as the theorem
covers it.

### PanelCertificateProofs

| Theorem | Property |
| --- | --- |
| `TypeCorrect` | `TypeOK` |
| `PublicationsAreSound` | `PublicationIsSound` |
| `LatestIsServed` | `LatestSurvives`, the first half of `CertificateSurvives` |
| `CertificateIsServed` | `CertificateSurvives` |

Assumptions: the renewal window is shorter than a lifetime (`TimeAssumption`);
for `CertificateIsServed` two windows are no longer than a lifetime
(`WindowAssumption`), as the code's 30 days (`RENEW_BEFORE_DAYS`) are of the 90 of the
CA that its tests use as well. `PublicationInv`
follows the attempt: its receipt is its own, was there when certbot ended and is
needed for what certbot asked for (`ReceiptsKept`), the domain was authorised
since (`AuthorisationHeld`), and the number it will publish is above the last one
(`NumbersRise`). `SurvivalInv` says why the backup is never needed while
`current.json` is sound: it expires no later (`BackupOlder`). The difficult part
is a manifest that found the pointer unusable before a publication and repairs
it afterwards. `ReadersIdle` excludes it: a publication that leaves a usable
backup replaced a certificate that was due (`OldDue`), and what such a reader can
have seen is not.

After one damage or misreading the backup *is* needed, a manifest may be about to
write it over `current.json` while the worker writes both files, and what has to be
excluded is that it writes back a certificate from before the last two
publications. `HurtInv` adds three layers, all of which TLC checked, with one
reader and with two, before they were proved:

* `Fresh`, always: what an attempt obtained expires a lifetime from now and after
  everything on disk, so that the latest publication outlives the one before;
* `Renewed`, while nothing was hurt: a publication replaced a certificate that was
  due (`BaseWasDue`, hence `Renewals`), or found none that is usable, and what it
  replaced is the backup. This is what the damage finds. It is here that two windows
  must fit into a lifetime: when the latest is due, the one before has expired, so
  whatever usable backup there is, is the latest;
* `Hurt`, from before the damage to after it: the pointers name the last two
  publications (`Pointed`), one of them is there (`StandIns`), and repairs agree with
  the worker (`Repairs`, `Replaced`). A manifest has in hand what is still the
  backup; an attempt that overtakes it is going to keep exactly that backup
  (`BackupIsBase`), because an attempt begins only when the certificate is due and a
  manifest then repairs nothing else (`RepairHarmless`, `AheadOfRepair`).

`Hurt` is inductive by itself, without the assumption; each step that hurts
establishes it from `Renewed` (`ConsiderHurt`, `BeginHurt`, `FindHurt`,
`DamageHurt`).

### What is only model-checked

The liveness properties `Convergence`, `SealedEventuallySettles` and
`TransactionEnds`: the prover has neither fairness nor `ENABLED`. Every invariant
and every action property of the runs is proved. No module uses a recursive
operator.

## 5. Plan

What is left, in order; each item is a module, its instance and its proofs.

1. `DnsRecordSync`: bindings, adoption of existing records, record sets and
   carrier lines, with uncertain mutations; `RelaySwitch` would use its abstract
   specification. Properties: an unowned record is never changed; eventual
   synchronisation.
2. `LegacyUpgrade`: the upgrade of an old installation in place, two
   identities with one host, with the script's recovery paths.
3. `TrafficAccounting` with credential replacement, composed with
   `NodeCredential`, and the first-boot bootstrap of the cursor.

## 6. Not modelled, and why

* copying of bytes, TLS, rate limits, load balancing: data plane I/O;
* rendering of nginx and site files, key files, the ACME dialogue and its challenge
  rows: formatting and
  external programs;
* users, plans, shop, redeem codes: single database transactions with
  conditional updates, serialised by the database;
* upgrade, installation, uninstall: processes, files and SSH; of uninstallation
  the gate and the cleanup of assignments are in `RelaySwitch`;
* enrolment tickets and proofs of possession: cryptography around the
  transactions that `NodeCredential` models;
* watchers, notifications, pruning, diagnostics, frontend, scripts.

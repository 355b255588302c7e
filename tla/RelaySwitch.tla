----------------------------- MODULE RelaySwitch -----------------------------
(***************************************************************************)
(* How an inbound group moves its DNS records from one relay node to       *)
(* another: the durable preference with its transaction journal            *)
(* (service/relay_preference.rs), the per-rule desired records             *)
(* (dns_record_syncs) with the worker that brings the provider to them     *)
(* (service/dnsmgr.rs), and the three actors that start a switch: the      *)
(* operator, the schedule and the failover policy.                         *)
(*                                                                         *)
(* One group and the provider's default line.  Everything that changes the *)
(* preference holds RELAY_PREFERENCE_MUTATION_LOCK; the rules of a         *)
(* transaction are scheduled one by one under it.  A desired record is     *)
(* derived without any lock and stored under a fence that excludes rows in *)
(* execution, so a derivation may be stale when stored.                    *)
(* The provider changes only by the worker's calls, and a call whose       *)
(* outcome is unknown was applied at once or never.                        *)
(***************************************************************************)
EXTENDS Naturals

CONSTANTS Rules, Nodes, Addrs,
          Host,         \* device_groups.connect_host, used without a preference
          Absent,       \* the desired value of a DELETE: no record
          None,
          MaxAttempts,  \* DNS_SYNC_MAX_ATTEMPTS
          MaxStarts,    \* bound: transactions that begin
          MaxEdits      \* bound: edits, mode changes without a transaction, reports,
                        \* retirements and crashes

ASSUME RuleAssumption == Rules \subseteq Nat
ASSUME HostAssumption == Host \in Addrs
ASSUME AbsentAssumption == Absent \notin Addrs /\ None \notin Addrs \cup {Absent}
ASSUME BoundAssumption == /\ MaxAttempts \in Nat \ {0}
                          /\ MaxStarts \in Nat /\ MaxEdits \in Nat

Values  == Addrs \cup {Absent}
Modes   == {"Normal", "Schedule", "Failover"}
Sources == {"Manual", "Schedule", "Failover", "ModeTransition"}
Phases  == {"Idle", "Switching", "RollingBack", "FailedRolledBack", "Manual"}

Entry == [target : Addrs, rollback : Values \cup {None}]
Preference ==
  [phase : Phases, mode : Modes, preferred : Nodes \cup {None},
   normal : Nodes \cup {None}, pending : Nodes \cup {None},
   pendingMode : Modes \cup {None}, source : Sources \cup {None},
   journal : [Rules -> Entry \cup {None}]]

\* FAILED is terminal once the attempts are used up.  REFUSED stands for the
\* outcomes that are never retried: conflict, unknown outcome, unauthorised.
SyncStates == {"PENDING", "SYNCING", "FAILED", "REFUSED", "PROPAGATED",
               "NOT_ELIGIBLE", "DISABLED"}
Sync == [value : Values, state : SyncStates, attempts : 0 .. MaxAttempts]

Resolution == Addrs \cup {"Frozen", "NotEligible", "ConfigurationError"}
Derivation == [rule : Rules, result : Resolution]
Handler    == [todo : SUBSET Rules, derived : Derivation \cup {None}]
Holder     == [by : {"api", "worker"}, todo : SUBSET Rules]

ASSUME ResolutionAssumption == {"Frozen", "NotEligible", "ConfigurationError"} \cap Addrs = {}
ASSUME NoneAssumption == None \notin Entry \cup Sync \cup Derivation \cup Holder \cup Modes

VARIABLES pref,      \* relay_preference:{group}
          addr,      \* the public IPv4 each node last reported; None is unusable
          gate,      \* nodes with a node_uninstall_gate row
          eligible,  \* rules that want a record: not paused, camouflage enabled
          dnsOn,     \* DNSMgr is configured and enabled
          sync,      \* dns_record_syncs, default line
          provider,  \* the provider's record
          lock,      \* holder of the mutation lock and the rules it has yet to
                     \* schedule
          api,       \* schedule_rule calls of an API handler: rules to derive,
                     \* and a derivation that is not stored yet
          worker,    \* reconciliation_batch: stage, rules to refresh, derivation
          batch,     \* rows listed for execution, by the value they had, until
                     \* their write is authorised
          exec,      \* rules whose row is taken for execution (EXECUTION)
          observed,  \* the current node the failover task found failing
          claim,     \* target of a claimed schedule that has not started yet
          starts, edits

prefVars   == <<pref, lock, starts>>
envVars    == <<addr, gate, eligible, dnsOn, edits>>
workerVars == <<worker, batch, exec>>
vars == <<prefVars, envVars, workerVars, sync, provider, api, observed, claim>>

TypeOK ==
  /\ pref \in Preference
  /\ addr \in [Nodes -> Addrs \cup {None}]
  /\ gate \subseteq Nodes /\ eligible \subseteq Rules /\ dnsOn \in BOOLEAN
  /\ sync \in [Rules -> Sync \cup {None}]
  /\ provider \in [Rules -> Values]
  /\ lock \in Holder \cup {None}
  /\ api \in Handler
  /\ worker \in [stage : {"guard", "prepare", "refresh", "execute", "settle"},
                 todo : SUBSET Rules, derived : Derivation \cup {None}]
  /\ batch \in [Rules -> Values \cup {None}]
  /\ exec \subseteq Rules
  /\ {observed, claim} \subseteq Nodes \cup {None}
  /\ starts \in 0 .. MaxStarts /\ edits \in 0 .. MaxEdits
-----------------------------------------------------------------------------
(* What a preference asks for.                                             *)

SourceAuthorized(mode, source) ==
  <<mode, source>> \in {<<"Normal", "Manual">>, <<"Schedule", "Schedule">>,
                        <<"Failover", "Failover">>}

Active == pref.phase \in {"Switching", "RollingBack"}
Frozen == pref.phase \in {"FailedRolledBack", "Manual"}

JournalRules    == {r \in Rules : pref.journal[r] # None}
JournalValue(r) == IF pref.phase = "RollingBack" THEN pref.journal[r].rollback
                                                 ELSE pref.journal[r].target

\* dns_transaction_authorizes
JournalAuthorizes(r, v) ==
  /\ Active
  /\ IF pref.source = "ModeTransition" THEN pref.pendingMode # None
                                       ELSE SourceAuthorized(pref.mode, pref.source)
  /\ r \in JournalRules /\ JournalValue(r) = v

Selected == IF pref.phase = "Switching" THEN pref.pending ELSE pref.preferred

\* derive_dns_desired: what is wanted for rule r.
Derive(r) ==
  IF Frozen THEN "Frozen"
  ELSE IF r \notin eligible THEN "NotEligible"
  ELSE IF Active /\ r \in JournalRules /\ JournalValue(r) \in Addrs THEN JournalValue(r)
  ELSE LET a == IF Selected = None THEN Host ELSE addr[Selected]
       IN  IF a = None THEN "ConfigurationError" ELSE a

\* upsert_is_authorized and delete_is_authorized
MayWrite(r, v) ==
  \/ JournalAuthorizes(r, v) /\ (v = Absent \/ r \in eligible)
  \/ v \in Addrs /\ Derive(r) = v
-----------------------------------------------------------------------------
(* The desired record of a rule.                                           *)

Pending(v) == [value |-> v, state |-> "PENDING", attempts |-> 0]
Mark(row, s) == [row EXCEPT !.state = s, !.attempts = 0]

\* persist_desired and persist_line_desired, inside the fence
Desire(row, v, forced) ==
  IF row = None \/ row.value # v THEN Pending(v)
  ELSE IF forced \/ row.state = "DISABLED"
               \/ (v = Absent /\ row.state = "NOT_ELIGIBLE")
       THEN Mark(row, "PENDING") ELSE row

\* persist_resolution: what is stored is the derivation, whatever the
\* preference says by now, except that a journaled DELETE goes first.
Persist(r, result, forced) ==
  CASE result = "Frozen" -> sync
    [] result = "NotEligible" ->
         IF sync[r] = None THEN sync ELSE [sync EXCEPT ![r] = Mark(@, "NOT_ELIGIBLE")]
    [] OTHER ->
         IF r \in eligible /\ JournalAuthorizes(r, Absent)
           THEN [sync EXCEPT ![r] = Desire(@, Absent, FALSE)]
         ELSE IF result = "ConfigurationError" THEN sync
         ELSE [sync EXCEPT ![r] = Desire(@, result, forced)]

\* Rules are walked in the order of their ids.
IsNext(r, todo) == r \in todo /\ \A q \in todo : r <= q

\* Storing a desired value waits for the rows in execution.
Fenced(result) == exec = {} \/ result \in {"Frozen", "NotEligible"}

\* schedule_rule ends by disabling the row when DNSMgr is off.
Scheduled(r, result) ==
  LET stored == Persist(r, result, TRUE)
  IN  IF ~dnsOn /\ stored[r] # None /\ result # "Frozen"
      THEN [stored EXCEPT ![r] = Mark(@, "DISABLED")] ELSE stored
-----------------------------------------------------------------------------
(* Transactions begin.                                                     *)

Edit == edits < MaxEdits /\ edits' = edits + 1

NoEnvChange == UNCHANGED <<envVars, workerVars, provider, api>>

\* build_dns_transaction_records: the way back is the current node's address,
\* or what the provider is known to hold.
RollbackFor(r) ==
  IF pref.preferred # None /\ addr[pref.preferred] # None THEN addr[pref.preferred]
  ELSE IF sync[r] # None /\ sync[r].state = "PROPAGATED" /\ sync[r].value \in Addrs
       THEN sync[r].value ELSE None

Startable(t, source) ==
  /\ lock = None /\ starts < MaxStarts
  /\ SourceAuthorized(pref.mode, source)
  /\ {t, pref.preferred} \cap gate = {}
  /\ pref.phase \in {"Idle", "FailedRolledBack"}
  /\ addr[t] # None
  /\ ~(pref.phase = "Idle" /\ pref.preferred = t)
  /\ dnsOn /\ eligible # {}

\* start_relay_switch_locked; t is ready.
Start(t, source) ==
  /\ Startable(t, source)
  /\ pref' = [pref EXCEPT !.phase = "Switching", !.pending = t, !.source = source,
       !.journal = [r \in Rules |-> IF r \in eligible
                      THEN [target |-> addr[t], rollback |-> RollbackFor(r)]
                      ELSE None]]
  /\ lock' = [by |-> "api", todo |-> eligible]
  /\ starts' = starts + 1
  /\ UNCHANGED sync /\ NoEnvChange

ManualStart(t) == Start(t, "Manual") /\ UNCHANGED <<observed, claim>>

\* Failover: the node is found failing, replacements are probed, and the switch
\* starts if that node is still the current one.
ObserveFailing ==
  /\ pref.mode = "Failover" /\ pref.preferred # None /\ observed = None
  /\ starts < MaxStarts
  /\ pref.phase \in {"Idle", "FailedRolledBack"}
  /\ observed' = pref.preferred
  /\ UNCHANGED <<prefVars, sync, claim>> /\ NoEnvChange

StartWhateverIsCurrent(t) ==           \* mutation: the current node is not compared
  /\ observed # None
  /\ Start(t, "Failover")
  /\ observed' = None /\ UNCHANGED claim

StartIfCurrent(t) ==
  /\ observed # None /\ pref.preferred = observed
  /\ Start(t, "Failover")
  /\ observed' = None /\ UNCHANGED claim

ObservationDropped ==
  /\ observed # None /\ observed' = None
  /\ UNCHANGED <<prefVars, sync, claim>> /\ NoEnvChange

\* Schedule: the occurrence is claimed, and its switch starts later.
ClaimSchedule(t) ==
  /\ pref.mode = "Schedule" /\ claim = None /\ starts < MaxStarts
  /\ claim' = t
  /\ UNCHANGED <<prefVars, sync, observed>> /\ NoEnvChange

ScheduledStart ==
  /\ claim # None
  /\ \/ Start(claim, "Schedule")
     \/ ~Startable(claim, "Schedule") /\ lock = None
        /\ UNCHANGED <<prefVars, sync>> /\ NoEnvChange
  /\ claim' = None /\ UNCHANGED observed

Cleared == [pref EXCEPT !.phase = "Idle", !.pending = None, !.pendingMode = None,
                        !.source = None, !.journal = [r \in Rules |-> None]]

TransitionAnyTime(m) ==                \* mutation: a transaction is not respected
  /\ lock = None /\ m # pref.mode /\ Edit
  /\ pref' = [pref EXCEPT !.mode = m]
  /\ UNCHANGED <<lock, starts, addr, gate, eligible, dnsOn, workerVars, sync, provider,
                 api, observed, claim>>

\* transition_routing_mode: back to Normal the records follow its default node,
\* with a journal whose way back is what the provider holds.
TransitionMode(m) ==
  /\ lock = None /\ m # pref.mode
  /\ pref.phase \in {"Idle", "FailedRolledBack"}
  /\ \/ /\ m # "Normal" \/ pref.normal = pref.preferred
        /\ Edit
        /\ pref' = [Cleared EXCEPT !.mode = m]
        /\ UNCHANGED <<lock, starts, addr, gate, eligible, dnsOn, workerVars, provider,
                       api>>
     \/ /\ m = "Normal" /\ pref.normal \notin {None, pref.preferred}
        /\ starts < MaxStarts /\ starts' = starts + 1
        /\ dnsOn /\ eligible # {}
        /\ pref.normal \notin gate /\ addr[pref.normal] # None
        /\ pref' = [pref EXCEPT !.phase = "Switching", !.pendingMode = m,
             !.pending = pref.normal, !.source = "ModeTransition",
             !.journal = [r \in Rules |-> IF r \in eligible
               THEN [target |-> addr[pref.normal], rollback |-> provider[r]]
               ELSE None]]
        /\ lock' = [by |-> "api", todo |-> eligible]
        /\ NoEnvChange
  /\ UNCHANGED <<sync, observed, claim>>
-----------------------------------------------------------------------------
(* Under the lock: scheduling, and falling back when it fails.             *)

Stored(p, by) ==
  /\ pref' = p
  /\ lock' = IF p.phase = "RollingBack" THEN [by |-> by, todo |-> JournalRules]
                                        ELSE None
  /\ UNCHANGED starts

\* transition_to_rollback and begin_rollback
BeginRollback(by) ==
  Stored([pref EXCEPT !.phase =
            IF JournalRules # {} /\ \A r \in JournalRules : pref.journal[r].rollback # None
              THEN "RollingBack" ELSE "Manual"], by)

\* schedule_group_eligible, or schedule_transaction_records for a mode change.
\* A rule that stopped being eligible is passed over or marked.
ScheduleRule(r) ==
  /\ lock # None /\ IsNext(r, lock.todo)
  /\ IF pref.source = "ModeTransition"
       THEN /\ exec = {}
            /\ sync' = [sync EXCEPT ![r] = Desire(@, JournalValue(r), TRUE)]
       ELSE \/ LET result == Derive(r)
               IN  Fenced(result) /\ sync' = Scheduled(r, result)
            \/ r \notin eligible /\ UNCHANGED sync
  /\ lock' = IF lock.todo = {r} THEN None ELSE [lock EXCEPT !.todo = @ \ {r}]
  /\ UNCHANGED <<pref, starts, observed, claim>> /\ NoEnvChange

ScheduleFails ==
  /\ lock # None
  /\ IF pref.phase = "Switching" THEN BeginRollback(lock.by)
                                 ELSE Stored([pref EXCEPT !.phase = "Manual"], lock.by)
  /\ UNCHANGED <<sync, observed, claim>> /\ NoEnvChange
-----------------------------------------------------------------------------
(* The worker observes a transaction (finalize_switching_group).           *)

Matches(r)  == sync[r] # None /\ sync[r].value = JournalValue(r)
Applied(r)  == Matches(r) /\ sync[r].state = "PROPAGATED"
Terminal(r) == /\ Matches(r)
               /\ \/ sync[r].state \in {"REFUSED", "NOT_ELIGIBLE", "DISABLED"}
                  \/ sync[r].state = "FAILED" /\ sync[r].attempts = MaxAttempts

\* Status or address of the target is gone or another one than was journaled.
TargetMoved ==
  /\ pref.source # "ModeTransition"
  /\ pref.pending # None =>
       \E r \in JournalRules : pref.journal[r].target # addr[pref.pending]

Unsafe == TargetMoved \/ JournalRules # eligible

Committed ==
  [Cleared EXCEPT !.preferred = pref.pending,
     !.mode = IF pref.source = "ModeTransition" THEN pref.pendingMode ELSE @,
     !.normal = IF pref.source = "Manual" /\ pref.mode = "Normal"
                  THEN pref.pending ELSE @]

CommitWhenSome ==                      \* mutation: one applied record is enough
  \/ (Unsafe \/ \E r \in JournalRules : Terminal(r)) /\ BeginRollback("worker")
  \/ /\ ~Unsafe /\ \E r \in JournalRules : Applied(r)
     /\ Stored(Committed, "worker") \/ BeginRollback("worker")
  \/ /\ ~Unsafe /\ \A r \in JournalRules : ~Applied(r) /\ ~Terminal(r)
     /\ UNCHANGED prefVars

\* The target may turn out not to be ready after all records are applied.  A
\* mode change stops at the first record that is not, before a terminal one.
FinalizeSwitch ==
  \/ (Unsafe \/ \E r \in JournalRules : Terminal(r)) /\ BeginRollback("worker")
  \/ /\ ~Unsafe /\ \A r \in JournalRules : Applied(r)
     /\ Stored(Committed, "worker") \/ BeginRollback("worker")
  \/ /\ ~Unsafe /\ \E r \in JournalRules : ~Applied(r) /\ ~Terminal(r)
     /\ (\A r \in JournalRules : ~Terminal(r)) \/ pref.source = "ModeTransition"
     /\ UNCHANGED prefVars

FinishAtOnce ==                        \* mutation: the records are not awaited
  Stored([pref EXCEPT !.phase = "FailedRolledBack"], "worker")

FinalizeRollback ==
  \/ /\ ~(JournalRules \subseteq eligible) \/ \E r \in JournalRules : Terminal(r)
     /\ Stored([pref EXCEPT !.phase = "Manual"], "worker")
  \/ /\ JournalRules \subseteq eligible /\ \A r \in JournalRules : Applied(r)
     /\ Stored([pref EXCEPT !.phase = "FailedRolledBack", !.pendingMode =
                  IF pref.source = "ModeTransition" THEN None ELSE @], "worker")
  \/ /\ JournalRules \subseteq eligible
     /\ \E r \in JournalRules : ~Applied(r)
     /\ \A r \in JournalRules : ~Terminal(r)
     /\ UNCHANGED prefVars

FinalizeForward ==                     \* mutation: rollbacks are not observed
  /\ worker.stage \in {"guard", "settle"} /\ lock = None
  /\ IF pref.phase = "Switching" THEN FinalizeSwitch ELSE UNCHANGED prefVars
  /\ worker' = [worker EXCEPT !.stage =
                  IF worker.stage = "guard" THEN "prepare" ELSE "guard"]
  /\ UNCHANGED <<envVars, batch, exec, sync, provider, api, observed, claim>>

Finalize ==
  /\ worker.stage \in {"guard", "settle"} /\ lock = None
  /\ CASE pref.phase = "Switching"   -> FinalizeSwitch
       [] pref.phase = "RollingBack" -> FinalizeRollback
       [] OTHER                      -> UNCHANGED prefVars
  /\ worker' = [worker EXCEPT !.stage =
                  IF worker.stage = "guard" THEN "prepare" ELSE "guard"]
  /\ UNCHANGED <<envVars, batch, exec, sync, provider, api, observed, claim>>
-----------------------------------------------------------------------------
(* The rest of a batch: refresh, list, execute.                            *)

NotHeldByWorker == lock # None => lock.by # "worker"
NoPrefChange    == UNCHANGED <<prefVars, envVars, api, observed, claim>>

\* disable_all_syncs
Disabled == IF Frozen THEN sync
            ELSE [r \in Rules |-> IF sync[r] = None THEN None
                                  ELSE Mark(sync[r], "DISABLED")]

Prepare ==
  /\ worker.stage = "prepare" /\ NotHeldByWorker
  /\ IF dnsOn THEN /\ worker' = [worker EXCEPT !.stage = "refresh", !.todo = Rules]
                   /\ UNCHANGED sync
              ELSE /\ worker' = [worker EXCEPT !.stage = "settle"]
                   /\ sync' = Disabled
  /\ UNCHANGED <<batch, exec, provider>> /\ NoPrefChange

RefreshDerive(r) ==
  /\ worker.stage = "refresh" /\ worker.derived = None /\ IsNext(r, worker.todo)
  /\ worker' = [worker EXCEPT !.todo = @ \ {r},
                  !.derived = [rule |-> r, result |-> Derive(r)]]
  /\ UNCHANGED <<batch, exec, sync, provider>> /\ NoPrefChange

RefreshPersist ==
  /\ worker.derived # None
  /\ sync' = Persist(worker.derived.rule, worker.derived.result, FALSE)
  /\ worker' = [worker EXCEPT !.derived = None]
  /\ UNCHANGED <<batch, exec, provider>> /\ NoPrefChange

DueForEver(row) ==                     \* mutation: the attempts are not counted
  row # None /\ row.state \in {"PENDING", "SYNCING", "FAILED"}

Due(row) == /\ row # None
            /\ \/ row.state \in {"PENDING", "SYNCING"}
               \/ row.state = "FAILED" /\ row.attempts < MaxAttempts

\* list_executable_due_syncs.  The time until a retry is due is left out.
List ==
  /\ worker.stage = "refresh" /\ worker.derived = None /\ worker.todo = {}
  /\ batch' = [r \in Rules |-> IF Due(sync[r]) /\ ~Frozen THEN sync[r].value ELSE None]
  /\ worker' = [worker EXCEPT !.stage = "execute"]
  /\ UNCHANGED <<exec, sync, provider>> /\ NoPrefChange

Taken(row) == [row EXCEPT !.state = "SYNCING", !.attempts = @ + 1]

\* reconcile_one and reconcile_delete, up to the authorisation: the row is taken
\* if it is as listed.
Take(r) ==
  /\ worker.stage = "execute" /\ batch[r] # None /\ r \notin exec
  /\ IF Due(sync[r]) /\ sync[r].value = batch[r]
       THEN /\ sync' = [sync EXCEPT ![r] = Taken(@)]
            /\ exec' = exec \cup {r}
            /\ UNCHANGED batch
       ELSE /\ batch' = [batch EXCEPT ![r] = None]
            /\ UNCHANGED <<sync, exec>>
  /\ UNCHANGED <<worker, provider>> /\ NoPrefChange

AuthorizeUnchecked(r) ==               \* mutation: a row that was taken is written
  /\ r \in exec /\ batch[r] # None
  /\ batch' = [batch EXCEPT ![r] = None]
  /\ UNCHANGED <<worker, exec, sync, provider>> /\ NoPrefChange

\* The write is authorised by the preference of this moment.  The zone, the
\* binding and the provider's records are still to be looked up.
Authorize(r) ==
  /\ r \in exec /\ batch[r] # None /\ MayWrite(r, batch[r])
  /\ batch' = [batch EXCEPT ![r] = None]
  /\ UNCHANGED <<worker, exec, sync, provider>> /\ NoPrefChange

\* Rows past their authorisation, which is not asked for again.
Authorized == {r \in exec : batch[r] = None}

\* provider_create_record, provider_update_record, provider_delete_record
Write(r) ==
  /\ r \in Authorized /\ provider[r] # sync[r].value
  /\ provider' = [provider EXCEPT ![r] = sync[r].value]
  /\ UNCHANGED <<worker, batch, exec, sync>> /\ NoPrefChange

\* The result is saved only if the row is still the one that was taken.
Save(r, s) ==
  sync' = IF sync[r].state # "SYNCING" THEN sync
          ELSE [sync EXCEPT ![r].state = s,
                            ![r].attempts = IF s = "PROPAGATED" THEN 0 ELSE @]

UnknownIsApplied(r) ==                 \* mutation: an unknown outcome is success
  /\ r \in exec
  /\ Save(r, "PROPAGATED")
  /\ exec' = exec \ {r} /\ batch' = [batch EXCEPT ![r] = None]
  /\ UNCHANGED <<worker, provider>> /\ NoPrefChange

\* The record is read back as desired, written or already there; or there is no
\* verified success, be it for want of the authorisation.
Reconcile(r) ==
  /\ r \in exec
  /\ \/ r \in Authorized /\ provider[r] = sync[r].value /\ Save(r, "PROPAGATED")
     \/ \E s \in {"FAILED", "REFUSED"} : Save(r, s)
  /\ exec' = exec \ {r} /\ batch' = [batch EXCEPT ![r] = None]
  /\ UNCHANGED <<worker, provider>> /\ NoPrefChange

BatchDone ==
  /\ worker.stage = "execute" /\ exec = {} /\ \A r \in Rules : batch[r] = None
  /\ worker' = [worker EXCEPT !.stage = "settle"]
  /\ UNCHANGED <<batch, exec, sync, provider>> /\ NoPrefChange
-----------------------------------------------------------------------------
(* The operator and the nodes.                                             *)

\* A node's status changes its address.
Report(n, a) ==
  /\ Edit /\ a # addr[n]
  /\ addr' = [addr EXCEPT ![n] = a]
  /\ UNCHANGED <<prefVars, workerVars, gate, eligible, dnsOn, sync, provider, api,
                 observed, claim>>

\* Rules are paused or resumed, or left as they are to have a record retried.
\* Then schedule_rule derives their records, and stores them later.
EditRules(el, S) ==
  /\ Edit /\ api.todo = {} /\ api.derived = None
  /\ eligible' = el
  /\ api' = [api EXCEPT !.todo = S]
  /\ UNCHANGED <<prefVars, workerVars, addr, gate, dnsOn, sync, provider, observed,
                 claim>>

ApiDerive(r) ==
  /\ r \in api.todo /\ api.derived = None
  /\ api' = [todo |-> api.todo \ {r}, derived |-> [rule |-> r, result |-> Derive(r)]]
  /\ UNCHANGED <<prefVars, envVars, workerVars, sync, provider, observed, claim>>

ApiPersist ==
  /\ api.derived # None /\ Fenced(api.derived.result)
  /\ sync' = Scheduled(api.derived.rule, api.derived.result)
  /\ api' = [api EXCEPT !.derived = None]
  /\ UNCHANGED <<prefVars, envVars, workerVars, provider, observed, claim>>

\* update_dnsmgr_settings: switched on, every rule is scheduled again.
SetDns(on) ==
  /\ Edit /\ on # dnsOn /\ api.todo = {} /\ api.derived = None
  /\ dnsOn' = on
  /\ IF on THEN api' = [api EXCEPT !.todo = Rules] /\ UNCHANGED sync
           ELSE sync' = Disabled /\ UNCHANGED api
  /\ UNCHANGED <<prefVars, workerVars, addr, gate, eligible, provider, observed, claim>>

\* save_inactive_normal_default
SetNormalDefault(n) ==
  /\ Edit /\ lock = None /\ pref.mode # "Normal"
  /\ pref.phase \in {"Idle", "FailedRolledBack"}
  /\ n \notin gate /\ n # pref.normal
  /\ pref' = [pref EXCEPT !.normal = n]
  /\ UNCHANGED <<lock, starts, addr, gate, eligible, dnsOn, workerVars, sync, provider,
                 api, observed, claim>>

References(n) == Active /\ n \in {pref.preferred, pref.pending, pref.normal}

GateUnchecked(n) ==                    \* mutation: transactions are not looked at
  /\ Edit /\ lock = None /\ n \notin gate
  /\ gate' = gate \cup {n}
  /\ UNCHANGED <<prefVars, workerVars, addr, eligible, dnsOn, sync, provider, api,
                 observed, claim>>

BeginUninstallGate(n) ==
  /\ Edit /\ lock = None /\ n \notin gate /\ ~References(n)
  /\ gate' = gate \cup {n}
  /\ UNCHANGED <<prefVars, workerVars, addr, eligible, dnsOn, sync, provider, api,
                 observed, claim>>

Without(p, n) ==
  [p EXCEPT !.preferred = IF @ = n THEN None ELSE @,
            !.normal    = IF @ = n THEN None ELSE @,
            !.pending   = IF @ = n THEN None ELSE @]

\* cleanup_uninstalled_node: the status is deleted, and the assignment unless a
\* transaction refers to the node (it is tried again later).
RemoveAssignment(n) ==
  /\ lock = None /\ n \in gate
  /\ addr' = [addr EXCEPT ![n] = None]
  /\ pref' = IF References(n) THEN pref ELSE Without(pref, n)
  /\ UNCHANGED <<lock, starts, gate, eligible, dnsOn, edits, workerVars, sync, provider,
                 api, observed, claim>>

\* release_uninstall_gate: the uninstall is complete, or it was never delivered.
ReleaseGate(n) ==
  /\ lock = None /\ n \in gate
  /\ gate' = gate \ {n}
  /\ UNCHANGED <<prefVars, addr, eligible, dnsOn, edits, workerVars, sync, provider, api,
                 observed, claim>>

\* retire_node_assignment stops a transaction of that node for inspection.
Retire(n) ==
  /\ Edit /\ lock = None
  /\ pref' = Without(IF References(n)
                       THEN [pref EXCEPT !.phase = "Manual", !.pending = None,
                                         !.pendingMode = None, !.source = None]
                       ELSE pref, n)
  /\ addr' = [addr EXCEPT ![n] = None]
  /\ UNCHANGED <<lock, starts, gate, eligible, dnsOn, workerVars, sync, provider, api,
                 observed, claim>>

\* ensure_preference_initialized: n is the only ready node.
InitializePreference(n) ==
  /\ lock = None /\ pref.phase = "Idle" /\ pref.preferred = None
  /\ n \notin gate /\ addr[n] # None
  /\ pref' = [pref EXCEPT !.preferred = n]
  /\ UNCHANGED <<lock, starts, envVars, workerVars, sync, provider, api, observed,
                 claim>>

\* The panel stops.  At start-up resume_unfrozen_syncs_on_startup re-arms what was
\* under way.
Resumed(row) ==
  IF row # None /\ row.state \in {"PENDING", "SYNCING", "FAILED"}
    THEN Mark(row, "PENDING") ELSE row

Crash ==
  /\ Edit
  /\ sync' = IF Frozen THEN sync ELSE [r \in Rules |-> Resumed(sync[r])]
  /\ lock' = None /\ exec' = {} /\ observed' = None /\ claim' = None
  /\ api' = [todo |-> {}, derived |-> None]
  /\ worker' = [stage |-> "guard", todo |-> {}, derived |-> None]
  /\ batch' = [r \in Rules |-> None]
  /\ UNCHANGED <<pref, starts, addr, gate, eligible, dnsOn, provider>>
-----------------------------------------------------------------------------
\* The group runs on `current`; the rules in `fresh` have just been created.
\* DNSMgr may have been switched off since.
Running(mode, current, normal, el, fresh, on) ==
  /\ pref = [phase |-> "Idle", mode |-> mode, preferred |-> current,
             normal |-> normal, pending |-> None, pendingMode |-> None,
             source |-> None, journal |-> [r \in Rules |-> None]]
  /\ gate = {} /\ eligible = el /\ dnsOn = on
  /\ sync = [r \in Rules |-> IF r \in fresh THEN None
              ELSE [value |-> addr[current], attempts |-> 0,
                    state |-> IF on THEN "PROPAGATED" ELSE "DISABLED"]]
  /\ provider = [r \in Rules |-> IF r \in fresh THEN Absent ELSE addr[current]]
  /\ lock = None /\ api = [todo |-> {}, derived |-> None]
  /\ worker = [stage |-> "guard", todo |-> {}, derived |-> None]
  /\ batch = [r \in Rules |-> None] /\ exec = {}
  /\ observed = None /\ claim = None /\ starts = 0 /\ edits = 0

Init ==
  /\ addr \in [Nodes -> Addrs]
  /\ \E mode \in Modes, n, m \in Nodes, el, fresh \in SUBSET Rules :
       /\ mode = "Normal" => m = n
       /\ fresh \subseteq el
       /\ Running(mode, n, m, el, fresh, TRUE) \/ Running(mode, n, m, el, {}, FALSE)

Switches ==
  \/ \E n \in Nodes : ManualStart(n) \/ StartIfCurrent(n) \/ ClaimSchedule(n)
  \/ \E m \in Modes : TransitionMode(m)
  \/ ObserveFailing \/ ObservationDropped \/ ScheduledStart

Locked == ScheduleFails \/ \E r \in Rules : ScheduleRule(r)

Worker ==
  \/ Finalize \/ Prepare \/ RefreshPersist \/ List \/ BatchDone
  \/ \E r \in Rules : RefreshDerive(r) \/ Take(r) \/ Authorize(r) \/ Write(r)
                      \/ Reconcile(r)

Handlers == ApiPersist \/ \E r \in Rules : ApiDerive(r)

Environment ==
  \/ \E n \in Nodes :
       \/ BeginUninstallGate(n) \/ RemoveAssignment(n) \/ ReleaseGate(n) \/ Retire(n)
       \/ InitializePreference(n) \/ SetNormalDefault(n)
       \/ \E a \in Addrs \cup {None} : Report(n, a)
  \/ \E r \in Rules : \E el \in {eligible, eligible \cup {r}, eligible \ {r}} :
       EditRules(el, {r})
  \/ \E on \in BOOLEAN : SetDns(on)
  \/ Crash

Next == Switches \/ Locked \/ Worker \/ Handlers \/ Environment

Spec == Init /\ [][Next]_vars

\* The worker's loop runs for ever and the holder of the lock goes on: as the
\* worker waits for the lock, it is enough that one of them moves.  Operators,
\* handlers, nodes and crashes owe nothing.
FairSpec == Spec /\ WF_vars(Worker \/ Locked)
-----------------------------------------------------------------------------
(* Properties.                                                             *)

\* A row that says PROPAGATED tells what the provider holds: no result of a call
\* for an older value, of an unknown outcome or of a disabled row is taken for it.
SyncHonest ==
  \A r \in Rules : sync[r] # None /\ sync[r].state = "PROPAGATED"
                    => provider[r] = sync[r].value

\* A switch or mode change is committed only when the provider holds the target
\* for every eligible rule, and never for a node that is being uninstalled.
CommitMeansApplied ==
  [][pref.phase = "Switching" /\ pref'.phase = "Idle" =>
       /\ \A r \in eligible : r \in JournalRules /\ provider[r] = pref.journal[r].target
       /\ pref'.preferred \notin gate]_vars

\* "Rolled back" is true of every record of the transaction, and stays true while
\* the group is frozen: stale derivations, batches and crashes change nothing.
RestoredWhileFrozen ==
  pref.phase = "FailedRolledBack" =>
    \A r \in JournalRules : provider[r] = pref.journal[r].rollback

\* What an operator inspects in a stopped group stands still as soon as the
\* writes are over that had been authorised before it stopped: rows that were
\* listed or taken, but not authorised, are not written any more.  A write on its
\* way when a node of the transaction is retired does reach the stopped group.
StoppedStandsStill ==
  [][Frozen /\ Authorized = {} => /\ provider' = provider
                                  /\ Frozen' => Authorized' = {}]_vars

\* The mode that authorised a running switch is still the group's mode: its
\* journal goes on authorising its writes until it ends.
SourceStaysAuthorized ==
  Active => IF pref.source = "ModeTransition"
              THEN pref.pendingMode # None /\ pref.pendingMode # pref.mode
              ELSE SourceAuthorized(pref.mode, pref.source)

\* A node that is being uninstalled is not the target of a running transaction,
\* nor the way back of a switch (a mode change does not look at the latter).
UninstallExcluded ==
  Active => /\ pref.pending \notin gate
            /\ pref.source # "ModeTransition" => pref.preferred \notin gate

\* An automatic switch replaces the node whose failure was observed, whatever
\* operators did since.
AutomaticActsOnCurrent ==
  [][pref'.source = "Failover" /\ starts' # starts => pref.preferred = observed]_vars

\* A transaction ends, whatever the provider answers and wherever the panel
\* stopped, unless DNSMgr is switched off: a row that a stale derivation took off
\* the journal's value just before is then neither applied nor terminal.
TransactionEnds == Active ~> ~Active \/ ~dnsOn

\* The preference, its rows and the worker together behave as one transaction
\* over the provider's records (phase and dns_records of RelayPreferenceState).
Transaction == INSTANCE SwitchTransaction WITH phase   <- pref.phase,
                                               journal <- pref.journal,
                                               records <- provider

ImplementsTransaction == Transaction!Spec
=============================================================================

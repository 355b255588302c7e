-------------------------- MODULE RelaySwitchProofs --------------------------
(***************************************************************************)
(* Proofs about the switch of a group from one relay to another, for every *)
(* number of rules, nodes, addresses, attempts, switches and edits.        *)
(*                                                                         *)
(* The invariant has two halves.  SwitchInv is about the preference: who   *)
(* authorised the transaction, which nodes it may name, what the lock's    *)
(* holder still has to schedule.  RowInv is about rows and execution: rows *)
(* are listed and in execution only while the worker executes, never once  *)
(* a group is rolled back, and a row in execution never says PROPAGATED;   *)
(* SYNCING rows are in execution.  PhaseFollows is what a step on the      *)
(* first half owes the second: a phase that promises something about the   *)
(* provider is entered only when the rows say so.  Still is what a stopped *)
(* group is owed.  All steps that store rows are one case, Rearms: they    *)
(* never claim success.                                                    *)
(***************************************************************************)
EXTENDS RelaySwitch, TLAPS

LEMMA NoneIsNothing == /\ None \notin Entry /\ None \notin Sync /\ None \notin Derivation
                       /\ None \notin Holder /\ None \notin Modes
                       /\ None \notin Addrs /\ None \notin Values
BY NoneAssumption, AbsentAssumption DEF Values

USE NoneIsNothing

SwitchTypes ==
  /\ pref \in Preference
  /\ addr \in [Nodes -> Addrs \cup {None}]
  /\ gate \subseteq Nodes /\ eligible \subseteq Rules
  /\ sync \in [Rules -> Sync \cup {None}]
  /\ provider \in [Rules -> Values]
  /\ lock \in Holder \cup {None}
  /\ observed \in Nodes \cup {None} /\ claim \in Nodes \cup {None}

\* Whoever holds the lock has a transaction, and its rules are journaled; a way
\* back that is followed exists for all of them.
LockFollows ==
  /\ lock # None => Active /\ lock.todo \subseteq JournalRules
  /\ pref.phase = "RollingBack" =>
       \A r \in JournalRules : pref.journal[r].rollback # None

SwitchInv == SwitchTypes /\ SourceStaysAuthorized /\ UninstallExcluded /\ LockFollows

\* What a step may make of the phase.
PhaseFollows ==
  /\ pref.phase = "Manual" => pref'.phase = "Manual"
  /\ pref'.phase = "FailedRolledBack" =>
       /\ pref'.journal = pref.journal
       /\ \/ pref.phase = "FailedRolledBack"
          \/ /\ pref.phase = "RollingBack" /\ worker.stage # "execute"
             /\ \A r \in JournalRules : Applied(r)
  /\ pref.phase = "Switching" /\ pref'.phase = "Idle" =>
       /\ JournalRules = eligible /\ \A r \in JournalRules : Applied(r)
       /\ pref'.preferred = pref.pending

Began(p, t, source) ==
  /\ p.phase = "Switching" /\ p.pending = t /\ p.source = source
  /\ p.preferred = pref.preferred /\ p.mode = pref.mode /\ p.normal = pref.normal

-----------------------------------------------------------------------------
(* Transactions begin.                                                     *)

LEMMA StartStep ==
  ASSUME SwitchInv, NEW t \in Nodes, NEW source \in {"Manual", "Schedule", "Failover"},
         Start(t, source)
  PROVE  /\ pref' \in Preference /\ lock' \in Holder /\ Began(pref', t, source)
         /\ lock'.todo = eligible
         /\ \A r \in Rules : pref'.journal[r] # None <=> r \in eligible
<1>1. /\ pref \in Preference /\ eligible \subseteq Rules /\ addr[t] \in Addrs
  BY DEF SwitchInv, SwitchTypes, Start, Startable
<1>2. \A r \in Rules : RollbackFor(r) \in Values \cup {None}
  BY DEF SwitchInv, SwitchTypes, RollbackFor, Preference, Values
<1> DEFINE entry(r) == [target |-> addr[t], rollback |-> RollbackFor(r)]
           journal == [r \in Rules |-> IF r \in eligible THEN entry(r) ELSE None]
<1>3. \A r \in Rules : entry(r) \in Entry
  BY <1>1, <1>2 DEF Entry
<1>4. journal \in [Rules -> Entry \cup {None}]
      /\ \A r \in Rules : journal[r] # None <=> r \in eligible
  <2> HIDE DEF entry
  <2>1. QED
    BY <1>3
<1>5. pref' = [pref EXCEPT !.phase = "Switching", !.pending = t, !.source = source,
                 !.journal = journal]
  BY DEF Start
<1>6. lock' = [by |-> "api", todo |-> eligible]
  BY DEF Start
<1> HIDE DEF journal
<1>7. pref' \in Preference
  BY <1>1, <1>4, <1>5 DEF Preference, Phases, Sources
<1>8. Began(pref', t, source) /\ pref'.journal = journal
  BY <1>1, <1>5 DEF Preference, Began
<1>9. QED
  BY <1>1, <1>4, <1>6, <1>7, <1>8 DEF Holder

LEMMA StartKeeps ==
  ASSUME SwitchInv, NEW t \in Nodes, NEW source \in {"Manual", "Schedule", "Failover"},
         Start(t, source), observed' \in Nodes \cup {None}, claim' \in Nodes \cup {None}
  PROVE  SwitchInv' /\ PhaseFollows
<1>1. /\ pref' \in Preference /\ lock' \in Holder /\ Began(pref', t, source)
      /\ lock'.todo = eligible
      /\ \A r \in Rules : pref'.journal[r] # None <=> r \in eligible
  BY StartStep
<1>2. SwitchTypes'
  BY <1>1 DEF SwitchInv, SwitchTypes, Start, NoEnvChange, envVars
<1>3. SourceStaysAuthorized'
  BY <1>1 DEF SourceStaysAuthorized, SourceAuthorized, Began, Start, Startable
<1>4. UninstallExcluded'
  BY <1>1 DEF UninstallExcluded, Began, Start, Startable, NoEnvChange, envVars
<1>5. LockFollows'
  BY <1>1 DEF LockFollows, Began, Active, JournalRules, SwitchInv, SwitchTypes
<1>6. PhaseFollows
  BY <1>1 DEF PhaseFollows, Began, Start, Startable
<1>7. QED
  BY <1>2, <1>3, <1>4, <1>5, <1>6 DEF SwitchInv

LEMMA ClearedIsIdle ==
  ASSUME pref \in Preference
  PROVE  /\ Cleared \in Preference /\ Cleared.phase = "Idle"
         /\ Cleared.preferred = pref.preferred /\ Cleared.pending = None
         /\ Cleared.mode = pref.mode
         /\ Cleared.normal = pref.normal /\ Cleared.source = None
         /\ Cleared.pendingMode = None /\ Cleared.journal = [r \in Rules |-> None]
<1> DEFINE journal == [r \in Rules |-> None]
<1>1. journal \in [Rules -> Entry \cup {None}]
  OBVIOUS
<1>2. Cleared = [pref EXCEPT !.phase = "Idle", !.pending = None, !.pendingMode = None,
                             !.source = None, !.journal = journal]
  BY DEF Cleared
<1> HIDE DEF journal
<1>3. /\ Cleared \in Preference /\ Cleared.phase = "Idle"
      /\ Cleared.preferred = pref.preferred /\ Cleared.pending = None
      /\ Cleared.mode = pref.mode
      /\ Cleared.normal = pref.normal /\ Cleared.source = None
      /\ Cleared.pendingMode = None /\ Cleared.journal = journal
  BY <1>1, <1>2 DEF Preference, Phases
<1>4. QED
  BY <1>3 DEF journal

LEMMA TransitionKeeps ==
  ASSUME SwitchInv, NEW m \in Modes, TransitionMode(m)
  PROVE  SwitchInv' /\ PhaseFollows
<1>1. pref \in Preference /\ eligible \subseteq Rules /\ lock = None
      /\ pref.phase \in {"Idle", "FailedRolledBack"} /\ m # pref.mode
  BY DEF SwitchInv, SwitchTypes, TransitionMode
<1>2. CASE /\ m # "Normal" \/ pref.normal = pref.preferred
           /\ pref' = [Cleared EXCEPT !.mode = m]
           /\ UNCHANGED <<lock, addr, gate, eligible, sync, provider, observed, claim>>
  <2>1. pref' \in Preference /\ pref'.phase = "Idle" /\ lock' = None
    BY <1>1, <1>2, ClearedIsIdle DEF Preference
  <2>2. QED
    BY <1>1, <1>2, <2>1
       DEF SwitchInv, SwitchTypes, SourceStaysAuthorized, UninstallExcluded, LockFollows,
           Active, PhaseFollows
<1>3. CASE /\ m = "Normal" /\ pref.normal \notin {None, pref.preferred}
           /\ pref.normal \notin gate /\ addr[pref.normal] # None
           /\ pref' = [pref EXCEPT !.phase = "Switching", !.pendingMode = m,
                !.pending = pref.normal, !.source = "ModeTransition",
                !.journal = [r \in Rules |-> IF r \in eligible
                  THEN [target |-> addr[pref.normal], rollback |-> provider[r]]
                  ELSE None]]
           /\ lock' = [by |-> "api", todo |-> eligible]
           /\ UNCHANGED <<addr, gate, eligible, sync, provider, observed, claim>>
  <2> DEFINE entry(r) == [target |-> addr[pref.normal], rollback |-> provider[r]]
             journal == [r \in Rules |-> IF r \in eligible THEN entry(r) ELSE None]
  <2>1. pref.normal \in Nodes /\ addr[pref.normal] \in Addrs
    BY <1>1, <1>3 DEF SwitchInv, SwitchTypes, Preference
  <2>2. \A r \in Rules : entry(r) \in Entry
    BY <2>1 DEF Entry, SwitchInv, SwitchTypes
  <2>3. /\ journal \in [Rules -> Entry \cup {None}]
        /\ \A r \in Rules : journal[r] # None <=> r \in eligible
    <3> HIDE DEF entry
    <3>1. QED
      BY <2>2
  <2>4. pref' = [pref EXCEPT !.phase = "Switching", !.pendingMode = m,
                   !.pending = pref.normal, !.source = "ModeTransition",
                   !.journal = journal]
    BY <1>3
  <2> HIDE DEF journal
  <2>5. /\ pref' \in Preference
        /\ pref'.phase = "Switching" /\ pref'.pending = pref.normal
        /\ pref'.source = "ModeTransition" /\ pref'.pendingMode = m
        /\ pref'.mode = pref.mode /\ pref'.journal = journal
    BY <1>1, <2>1, <2>3, <2>4 DEF Preference, Phases, Sources
  <2>6. SwitchTypes'
    BY <1>1, <1>3, <2>5 DEF SwitchInv, SwitchTypes, Holder
  <2>7. LockFollows' /\ UninstallExcluded'
    BY <1>1, <1>3, <2>3, <2>5 DEF LockFollows, UninstallExcluded, JournalRules, Active
  <2>8. SourceStaysAuthorized' /\ PhaseFollows
    BY <1>1, <1>3, <2>5 DEF SourceStaysAuthorized, PhaseFollows
  <2>9. QED
    BY <2>6, <2>7, <2>8 DEF SwitchInv
<1>4. QED
  BY <1>1, <1>2, <1>3 DEF TransitionMode, NoEnvChange, envVars

-----------------------------------------------------------------------------
(* Transactions fall back and end.                                         *)

\* The phases a transaction can move to while the rest of it stays.
LEMMA PhaseOnly ==
  ASSUME pref \in Preference, NEW ph \in Phases
  PROVE  LET p == [pref EXCEPT !.phase = ph] IN
         /\ p \in Preference /\ p.phase = ph
         /\ p.mode = pref.mode /\ p.preferred = pref.preferred
         /\ p.normal = pref.normal /\ p.pending = pref.pending
         /\ p.pendingMode = pref.pendingMode /\ p.source = pref.source
         /\ p.journal = pref.journal
BY DEF Preference

\* A transaction that goes on or ends, its source and journal as they were.
LEMMA FallingKeeps ==
  ASSUME SwitchInv, NEW by \in {"api", "worker"}, NEW ph \in {"RollingBack", "Manual"},
         Active, Stored([pref EXCEPT !.phase = ph], by),
         ph = "RollingBack" => \A r \in JournalRules : pref.journal[r].rollback # None,
         UNCHANGED <<addr, gate, eligible, sync, provider, observed, claim>>
  PROVE  SwitchInv' /\ PhaseFollows
<1> DEFINE p == [pref EXCEPT !.phase = ph]
<1>1. pref \in Preference /\ ph \in Phases
  BY DEF SwitchInv, SwitchTypes, Phases
<1>2. /\ p \in Preference /\ p.phase = ph
      /\ p.mode = pref.mode /\ p.preferred = pref.preferred
      /\ p.pending = pref.pending
      /\ p.pendingMode = pref.pendingMode /\ p.source = pref.source
      /\ p.journal = pref.journal
  BY <1>1, PhaseOnly
<1> HIDE DEF p
<1>3. pref' = p /\ lock' = IF p.phase = "RollingBack" THEN [by |-> by, todo |-> JournalRules]
                                                      ELSE None
  BY DEF Stored, p
<1>4. SwitchTypes'
  BY <1>2, <1>3 DEF SwitchInv, SwitchTypes, Holder, JournalRules
<1>5. SourceStaysAuthorized' /\ UninstallExcluded'
  BY <1>2, <1>3 DEF SwitchInv, SourceStaysAuthorized, UninstallExcluded, Active
<1>6. LockFollows'
  BY <1>2, <1>3 DEF LockFollows, Active, JournalRules
<1>7. PhaseFollows
  BY <1>2, <1>3 DEF PhaseFollows, Active
<1>8. QED
  BY <1>4, <1>5, <1>6, <1>7 DEF SwitchInv

LEMMA RollbackKeeps ==
  ASSUME SwitchInv, NEW by \in {"api", "worker"}, Active, BeginRollback(by),
         UNCHANGED <<addr, gate, eligible, sync, provider, observed, claim>>
  PROVE  SwitchInv' /\ PhaseFollows
<1>1. CASE JournalRules # {} /\ \A r \in JournalRules : pref.journal[r].rollback # None
  BY <1>1, FallingKeeps DEF BeginRollback
<1>2. CASE ~(JournalRules # {} /\ \A r \in JournalRules : pref.journal[r].rollback # None)
  BY <1>2, FallingKeeps DEF BeginRollback
<1>3. QED
  BY <1>1, <1>2

LEMMA ScheduleFailsKeeps ==
  ASSUME SwitchInv, ScheduleFails
  PROVE  SwitchInv' /\ PhaseFollows
<1>1. lock # None /\ lock.by \in {"api", "worker"} /\ Active
  BY DEF ScheduleFails, SwitchInv, SwitchTypes, LockFollows, Holder
<1>2. UNCHANGED <<addr, gate, eligible, sync, provider, observed, claim>>
  BY DEF ScheduleFails, NoEnvChange, envVars
<1>3. CASE pref.phase = "Switching"
  BY <1>1, <1>2, <1>3, RollbackKeeps DEF ScheduleFails
<1>4. CASE pref.phase # "Switching"
  BY <1>1, <1>2, <1>4, FallingKeeps DEF ScheduleFails
<1>5. QED
  BY <1>3, <1>4

\* The worker commits what is applied, or begins to roll back.
LEMMA CommitKeeps ==
  ASSUME SwitchInv, pref.phase = "Switching", ~Unsafe, \A r \in JournalRules : Applied(r),
         Stored(Committed, "worker"),
         UNCHANGED <<addr, gate, eligible, sync, provider, observed, claim>>
  PROVE  SwitchInv' /\ PhaseFollows
<1>1. pref \in Preference
  BY DEF SwitchInv, SwitchTypes
<1>2. pref.source = "ModeTransition" => pref.pendingMode \in Modes
  BY <1>1 DEF SwitchInv, SourceStaysAuthorized, Active, Preference
<1>3. /\ Committed \in Preference /\ Committed.phase = "Idle"
      /\ Committed.preferred = pref.pending
  BY <1>1, <1>2, ClearedIsIdle DEF Committed, Preference
<1>4. pref' = Committed /\ lock' = None
  BY <1>3 DEF Stored
<1>5. SwitchTypes'
  BY <1>3, <1>4 DEF SwitchInv, SwitchTypes
<1>6. SourceStaysAuthorized' /\ UninstallExcluded' /\ LockFollows'
  BY <1>3, <1>4 DEF SourceStaysAuthorized, UninstallExcluded, LockFollows, Active
<1>7. PhaseFollows
  BY <1>3, <1>4 DEF PhaseFollows, Unsafe
<1>8. QED
  BY <1>5, <1>6, <1>7 DEF SwitchInv

LEMMA RolledBackKeeps ==
  ASSUME SwitchInv, pref.phase = "RollingBack", \A r \in JournalRules : Applied(r),
         worker.stage # "execute",
         Stored([pref EXCEPT !.phase = "FailedRolledBack", !.pendingMode =
                   IF pref.source = "ModeTransition" THEN None ELSE @], "worker"),
         UNCHANGED <<addr, gate, eligible, sync, provider, observed, claim>>
  PROVE  SwitchInv' /\ PhaseFollows
<1> DEFINE p == [pref EXCEPT !.phase = "FailedRolledBack", !.pendingMode =
                   IF pref.source = "ModeTransition" THEN None ELSE @]
<1>1. pref \in Preference
  BY DEF SwitchInv, SwitchTypes
<1>2. p \in Preference /\ p.phase = "FailedRolledBack" /\ p.journal = pref.journal
  BY <1>1 DEF Preference, Phases
<1> HIDE DEF p
<1>3. pref' = p /\ lock' = None
  BY <1>2 DEF Stored, p
<1>4. SwitchTypes'
  BY <1>2, <1>3 DEF SwitchInv, SwitchTypes
<1>5. SourceStaysAuthorized' /\ UninstallExcluded' /\ LockFollows'
  BY <1>2, <1>3 DEF SourceStaysAuthorized, UninstallExcluded, LockFollows, Active
<1>6. PhaseFollows
  BY <1>2, <1>3 DEF PhaseFollows
<1>7. QED
  BY <1>4, <1>5, <1>6 DEF SwitchInv

\* The preference stays; rules may leave the lock, and what surrounds it changes.
LEMMA PreferenceSame ==
  ASSUME SwitchInv, pref' = pref,
         addr' \in [Nodes -> Addrs \cup {None}], gate' \subseteq Nodes,
         Active => {pref.pending, pref.preferred} \cap gate' \subseteq gate,
         eligible' \subseteq Rules,
         sync' \in [Rules -> Sync \cup {None}], provider' \in [Rules -> Values],
         observed' \in Nodes \cup {None}, claim' \in Nodes \cup {None},
         lock' \in Holder \cup {None},
         lock' # None => lock # None /\ lock'.todo \subseteq lock.todo
  PROVE  SwitchInv' /\ PhaseFollows
<1>1. SwitchTypes'
  BY DEF SwitchInv, SwitchTypes
<1>2. SourceStaysAuthorized'
  BY DEF SwitchInv, SourceStaysAuthorized, Active
<1>3. UninstallExcluded'
  BY DEF SwitchInv, UninstallExcluded, Active
<1>4. LockFollows'
  BY DEF SwitchInv, LockFollows, Active, JournalRules
<1>5. PhaseFollows
  BY DEF PhaseFollows
<1>6. QED
  BY <1>1, <1>2, <1>3, <1>4, <1>5 DEF SwitchInv

LEMMA FinalizeKeeps ==
  ASSUME SwitchInv, Finalize
  PROVE  SwitchInv' /\ PhaseFollows
<1>1. UNCHANGED <<addr, gate, eligible, sync, provider, observed, claim>>
      /\ worker.stage # "execute"
  BY DEF Finalize, envVars
<1>2. ASSUME UNCHANGED prefVars PROVE SwitchInv' /\ PhaseFollows
  <2>1. SwitchTypes
    BY DEF SwitchInv
  <2>2. QED
    BY <1>1, <1>2, <2>1, PreferenceSame DEF prefVars, SwitchTypes
<1>3. CASE pref.phase = "Switching"
  <2>1. FinalizeSwitch
    BY <1>3 DEF Finalize
  <2>2. CASE BeginRollback("worker")
    BY <1>1, <1>3, <2>2, RollbackKeeps DEF Active
  <2>3. CASE ~Unsafe /\ (\A r \in JournalRules : Applied(r)) /\ Stored(Committed, "worker")
    BY <1>1, <1>3, <2>3, CommitKeeps
  <2>4. QED
    BY <1>2, <2>1, <2>2, <2>3 DEF FinalizeSwitch
<1>4. CASE pref.phase = "RollingBack"
  <2>1. FinalizeRollback
    BY <1>4 DEF Finalize
  <2>2. CASE Stored([pref EXCEPT !.phase = "Manual"], "worker")
    BY <1>1, <1>4, <2>2, FallingKeeps DEF Active
  <2>3. CASE /\ \A r \in JournalRules : Applied(r)
             /\ Stored([pref EXCEPT !.phase = "FailedRolledBack", !.pendingMode =
                  IF pref.source = "ModeTransition" THEN None ELSE @], "worker")
    BY <1>1, <1>4, <2>3, RolledBackKeeps
  <2>4. QED
    BY <1>2, <2>1, <2>2, <2>3 DEF FinalizeRollback
<1>5. CASE pref.phase \notin {"Switching", "RollingBack"}
  BY <1>2, <1>5 DEF Finalize
<1>6. QED
  BY <1>3, <1>4, <1>5

-----------------------------------------------------------------------------
(* Nodes leave, and the operator's other changes.                          *)

LEMMA WithoutKeeps ==
  ASSUME NEW p \in Preference, NEW n \in Nodes
  PROVE  /\ Without(p, n) \in Preference
         /\ Without(p, n).phase = p.phase /\ Without(p, n).mode = p.mode
         /\ Without(p, n).pendingMode = p.pendingMode
         /\ Without(p, n).source = p.source /\ Without(p, n).journal = p.journal
         /\ Without(p, n).preferred \in {p.preferred, None}
         /\ Without(p, n).pending \in {p.pending, None}
         /\ n \notin {p.preferred, p.pending} =>
              /\ Without(p, n).preferred = p.preferred
              /\ Without(p, n).pending = p.pending
<1> DEFINE a == IF p.preferred = n THEN None ELSE p.preferred
           b == IF p.normal = n THEN None ELSE p.normal
           c == IF p.pending = n THEN None ELSE p.pending
<1>1. {a, b, c} \subseteq Nodes \cup {None}
  BY DEF Preference
<1>2. Without(p, n) = [p EXCEPT !.preferred = a, !.normal = b, !.pending = c]
  BY DEF Without
<1>3. a \in {p.preferred, None} /\ c \in {p.pending, None}
      /\ (n \notin {p.preferred, p.pending} => a = p.preferred /\ c = p.pending)
  OBVIOUS
<1> HIDE DEF a, b, c
<1>4. /\ Without(p, n) \in Preference
      /\ Without(p, n).phase = p.phase /\ Without(p, n).mode = p.mode
      /\ Without(p, n).pendingMode = p.pendingMode
      /\ Without(p, n).source = p.source /\ Without(p, n).journal = p.journal
      /\ Without(p, n).preferred = a /\ Without(p, n).pending = c
  BY <1>1, <1>2 DEF Preference
<1>5. QED
  BY <1>3, <1>4

LEMMA RemoveAssignmentKeeps ==
  ASSUME SwitchInv, NEW n \in Nodes, RemoveAssignment(n)
  PROVE  SwitchInv' /\ PhaseFollows
<1>1. /\ pref \in Preference /\ lock = None /\ lock' = None
      /\ addr' \in [Nodes -> Addrs \cup {None}]
      /\ UNCHANGED <<gate, eligible, sync, provider, observed, claim>>
  BY DEF SwitchInv, SwitchTypes, RemoveAssignment
<1>2. /\ pref' \in Preference /\ pref'.phase = pref.phase /\ pref'.mode = pref.mode
      /\ pref'.pendingMode = pref.pendingMode /\ pref'.source = pref.source
      /\ pref'.journal = pref.journal
      /\ Active => pref'.preferred = pref.preferred /\ pref'.pending = pref.pending
  <2>1. CASE References(n)
    BY <1>1, <2>1 DEF RemoveAssignment
  <2>2. CASE ~References(n)
    <3>1. pref' = Without(pref, n) /\ (Active => n \notin {pref.preferred, pref.pending})
      BY <2>2 DEF RemoveAssignment, References
    <3>2. QED
      BY <1>1, <3>1, WithoutKeeps
  <2>3. QED
    BY <2>1, <2>2
<1>3. SwitchTypes'
  BY <1>1, <1>2 DEF SwitchInv, SwitchTypes
<1>4. SourceStaysAuthorized' /\ UninstallExcluded' /\ LockFollows'
  BY <1>1, <1>2 DEF SwitchInv, SourceStaysAuthorized, UninstallExcluded, LockFollows,
                    Active, JournalRules
<1>5. PhaseFollows
  BY <1>2 DEF PhaseFollows
<1>6. QED
  BY <1>3, <1>4, <1>5 DEF SwitchInv

LEMMA RetireKeeps ==
  ASSUME SwitchInv, NEW n \in Nodes, Retire(n)
  PROVE  SwitchInv' /\ PhaseFollows
<1>1. /\ pref \in Preference /\ lock = None /\ lock' = None
      /\ addr' \in [Nodes -> Addrs \cup {None}]
      /\ UNCHANGED <<gate, eligible, sync, provider, observed, claim>>
  BY DEF SwitchInv, SwitchTypes, Retire
<1>2. CASE References(n)
  <2> DEFINE p == [pref EXCEPT !.phase = "Manual", !.pending = None,
                               !.pendingMode = None, !.source = None]
  <2>1. p \in Preference /\ p.phase = "Manual"
    BY <1>1 DEF Preference, Phases
  <2>2. pref' = Without(p, n)
    BY <1>2 DEF Retire
  <2> HIDE DEF p
  <2>3. pref' \in Preference /\ pref'.phase = "Manual"
    BY <1>1, <2>1, <2>2, WithoutKeeps
  <2>4. SwitchTypes'
    BY <1>1, <2>3 DEF SwitchInv, SwitchTypes
  <2>5. QED
    BY <1>1, <1>2, <2>3, <2>4
       DEF SwitchInv, SourceStaysAuthorized, UninstallExcluded, LockFollows, Active,
           PhaseFollows
<1>3. CASE ~References(n)
  <2>1. pref' = Without(pref, n) /\ (Active => n \notin {pref.preferred, pref.pending})
    BY <1>3 DEF Retire, References
  <2>2. /\ pref' \in Preference /\ pref'.phase = pref.phase /\ pref'.mode = pref.mode
        /\ pref'.pendingMode = pref.pendingMode /\ pref'.source = pref.source
        /\ pref'.journal = pref.journal
        /\ Active => pref'.preferred = pref.preferred /\ pref'.pending = pref.pending
    BY <1>1, <2>1, WithoutKeeps
  <2>3. SwitchTypes'
    BY <1>1, <2>2 DEF SwitchInv, SwitchTypes
  <2>4. SourceStaysAuthorized' /\ UninstallExcluded' /\ LockFollows'
    BY <1>1, <2>2 DEF SwitchInv, SourceStaysAuthorized, UninstallExcluded, LockFollows,
                      Active, JournalRules
  <2>5. PhaseFollows
    BY <2>2 DEF PhaseFollows
  <2>6. QED
    BY <2>3, <2>4, <2>5 DEF SwitchInv
<1>4. QED
  BY <1>2, <1>3

LEMMA NodeChoiceKeeps ==
  ASSUME SwitchInv, NEW n \in Nodes, SetNormalDefault(n) \/ InitializePreference(n)
  PROVE  SwitchInv' /\ PhaseFollows
<1>1. /\ pref \in Preference /\ lock = None /\ lock' = None
      /\ pref.phase \in {"Idle", "FailedRolledBack"}
      /\ UNCHANGED <<addr, gate, eligible, sync, provider, observed, claim>>
  BY DEF SwitchInv, SwitchTypes, SetNormalDefault, InitializePreference, envVars
<1>2. pref' \in Preference /\ pref'.phase = pref.phase /\ pref'.journal = pref.journal
  BY <1>1 DEF SetNormalDefault, InitializePreference, Preference
<1>3. SwitchTypes'
  BY <1>1, <1>2 DEF SwitchInv, SwitchTypes
<1>4. QED
  BY <1>1, <1>2, <1>3
     DEF SwitchInv, SourceStaysAuthorized, UninstallExcluded, LockFollows, Active,
         PhaseFollows

-----------------------------------------------------------------------------
(* The rows: what derivations, schedulers and switches of DNSMgr store.    *)

\* Rows that are as they were, or armed again or taken off with no attempt spent.
Rearms(rows) ==
  /\ rows \in [Rules -> Sync \cup {None}]
  /\ \A r \in Rules :
       \/ rows[r] = sync[r]
       \/ /\ rows[r] \in Sync /\ rows[r].attempts = 0
          /\ rows[r].state \in {"PENDING", "NOT_ELIGIBLE", "DISABLED"}

LEMMA MarkRearms ==
  ASSUME NEW row \in Sync, NEW s \in {"PENDING", "NOT_ELIGIBLE", "DISABLED"}
  PROVE  Mark(row, s) \in Sync /\ Mark(row, s).attempts = 0 /\ Mark(row, s).state = s
<1> DEFINE counts == 0 .. MaxAttempts
<1>1. Sync = [value : Values, state : SyncStates, attempts : counts]
  BY DEF Sync
<1>2. 0 \in counts /\ s \in SyncStates
  BY BoundAssumption DEF SyncStates
<1> HIDE DEF counts
<1>3. Mark(row, s) = [row EXCEPT !.state = s, !.attempts = 0]
  BY DEF Mark
<1>4. QED
  BY <1>1, <1>2, <1>3

LEMMA DesireRearms ==
  ASSUME NEW row \in Sync \cup {None}, NEW v \in Values, NEW forced \in BOOLEAN
  PROVE  LET new == Desire(row, v, forced) IN
         /\ new \in Sync
         /\ new = row \/ (new.attempts = 0 /\ new.state = "PENDING")
<1>1. Pending(v) \in Sync /\ Pending(v).attempts = 0 /\ Pending(v).state = "PENDING"
  BY BoundAssumption DEF Pending, Sync, SyncStates
<1>2. CASE row = None \/ row.value # v
  BY <1>1, <1>2 DEF Desire
<1>3. CASE ~(row = None \/ row.value # v)
  BY <1>3, MarkRearms DEF Desire
<1>4. QED
  BY <1>2, <1>3

LEMMA SetRowRearms ==
  ASSUME SwitchTypes, NEW r \in Rules, NEW row \in Sync,
         row = sync[r] \/ (row.attempts = 0
                           /\ row.state \in {"PENDING", "NOT_ELIGIBLE", "DISABLED"})
  PROVE  Rearms([sync EXCEPT ![r] = row])
BY DEF Rearms, SwitchTypes

LEMMA DeriveType ==
  ASSUME SwitchTypes, NEW r \in Rules
  PROVE  Derive(r) \in Resolution
<1>1. Selected \in Nodes \cup {None}
  BY DEF SwitchTypes, Selected, Preference
<1>2. Selected # None => addr[Selected] \in Addrs \cup {None}
  BY <1>1 DEF SwitchTypes
<1>3. QED
  BY <1>2, HostAssumption DEF Derive, Resolution

LEMMA PersistRearms ==
  ASSUME SwitchTypes, NEW r \in Rules, NEW result \in Resolution, NEW forced \in BOOLEAN
  PROVE  Rearms(Persist(r, result, forced))
<1>1. Rearms(sync) /\ sync[r] \in Sync \cup {None}
  BY DEF Rearms, SwitchTypes
<1>2. CASE result = "Frozen"
  BY <1>1, <1>2 DEF Persist
<1>3. CASE result = "NotEligible"
  <2>1. CASE sync[r] = None
    BY <1>1, <1>3, <2>1 DEF Persist
  <2>2. CASE sync[r] # None
    <3>1. Persist(r, result, forced) = [sync EXCEPT ![r] = Mark(sync[r], "NOT_ELIGIBLE")]
      BY <1>3, <2>2 DEF Persist
    <3>2. QED
      BY <1>1, <2>2, <3>1, MarkRearms, SetRowRearms
  <2>3. QED
    BY <2>1, <2>2
<1>4. CASE result \notin {"Frozen", "NotEligible"}
  <2>1. CASE r \in eligible /\ JournalAuthorizes(r, Absent)
    <3>1. Persist(r, result, forced) = [sync EXCEPT ![r] = Desire(sync[r], Absent, FALSE)]
      BY <1>4, <2>1 DEF Persist
    <3>2. Absent \in Values
      BY DEF Values
    <3>3. QED
      BY <1>1, <3>1, <3>2, DesireRearms, SetRowRearms
  <2>2. CASE ~(r \in eligible /\ JournalAuthorizes(r, Absent)) /\ result = "ConfigurationError"
    BY <1>1, <1>4, <2>2 DEF Persist
  <2>3. CASE ~(r \in eligible /\ JournalAuthorizes(r, Absent)) /\ result # "ConfigurationError"
    <3>1. Persist(r, result, forced) = [sync EXCEPT ![r] = Desire(sync[r], result, forced)]
      BY <1>4, <2>3 DEF Persist
    <3>2. result \in Values
      BY <1>4, <2>3 DEF Resolution, Values
    <3>3. QED
      BY <1>1, <3>1, <3>2, DesireRearms, SetRowRearms
  <2>4. QED
    BY <2>1, <2>2, <2>3
<1>5. QED
  BY <1>2, <1>3, <1>4

LEMMA ScheduledRearms ==
  ASSUME SwitchTypes, NEW r \in Rules, NEW result \in Resolution
  PROVE  Rearms(Scheduled(r, result))
<1> DEFINE stored == Persist(r, result, TRUE)
<1>1. Rearms(stored)
  BY PersistRearms
<1> HIDE DEF stored
<1>2. CASE ~dnsOn /\ stored[r] # None /\ result # "Frozen"
  <2>1. Scheduled(r, result) = [stored EXCEPT ![r] = Mark(stored[r], "DISABLED")]
    BY <1>2 DEF Scheduled, stored
  <2>2. stored[r] \in Sync
    BY <1>1, <1>2 DEF Rearms
  <2>3. /\ Mark(stored[r], "DISABLED") \in Sync
        /\ Mark(stored[r], "DISABLED").attempts = 0
        /\ Mark(stored[r], "DISABLED").state = "DISABLED"
    BY <2>2, MarkRearms
  <2>4. QED
    BY <1>1, <2>1, <2>3 DEF Rearms
<1>3. CASE ~(~dnsOn /\ stored[r] # None /\ result # "Frozen")
  BY <1>1, <1>3 DEF Scheduled, stored
<1>4. QED
  BY <1>2, <1>3

LEMMA DisabledRearms ==
  ASSUME SwitchTypes
  PROVE  Rearms(Disabled)
<1>1. CASE Frozen
  BY <1>1 DEF Disabled, Rearms, SwitchTypes
<1>2. CASE ~Frozen
  <2>1. Disabled = [r \in Rules |-> IF sync[r] = None THEN None
                                    ELSE Mark(sync[r], "DISABLED")]
    BY <1>2 DEF Disabled
  <2>2. \A r \in Rules : sync[r] # None =>
           /\ Mark(sync[r], "DISABLED") \in Sync
           /\ Mark(sync[r], "DISABLED").attempts = 0
           /\ Mark(sync[r], "DISABLED").state = "DISABLED"
    BY MarkRearms DEF SwitchTypes
  <2>3. QED
    BY <2>1, <2>2 DEF Rearms
<1>3. QED
  BY <1>1, <1>2

-----------------------------------------------------------------------------
(* The calls of the worker.                                                *)

Counted(r) ==
  sync[r] # None =>
    /\ sync[r].state = "SYNCING" =>
         r \in exec \/ (pref.phase = "Manual" /\ batch[r] = None)
    /\ sync[r].state = "PENDING" => sync[r].attempts = 0

RowInv ==
  /\ exec \subseteq Rules
  /\ exec # {} => worker.stage = "execute"
  /\ pref.phase = "FailedRolledBack" => exec = {}
  /\ \A r \in exec : sync[r] # None /\ sync[r].state # "PROPAGATED"
  /\ worker.stage # "execute" \/ pref.phase = "FailedRolledBack" =>
       \A r \in Rules : batch[r] = None
  /\ \A r \in Rules : Counted(r)
  /\ SyncHonest
  /\ RestoredWhileFrozen

\* Without an authorised row, a stopped group's records stand still.
Still == Frozen /\ Authorized = {} =>
           /\ provider' = provider
           /\ Frozen' => Authorized' = {}

\* A step that writes no record and takes no row; it may list rows.
LEMMA CallsSame ==
  ASSUME RowInv, UNCHANGED <<exec, provider>>, Rearms(sync'), PhaseFollows,
         sync' = sync \/ UNCHANGED pref,
         exec # {} => worker'.stage = "execute",
         \/ batch' = batch
         \/ UNCHANGED pref /\ exec = {} /\ (Frozen => \A r \in Rules : batch'[r] = None),
         worker'.stage # "execute" => \A r \in Rules : batch'[r] = None
  PROVE  RowInv' /\ Still
<1>1. ASSUME NEW r \in Rules
      PROVE  /\ Counted(r)'
             /\ sync'[r] # None /\ sync'[r].state = "PROPAGATED" => sync'[r] = sync[r]
             /\ r \in exec => sync'[r] # None /\ sync'[r].state # "PROPAGATED"
  <2>1. CASE sync'[r] = sync[r]
    BY <2>1 DEF RowInv, Counted, PhaseFollows, Frozen
  <2>2. CASE /\ sync'[r] \in Sync /\ sync'[r].attempts = 0
             /\ sync'[r].state \in {"PENDING", "NOT_ELIGIBLE", "DISABLED"}
    BY <2>2 DEF Counted
  <2>3. QED
    BY <2>1, <2>2 DEF Rearms
<1>2. SyncHonest'
  BY <1>1 DEF RowInv, SyncHonest
<1>3. pref'.phase = "FailedRolledBack" =>
        exec = {} /\ \A r \in JournalRules' : provider[r] = pref'.journal[r].rollback
  <2> SUFFICES ASSUME pref'.phase = "FailedRolledBack"
               PROVE  exec = {} /\ \A r \in JournalRules' :
                                     provider[r] = pref'.journal[r].rollback
    OBVIOUS
  <2>1. pref'.journal = pref.journal /\ JournalRules' = JournalRules
    BY DEF PhaseFollows, JournalRules
  <2>2. CASE pref.phase = "FailedRolledBack"
    BY <2>1, <2>2 DEF RowInv, RestoredWhileFrozen
  <2>3. CASE /\ pref.phase = "RollingBack" /\ worker.stage # "execute"
             /\ \A r \in JournalRules : Applied(r)
    BY <2>1, <2>3 DEF RowInv, SyncHonest, Applied, Matches, JournalValue, JournalRules
  <2>4. QED
    BY <2>2, <2>3 DEF PhaseFollows
<1>4. pref'.phase = "FailedRolledBack" => \A r \in Rules : batch'[r] = None
  BY DEF PhaseFollows, RowInv, Frozen
<1>5. RowInv'
  BY <1>1, <1>2, <1>3, <1>4 DEF RowInv, RestoredWhileFrozen
<1>6. Authorized = {} => Authorized' = {}
  BY DEF Authorized
<1>7. QED
  BY <1>5, <1>6 DEF Still

LEMMA NoRowChange == SwitchTypes /\ UNCHANGED sync => Rearms(sync')
BY DEF Rearms, SwitchTypes

LEMMA FrozenMayNotWrite ==
  ASSUME NEW r \in Rules, NEW v \in Values, Frozen
  PROVE  ~MayWrite(r, v)
<1>1. ~Active /\ Derive(r) = "Frozen" /\ "Frozen" \notin Addrs
  BY ResolutionAssumption DEF Frozen, Active, Derive
<1>2. QED
  BY <1>1 DEF MayWrite, JournalAuthorizes

LEMMA TakenRow ==
  ASSUME SwitchTypes, RowInv, NEW r \in Rules, r \notin exec, batch[r] # None, Due(sync[r])
  PROVE  /\ Taken(sync[r]) \in Sync /\ Taken(sync[r]).state = "SYNCING"
         /\ Taken(sync[r]).value = sync[r].value
<1>1. sync[r] \in Sync /\ sync[r].state # "SYNCING"
  BY DEF SwitchTypes, RowInv, Counted, Due
<1>2. sync[r].attempts \in 0 .. MaxAttempts /\ sync[r].attempts < MaxAttempts
  BY <1>1, BoundAssumption DEF RowInv, Counted, Due, Sync
<1> DEFINE counts == 0 .. MaxAttempts
           next == sync[r].attempts + 1
<1>3. next \in counts
  BY <1>2, BoundAssumption
<1>4. Sync = [value : Values, state : SyncStates, attempts : counts]
  BY DEF Sync
<1>5. Taken(sync[r]) = [sync[r] EXCEPT !.state = "SYNCING", !.attempts = next]
  BY DEF Taken
<1>6. "SYNCING" \in SyncStates
  BY DEF SyncStates
<1> HIDE DEF counts, next
<1>7. QED
  BY <1>1, <1>3, <1>4, <1>5, <1>6

\* A row is taken as it was listed, or passed over.
LEMMA TakeKeeps ==
  ASSUME SwitchTypes, RowInv, batch \in [Rules -> Values \cup {None}],
         NEW r \in Rules, Take(r)
  PROVE  /\ RowInv' /\ sync' \in [Rules -> Sync \cup {None}]
         /\ batch' \in [Rules -> Values \cup {None}] /\ Still
<1>1. /\ worker.stage = "execute" /\ worker' = worker /\ provider' = provider
      /\ pref' = pref /\ r \notin exec /\ batch[r] # None
      /\ pref.phase # "FailedRolledBack"
  BY DEF Take, NoPrefChange, prefVars, RowInv
<1>2. CASE /\ batch' = [batch EXCEPT ![r] = None] /\ UNCHANGED <<sync, exec>>
  <2>1. Authorized' = Authorized
    BY <1>1, <1>2 DEF Authorized, RowInv
  <2>2. \A q \in Rules : Counted(q)'
    BY <1>1, <1>2 DEF RowInv, Counted
  <2>3. QED
    BY <1>1, <1>2, <2>1, <2>2
       DEF RowInv, SwitchTypes, SyncHonest, RestoredWhileFrozen, Still
<1>3. CASE /\ Due(sync[r]) /\ sync' = [sync EXCEPT ![r] = Taken(sync[r])]
           /\ exec' = exec \cup {r} /\ UNCHANGED batch
  <2> DEFINE row == Taken(sync[r])
  <2>1. row \in Sync /\ row.state = "SYNCING"
    BY <1>1, <1>3, TakenRow
  <2> HIDE DEF row
  <2>2. /\ sync' \in [Rules -> Sync \cup {None}] /\ sync'[r] = row
        /\ \A q \in Rules \ {r} : sync'[q] = sync[q]
    BY <1>3, <2>1 DEF SwitchTypes, row
  <2>3. /\ exec' \subseteq Rules
        /\ \A q \in exec' : sync'[q] # None /\ sync'[q].state # "PROPAGATED"
    BY <1>3, <2>1, <2>2, NoneAssumption DEF RowInv
  <2>4. ASSUME NEW q \in Rules PROVE Counted(q)'
    <3>1. Counted(q)
      BY DEF RowInv
    <3>2. CASE q = r
      BY <1>3, <2>1, <2>2, <3>2 DEF Counted
    <3>3. CASE q # r
      BY <1>1, <1>3, <2>2, <3>1, <3>3 DEF Counted
    <3>4. QED
      BY <3>2, <3>3
  <2>5. SyncHonest'
    BY <1>1, <2>1, <2>2 DEF RowInv, SyncHonest
  <2>6. Authorized' = Authorized
    BY <1>1, <1>3 DEF Authorized
  <2>7. QED
    BY <1>1, <1>3, <2>2, <2>3, <2>4, <2>5, <2>6 DEF RowInv, RestoredWhileFrozen, Still
<1>4. QED
  BY <1>2, <1>3 DEF Take

\* A write is authorised only where the group is not stopped.
LEMMA AuthorizeKeeps ==
  ASSUME RowInv, batch \in [Rules -> Values \cup {None}], NEW r \in Rules, Authorize(r)
  PROVE  RowInv' /\ batch' \in [Rules -> Values \cup {None}] /\ Still
<1>1. /\ UNCHANGED <<worker, exec, sync, provider, pref>> /\ r \in exec
      /\ batch' = [batch EXCEPT ![r] = None] /\ batch[r] \in Values /\ MayWrite(r, batch[r])
  BY DEF Authorize, NoPrefChange, prefVars
<1>2. ~Frozen
  BY <1>1, FrozenMayNotWrite
<1>3. \A q \in Rules : Counted(q)'
  BY <1>1 DEF RowInv, Counted
<1>4. QED
  BY <1>1, <1>2, <1>3
     DEF RowInv, SyncHonest, RestoredWhileFrozen, JournalRules, Still

\* A write concerns a row in execution, which claims nothing of the provider.
LEMMA WriteKeeps ==
  ASSUME SwitchTypes, RowInv, NEW r \in Rules, Write(r)
  PROVE  RowInv' /\ provider' \in [Rules -> Values] /\ Still
<1>1. /\ UNCHANGED <<worker, batch, exec, sync, pref>> /\ r \in exec
      /\ r \in Authorized /\ provider' = [provider EXCEPT ![r] = sync[r].value]
  BY DEF Write, NoPrefChange, prefVars, Authorized
<1>2. sync[r] \in Sync /\ sync[r].state # "PROPAGATED" /\ pref.phase # "FailedRolledBack"
  BY <1>1 DEF RowInv, SwitchTypes
<1>3. provider' \in [Rules -> Values] /\ \A q \in Rules \ {r} : provider'[q] = provider[q]
  BY <1>1, <1>2 DEF SwitchTypes, Sync
<1>4. SyncHonest'
  BY <1>1, <1>2, <1>3 DEF RowInv, SyncHonest
<1>5. \A q \in Rules : Counted(q)'
  BY <1>1 DEF RowInv, Counted
<1>6. QED
  BY <1>1, <1>2, <1>3, <1>4, <1>5 DEF RowInv, RestoredWhileFrozen, Still

LEMMA ReconcileKeeps ==
  ASSUME SwitchTypes, RowInv, batch \in [Rules -> Values \cup {None}],
         NEW r \in Rules, Reconcile(r)
  PROVE  /\ RowInv' /\ sync' \in [Rules -> Sync \cup {None}]
         /\ batch' \in [Rules -> Values \cup {None}] /\ Still
<1>1. /\ worker' = worker /\ pref' = pref /\ r \in exec /\ exec' = exec \ {r}
      /\ provider' = provider /\ batch' = [batch EXCEPT ![r] = None]
  BY DEF Reconcile, NoPrefChange, prefVars
<1>2. sync[r] \in Sync /\ sync[r].state # "PROPAGATED" /\ pref.phase # "FailedRolledBack"
  BY <1>1 DEF RowInv, SwitchTypes
<1>3. PICK s \in {"PROPAGATED", "FAILED", "REFUSED"} :
        Save(r, s) /\ (s = "PROPAGATED" => provider[r] = sync[r].value)
  BY DEF Reconcile
<1>5. /\ sync' \in [Rules -> Sync \cup {None}]
      /\ \A q \in Rules \ {r} : sync'[q] = sync[q]
      /\ sync'[r] # None /\ sync'[r].state # "SYNCING"
      /\ sync'[r].state = "PENDING" => sync'[r].attempts = 0
      /\ sync'[r].state = "PROPAGATED" => provider[r] = sync'[r].value
  <2>1. CASE sync[r].state # "SYNCING"
    <3>1. sync' = sync
      BY <1>3, <2>1 DEF Save
    <3>2. QED
      BY <1>2, <2>1, <3>1 DEF SwitchTypes, RowInv, Counted
  <2>2. CASE sync[r].state = "SYNCING"
    <3> DEFINE counts == 0 .. MaxAttempts
               left == IF s = "PROPAGATED" THEN 0 ELSE sync[r].attempts
               row == [sync[r] EXCEPT !.state = s, !.attempts = left]
    <3>1. sync' = [sync EXCEPT ![r].state = s,
                               ![r].attempts = IF s = "PROPAGATED" THEN 0 ELSE @]
      BY <1>3, <2>2 DEF Save
    <3>2. Sync = [value : Values, state : SyncStates, attempts : counts]
      BY DEF Sync
    <3>3. left \in counts /\ s \in SyncStates
      BY <1>2, BoundAssumption DEF Sync, SyncStates
    <3>4. sync' = [sync EXCEPT ![r] = row]
      BY <3>1, <1>2 DEF SwitchTypes
    <3> HIDE DEF counts, left
    <3>5. row \in Sync /\ row.state = s /\ row.value = sync[r].value
      BY <1>2, <3>2, <3>3
    <3> HIDE DEF row
    <3>6. /\ sync' \in [Rules -> Sync \cup {None}] /\ sync'[r] = row
          /\ \A q \in Rules \ {r} : sync'[q] = sync[q]
      BY <3>4, <3>5 DEF SwitchTypes
    <3>7. QED
      BY <1>3, <3>5, <3>6
  <2>3. QED
    BY <2>1, <2>2
<1>6. \A q \in exec' : sync'[q] # None /\ sync'[q].state # "PROPAGATED"
  BY <1>1, <1>5 DEF RowInv
<1>7. \A q \in Rules : Counted(q)'
  BY <1>1, <1>5 DEF RowInv, Counted
<1>8. SyncHonest'
  BY <1>1, <1>5 DEF RowInv, SyncHonest
<1>9. RestoredWhileFrozen'
  BY <1>1, <1>2 DEF RestoredWhileFrozen
<1>10. Authorized' \subseteq Authorized
  BY <1>1 DEF Authorized, RowInv
<1>11. batch' \in [Rules -> Values \cup {None}] /\ \A q \in Rules : batch'[q] \in {batch[q], None}
  BY <1>1
<1>12. QED
  BY <1>1, <1>2, <1>5, <1>6, <1>7, <1>8, <1>9, <1>10, <1>11 DEF RowInv, Still

LEMMA ResumedRow ==
  ASSUME NEW row \in Sync
  PROVE  /\ Resumed(row) \in Sync
         /\ \/ Resumed(row) = row /\ row.state \notin {"PENDING", "SYNCING", "FAILED"}
            \/ Resumed(row).state = "PENDING" /\ Resumed(row).attempts = 0
<1>1. CASE row.state \in {"PENDING", "SYNCING", "FAILED"}
  BY <1>1, MarkRearms DEF Resumed
<1>2. CASE row.state \notin {"PENDING", "SYNCING", "FAILED"}
  BY <1>2 DEF Resumed
<1>3. QED
  BY <1>1, <1>2

LEMMA CrashKeeps ==
  ASSUME SwitchTypes, RowInv, Crash
  PROVE  /\ RowInv' /\ sync' \in [Rules -> Sync \cup {None}] /\ Still
<1>1. /\ pref' = pref /\ exec' = {} /\ provider' = provider
      /\ \A r \in Rules : batch'[r] = None
  BY DEF Crash
<1>6. sync' \in [Rules -> Sync \cup {None}]
      /\ \A r \in Rules : sync'[r] # None =>
           \/ /\ sync'[r] = sync[r]
              /\ sync[r].state = "SYNCING" => pref.phase = "Manual"
           \/ sync'[r].state = "PENDING" /\ sync'[r].attempts = 0
  <2>1. CASE Frozen
    <3>1. sync' = sync
      BY <2>1 DEF Crash
    <3>2. QED
      BY <2>1, <3>1 DEF SwitchTypes, RowInv, Counted, Frozen
  <2>2. CASE ~Frozen
    <3>1. sync' = [r \in Rules |-> Resumed(sync[r])]
      BY <2>2 DEF Crash
    <3>2. Resumed(None) = None
      BY DEF Resumed
    <3>3. QED
      BY <3>1, <3>2, ResumedRow DEF SwitchTypes
  <2>3. QED
    BY <2>1, <2>2
<1>7. \A r \in Rules : Counted(r)'
  BY <1>1, <1>6 DEF RowInv, Counted
<1>8. SyncHonest'
  BY <1>1, <1>6 DEF RowInv, SyncHonest
<1>9. RestoredWhileFrozen'
  BY <1>1 DEF RowInv, RestoredWhileFrozen, JournalRules
<1>10. Authorized' = {}
  BY <1>1 DEF Authorized
<1>11. QED
  BY <1>1, <1>6, <1>7, <1>8, <1>9, <1>10 DEF RowInv, Still

-----------------------------------------------------------------------------
(* The invariant.                                                          *)

WorkerState == [stage : {"guard", "prepare", "refresh", "execute", "settle"},
                todo : SUBSET Rules, derived : Derivation \cup {None}]

HandTypes ==
  /\ dnsOn \in BOOLEAN /\ api \in Handler /\ worker \in WorkerState
  /\ batch \in [Rules -> Values \cup {None}]
  /\ starts \in 0 .. MaxStarts /\ edits \in 0 .. MaxEdits

IInv == SwitchInv /\ RowInv /\ HandTypes

\* What every step keeps, and that a stopped group stands still.
Kept == IInv' /\ PhaseFollows /\ Still

LEMMA TypesOfIInv == IInv => TypeOK
BY DEF IInv, SwitchInv, SwitchTypes, RowInv, HandTypes, WorkerState, TypeOK

LEMMA InitIInv == Init => IInv
<1> SUFFICES ASSUME Init PROVE IInv
  OBVIOUS
<1>1. PICK mode \in Modes, n \in Nodes, m \in Nodes, el \in SUBSET Rules,
           fresh \in SUBSET Rules, on \in BOOLEAN : Running(mode, n, m, el, fresh, on)
  BY DEF Init
<1>2. addr \in [Nodes -> Addrs] /\ addr[n] \in Addrs
  BY DEF Init
<1> DEFINE row(st) == [value |-> addr[n], attempts |-> 0, state |-> st]
           journal == [r \in Rules |-> None]
<1>3. \A st \in {"PROPAGATED", "DISABLED"} : row(st) \in Sync
  BY <1>2, BoundAssumption DEF Sync, SyncStates, Values
<1>4. sync = [r \in Rules |-> IF r \in fresh THEN None
               ELSE row(IF on THEN "PROPAGATED" ELSE "DISABLED")]
  BY <1>1 DEF Running
<1>5. \A r \in Rules : sync[r] # None =>
        /\ sync[r].state \in {"PROPAGATED", "DISABLED"}
        /\ sync[r].value = addr[n] /\ provider[r] = addr[n]
  BY <1>1, <1>4 DEF Running
<1>6. sync \in [Rules -> Sync \cup {None}]
  <2> HIDE DEF row
  <2>1. QED
    BY <1>3, <1>4
<1>7. provider \in [Rules -> Values]
  BY <1>1, <1>2 DEF Running, Values
<1>8. pref = [phase |-> "Idle", mode |-> mode, preferred |-> n, normal |-> m,
              pending |-> None, pendingMode |-> None, source |-> None,
              journal |-> journal]
  BY <1>1 DEF Running
<1>9. journal \in [Rules -> Entry \cup {None}]
  OBVIOUS
<1> HIDE DEF journal
<1>10. pref \in Preference /\ pref.phase = "Idle"
  BY <1>8, <1>9 DEF Preference, Phases
<1>11. /\ gate = {} /\ eligible = el /\ dnsOn = on /\ lock = None
       /\ observed = None /\ claim = None /\ exec = {}
       /\ \A r \in Rules : batch[r] = None
  BY <1>1 DEF Running
<1>12. SwitchTypes
  BY <1>2, <1>6, <1>7, <1>10, <1>11 DEF SwitchTypes
<1>13. SwitchInv
  BY <1>10, <1>11, <1>12
     DEF SwitchInv, SourceStaysAuthorized, UninstallExcluded, LockFollows, Active
<1>14. RowInv
  BY <1>5, <1>10, <1>11 DEF RowInv, Counted, SyncHonest, RestoredWhileFrozen
<1>15. HandTypes
  BY <1>1, <1>11, BoundAssumption DEF HandTypes, Running, Handler, WorkerState
<1>16. QED
  BY <1>13, <1>14, <1>15 DEF IInv

\* Steps that leave rows, calls and the worker's stage alone.
LEMMA RowsSame ==
  ASSUME IInv, PhaseFollows, UNCHANGED <<sync, exec, provider, batch>>,
         worker'.stage = worker.stage \/ "execute" \notin {worker.stage, worker'.stage}
  PROVE  RowInv' /\ Still
<1>1. Rearms(sync')
  BY NoRowChange DEF IInv, SwitchInv
<1>2. QED
  BY <1>1, CallsSame DEF IInv, RowInv

LEMMA SwitchesKeep ==
  ASSUME IInv, Switches
  PROVE  Kept
<1>1. SwitchInv /\ observed \in Nodes \cup {None} /\ claim \in Nodes \cup {None}
  BY DEF IInv, SwitchInv, SwitchTypes
<1>2. SwitchInv' /\ PhaseFollows
  <2>1. CASE \E n \in Nodes : ManualStart(n)
    BY <1>1, <2>1, StartKeeps DEF ManualStart
  <2>2. CASE \E n \in Nodes : StartIfCurrent(n)
    BY <1>1, <2>2, StartKeeps DEF StartIfCurrent
  <2>3. CASE \E n \in Nodes : ClaimSchedule(n)
    BY <1>1, <2>3, PreferenceSame
       DEF ClaimSchedule, NoEnvChange, prefVars, envVars, SwitchInv, SwitchTypes
  <2>4. CASE \E m \in Modes : TransitionMode(m)
    BY <1>1, <2>4, TransitionKeeps
  <2>5. CASE ObserveFailing
    <3>1. observed' \in Nodes
      BY <2>5 DEF ObserveFailing, IInv, SwitchInv, SwitchTypes, Preference
    <3>2. QED
      BY <1>1, <2>5, <3>1, PreferenceSame
         DEF ObserveFailing, NoEnvChange, prefVars, envVars, SwitchInv, SwitchTypes
  <2>6. CASE ObservationDropped
    BY <1>1, <2>6, PreferenceSame
       DEF ObservationDropped, NoEnvChange, prefVars, envVars, SwitchInv, SwitchTypes
  <2>7. CASE ScheduledStart
    <3>1. CASE Start(claim, "Schedule")
      BY <1>1, <2>7, <3>1, StartKeeps DEF ScheduledStart
    <3>2. CASE UNCHANGED <<prefVars, sync>> /\ NoEnvChange
      BY <1>1, <2>7, <3>2, PreferenceSame
         DEF ScheduledStart, NoEnvChange, prefVars, envVars, SwitchInv, SwitchTypes
    <3>3. QED
      BY <2>7, <3>1, <3>2 DEF ScheduledStart
  <2>8. QED
    BY <2>1, <2>2, <2>3, <2>4, <2>5, <2>6, <2>7 DEF Switches
<1>3. UNCHANGED <<worker, batch, exec, api, dnsOn, provider, sync>>
  BY DEF Switches, ManualStart, StartIfCurrent, ClaimSchedule, TransitionMode,
         ObserveFailing, ObservationDropped, ScheduledStart, Start, NoEnvChange, envVars,
         workerVars
<1>4. starts' \in 0 .. MaxStarts /\ edits' \in 0 .. MaxEdits
  <2>1. \/ starts' = starts
        \/ starts < MaxStarts /\ starts' = starts + 1
    BY DEF Switches, ManualStart, StartIfCurrent, ClaimSchedule, TransitionMode,
           ObserveFailing, ObservationDropped, ScheduledStart, Start, Startable, prefVars
  <2>2. \/ edits' = edits
        \/ edits < MaxEdits /\ edits' = edits + 1
    BY DEF Switches, ManualStart, StartIfCurrent, ClaimSchedule, TransitionMode,
           ObserveFailing, ObservationDropped, ScheduledStart, Start, NoEnvChange, envVars,
           Edit
  <2>3. QED
    BY <2>1, <2>2, BoundAssumption DEF IInv, HandTypes
<1>5. HandTypes'
  BY <1>3, <1>4 DEF IInv, HandTypes
<1>6. RowInv' /\ Still
  BY <1>2, <1>3, RowsSame
<1>7. QED
  BY <1>2, <1>5, <1>6 DEF Kept, IInv

\* A step that stores rows, and may shorten the list of the holder of the lock.
LEMMA RowsArmed ==
  ASSUME IInv, Rearms(sync'), UNCHANGED <<pref, addr, gate, eligible, exec, provider>>,
         UNCHANGED <<observed, claim>>,
         lock' \in Holder \cup {None},
         lock' # None => lock # None /\ lock'.todo \subseteq lock.todo,
         exec # {} => worker'.stage = worker.stage,
         \/ batch' = batch
         \/ exec = {} /\ (Frozen => \A r \in Rules : batch'[r] = None),
         worker'.stage # "execute" => \A r \in Rules : batch'[r] = None,
         HandTypes'
  PROVE  Kept
<1>1. SwitchInv /\ RowInv /\ SwitchTypes
  BY DEF IInv, SwitchInv
<1>2. sync' \in [Rules -> Sync \cup {None}]
  BY DEF Rearms
<1>3. SwitchInv' /\ PhaseFollows
  BY <1>1, <1>2, PreferenceSame DEF SwitchTypes
<1>4. RowInv' /\ Still
  BY <1>1, <1>3, CallsSame DEF RowInv
<1>5. QED
  BY <1>3, <1>4 DEF Kept, IInv

LEMMA ScheduleRuleKeeps ==
  ASSUME IInv, NEW r \in Rules, ScheduleRule(r)
  PROVE  Kept
<1>1. SwitchInv /\ SwitchTypes /\ LockFollows /\ lock \in Holder /\ r \in lock.todo
  BY DEF IInv, SwitchInv, SwitchTypes, ScheduleRule, IsNext
<1>2. UNCHANGED <<pref, starts, observed, claim>>
      /\ UNCHANGED <<envVars, workerVars, provider, api>>
  BY DEF ScheduleRule, NoEnvChange
<1>3. lock' \in Holder \cup {None}
      /\ (lock' # None => lock # None /\ lock'.todo \subseteq lock.todo)
  <2>1. lock' = IF lock.todo = {r} THEN None ELSE [lock EXCEPT !.todo = lock.todo \ {r}]
    BY DEF ScheduleRule
  <2>2. QED
    BY <1>1, <2>1 DEF Holder
<1>4. Rearms(sync')
  <2>1. CASE pref.source = "ModeTransition"
    <3>1. sync' = [sync EXCEPT ![r] = Desire(sync[r], JournalValue(r), TRUE)]
      BY <2>1 DEF ScheduleRule
    <3>2. JournalValue(r) \in Values
      BY <1>1 DEF SwitchTypes, LockFollows, Active, JournalRules, JournalValue, Preference,
                  Entry, Values
    <3>3. sync[r] \in Sync \cup {None}
      BY <1>1 DEF SwitchTypes
    <3>4. QED
      BY <1>1, <3>1, <3>2, <3>3, DesireRearms, SetRowRearms
  <2>2. CASE pref.source # "ModeTransition"
    <3>1. sync' = Scheduled(r, Derive(r)) \/ sync' = sync
      BY <2>2 DEF ScheduleRule
    <3>2. QED
      BY <1>1, <3>1, DeriveType, ScheduledRearms, NoRowChange
  <2>3. QED
    BY <2>1, <2>2
<1>5. HandTypes'
  BY <1>2 DEF IInv, HandTypes, envVars, workerVars
<1>6. worker'.stage # "execute" => \A q \in Rules : batch'[q] = None
  BY <1>2 DEF IInv, RowInv, workerVars
<1>7. QED
  BY <1>2, <1>3, <1>4, <1>5, <1>6, RowsArmed DEF envVars, workerVars

LEMMA LockedKeeps ==
  ASSUME IInv, Locked
  PROVE  Kept
<1>1. CASE ScheduleFails
  <2>1. SwitchInv' /\ PhaseFollows
    BY <1>1, ScheduleFailsKeeps DEF IInv
  <2>2. /\ UNCHANGED sync /\ UNCHANGED <<envVars, workerVars, provider, api>>
    BY <1>1 DEF ScheduleFails, NoEnvChange
  <2>3. UNCHANGED starts
    BY <1>1 DEF ScheduleFails, BeginRollback, Stored
  <2>4. RowInv' /\ Still
    BY <2>1, <2>2, RowsSame DEF workerVars
  <2>5. QED
    BY <2>1, <2>2, <2>3, <2>4 DEF Kept, IInv, HandTypes, envVars, workerVars
<1>2. CASE \E r \in Rules : ScheduleRule(r)
  BY <1>2, ScheduleRuleKeeps
<1>3. QED
  BY <1>1, <1>2 DEF Locked

LEMMA BatchStepKeeps ==
  ASSUME IInv, Prepare \/ RefreshPersist \/ List \/ BatchDone
               \/ \E r \in Rules : RefreshDerive(r)
  PROVE  Kept
<1>1. SwitchInv /\ SwitchTypes /\ worker \in WorkerState
  BY DEF IInv, SwitchInv, HandTypes
<1>2. UNCHANGED <<prefVars, envVars, api, observed, claim, exec, provider>>
  BY DEF Prepare, RefreshPersist, List, BatchDone, RefreshDerive, NoPrefChange
<1>3. Rearms(sync')
  <2>1. CASE Prepare
    BY <1>1, <2>1, NoRowChange, DisabledRearms DEF Prepare
  <2>2. CASE RefreshPersist
    <3>1. worker.derived \in Derivation
      BY <1>1, <2>2 DEF RefreshPersist, WorkerState
    <3>2. worker.derived.rule \in Rules /\ worker.derived.result \in Resolution
      BY <3>1 DEF Derivation
    <3>3. QED
      BY <1>1, <2>2, <3>2, PersistRearms DEF RefreshPersist
  <2>3. CASE List \/ BatchDone \/ \E r \in Rules : RefreshDerive(r)
    BY <1>1, <2>3, NoRowChange DEF List, BatchDone, RefreshDerive
  <2>4. QED
    BY <2>1, <2>2, <2>3
<1>4. /\ worker' \in WorkerState /\ batch' \in [Rules -> Values \cup {None}]
      /\ exec # {} => worker'.stage = worker.stage
      /\ \/ batch' = batch
         \/ exec = {} /\ (Frozen => \A r \in Rules : batch'[r] = None)
      /\ worker'.stage # "execute" => \A r \in Rules : batch'[r] = None
  <2>1. /\ exec # {} => worker.stage = "execute"
        /\ worker.stage # "execute" => \A r \in Rules : batch[r] = None
        /\ batch \in [Rules -> Values \cup {None}]
    BY DEF IInv, RowInv, HandTypes
  <2>2. CASE Prepare
    BY <1>1, <2>1, <2>2 DEF Prepare, WorkerState
  <2>3. CASE RefreshPersist
    BY <1>1, <2>1, <2>3 DEF RefreshPersist, WorkerState
  <2>4. CASE List
    <3>1. /\ batch' \in [Rules -> Values \cup {None}]
          /\ Frozen => \A r \in Rules : batch'[r] = None
      BY <1>1, <2>4 DEF List, SwitchTypes, Due, Sync
    <3>2. /\ worker' \in WorkerState /\ worker.stage = "refresh"
          /\ worker'.stage = "execute"
      BY <1>1, <2>4 DEF List, WorkerState
    <3>3. QED
      BY <2>1, <3>1, <3>2
  <2>5. CASE BatchDone
    BY <1>1, <2>1, <2>5 DEF BatchDone, WorkerState
  <2>6. CASE \E r \in Rules : RefreshDerive(r)
    <3>1. PICK r \in Rules : RefreshDerive(r)
      BY <2>6
    <3> DEFINE d == [rule |-> r, result |-> Derive(r)]
    <3>2. d \in Derivation
      BY <1>1, DeriveType DEF Derivation
    <3>3. worker' = [worker EXCEPT !.todo = worker.todo \ {r}, !.derived = d]
          /\ batch' = batch
      BY <3>1 DEF RefreshDerive
    <3> HIDE DEF d
    <3>4. QED
      BY <1>1, <2>1, <3>2, <3>3 DEF WorkerState
  <2>7. QED
    BY <2>2, <2>3, <2>4, <2>5, <2>6
<1>5. HandTypes'
  BY <1>2, <1>4 DEF IInv, HandTypes, prefVars, envVars
<1>6. lock \in Holder \cup {None}
  BY <1>1 DEF SwitchTypes
<1>7. QED
  BY <1>2, <1>3, <1>4, <1>5, <1>6, RowsArmed DEF prefVars, envVars

LEMMA WorkerKeeps ==
  ASSUME IInv, Worker
  PROVE  Kept
<1>1. SwitchInv /\ SwitchTypes /\ RowInv /\ HandTypes /\ exec \subseteq Rules
  BY DEF IInv, SwitchInv, RowInv
<1>2. CASE Finalize
  <2>1. SwitchInv' /\ PhaseFollows
    BY <1>1, <1>2, FinalizeKeeps
  <2>2. UNCHANGED <<envVars, batch, exec, sync, provider, api>> /\ exec = {}
    BY <1>1, <1>2 DEF Finalize, RowInv
  <2>3. UNCHANGED starts
    BY <1>2 DEF Finalize, FinalizeSwitch, FinalizeRollback, BeginRollback, Stored, prefVars
  <2>4. worker' \in WorkerState /\ "execute" \notin {worker.stage, worker'.stage}
    BY <1>1, <1>2 DEF Finalize, HandTypes, WorkerState
  <2>5. RowInv' /\ Still
    BY <2>1, <2>2, <2>4, RowsSame
  <2>6. QED
    BY <1>1, <2>1, <2>2, <2>3, <2>4, <2>5 DEF Kept, IInv, HandTypes, envVars
<1>3. CASE Prepare \/ RefreshPersist \/ List \/ BatchDone
           \/ \E r \in Rules : RefreshDerive(r)
  BY <1>3, BatchStepKeeps
<1>4. ASSUME NEW r \in Rules, Take(r) \/ Authorize(r) \/ Write(r) \/ Reconcile(r)
      PROVE  Kept
  <2>1. UNCHANGED <<prefVars, envVars, api, observed, claim, worker>>
    BY <1>4 DEF Take, Authorize, Write, Reconcile, NoPrefChange
  <2>2. /\ RowInv' /\ Still /\ sync' \in [Rules -> Sync \cup {None}]
        /\ provider' \in [Rules -> Values] /\ batch' \in [Rules -> Values \cup {None}]
    <3>1. CASE Take(r)
      BY <1>1, <3>1, TakeKeeps DEF Take, HandTypes, SwitchTypes
    <3>2. CASE Authorize(r)
      BY <1>1, <3>2, AuthorizeKeeps DEF Authorize, HandTypes, SwitchTypes
    <3>3. CASE Write(r)
      BY <1>1, <3>3, WriteKeeps DEF Write, HandTypes, SwitchTypes
    <3>4. CASE Reconcile(r)
      BY <1>1, <3>4, ReconcileKeeps DEF Reconcile, HandTypes, SwitchTypes
    <3>5. QED
      BY <1>4, <3>1, <3>2, <3>3, <3>4
  <2>3. SwitchInv' /\ PhaseFollows
    BY <1>1, <2>1, <2>2, PreferenceSame DEF SwitchTypes, prefVars, envVars
  <2>4. HandTypes'
    BY <1>1, <2>1, <2>2 DEF HandTypes, prefVars, envVars
  <2>5. QED
    BY <2>2, <2>3, <2>4 DEF Kept, IInv
<1>5. QED
  BY <1>2, <1>3, <1>4 DEF Worker

LEMMA HandlersKeep ==
  ASSUME IInv, Handlers
  PROVE  Kept
<1>1. SwitchInv /\ SwitchTypes /\ HandTypes /\ api \in Handler
  BY DEF IInv, SwitchInv, HandTypes
<1>2. UNCHANGED <<prefVars, envVars, workerVars, provider, observed, claim>>
  BY DEF Handlers, ApiPersist, ApiDerive
<1>3. Rearms(sync')
  <2>1. CASE ApiPersist
    <3>1. api.derived \in Derivation
      BY <1>1, <2>1 DEF ApiPersist, Handler
    <3>2. api.derived.rule \in Rules /\ api.derived.result \in Resolution
      BY <3>1 DEF Derivation
    <3>3. QED
      BY <1>1, <2>1, <3>2, ScheduledRearms DEF ApiPersist
  <2>2. CASE \E r \in Rules : ApiDerive(r)
    BY <1>1, <2>2, NoRowChange DEF ApiDerive
  <2>3. QED
    BY <2>1, <2>2 DEF Handlers
<1>4. api' \in Handler
  <2>1. CASE ApiPersist
    BY <1>1, <2>1 DEF ApiPersist, Handler
  <2>2. CASE \E r \in Rules : ApiDerive(r)
    <3>1. PICK r \in Rules : ApiDerive(r)
      BY <2>2
    <3> DEFINE d == [rule |-> r, result |-> Derive(r)]
    <3>2. d \in Derivation
      BY <1>1, DeriveType DEF Derivation
    <3>3. api' = [todo |-> api.todo \ {r}, derived |-> d]
      BY <3>1 DEF ApiDerive
    <3> HIDE DEF d
    <3>4. QED
      BY <1>1, <3>2, <3>3 DEF Handler
  <2>3. QED
    BY <2>1, <2>2 DEF Handlers
<1>5. HandTypes'
  BY <1>1, <1>2, <1>4 DEF HandTypes, prefVars, envVars, workerVars
<1>6. lock \in Holder \cup {None}
  BY <1>1 DEF SwitchTypes
<1>7. worker'.stage # "execute" => \A r \in Rules : batch'[r] = None
  BY <1>2 DEF IInv, RowInv, workerVars
<1>8. QED
  BY <1>2, <1>3, <1>5, <1>6, <1>7, RowsArmed DEF prefVars, envVars, workerVars

LEMMA NodeActionsKeep ==
  ASSUME IInv, NEW n \in Nodes,
         \/ BeginUninstallGate(n) \/ RemoveAssignment(n) \/ ReleaseGate(n) \/ Retire(n)
         \/ InitializePreference(n) \/ SetNormalDefault(n)
         \/ \E a \in Addrs \cup {None} : Report(n, a)
  PROVE  Kept
<1>1. SwitchInv /\ SwitchTypes /\ HandTypes
  BY DEF IInv, SwitchInv
<1>2. UNCHANGED <<workerVars, sync, provider, api, starts, dnsOn>>
      /\ (edits' = edits \/ (edits < MaxEdits /\ edits' = edits + 1))
  BY DEF BeginUninstallGate, RemoveAssignment, ReleaseGate, Retire, InitializePreference,
         SetNormalDefault, Report, prefVars, envVars, Edit
<1>3. SwitchInv' /\ PhaseFollows
  <2>1. CASE BeginUninstallGate(n)
    <3>1. /\ UNCHANGED <<pref, lock, addr, eligible, sync, provider, observed, claim>>
          /\ gate' = gate \cup {n} /\ ~References(n)
      BY <2>1 DEF BeginUninstallGate, prefVars
    <3>2. Active => {pref.pending, pref.preferred} \cap gate' \subseteq gate
      BY <3>1 DEF References
    <3>3. QED
      BY <1>1, <3>1, <3>2, PreferenceSame DEF SwitchTypes
  <2>2. CASE ReleaseGate(n)
    BY <1>1, <2>2, PreferenceSame DEF SwitchTypes, ReleaseGate, prefVars
  <2>3. CASE \E a \in Addrs \cup {None} : Report(n, a)
    BY <1>1, <2>3, PreferenceSame DEF SwitchTypes, Report, prefVars
  <2>4. CASE RemoveAssignment(n)
    BY <1>1, <2>4, RemoveAssignmentKeeps
  <2>5. CASE Retire(n)
    BY <1>1, <2>5, RetireKeeps
  <2>6. CASE InitializePreference(n) \/ SetNormalDefault(n)
    BY <1>1, <2>6, NodeChoiceKeeps
  <2>7. QED
    BY <2>1, <2>2, <2>3, <2>4, <2>5, <2>6
<1>4. HandTypes'
  BY <1>1, <1>2, BoundAssumption DEF HandTypes, workerVars
<1>5. RowInv' /\ Still
  BY <1>2, <1>3, RowsSame DEF workerVars
<1>6. QED
  BY <1>3, <1>4, <1>5 DEF Kept, IInv

LEMMA EnvironmentKeeps ==
  ASSUME IInv, Environment
  PROVE  Kept
<1>1. SwitchInv /\ SwitchTypes /\ HandTypes /\ RowInv
  BY DEF IInv, SwitchInv
<1>2. ASSUME NEW r \in Rules, NEW el \in {eligible, eligible \cup {r}, eligible \ {r}},
             EditRules(el, {r})
      PROVE  Kept
  <2>1. /\ UNCHANGED <<pref, lock, addr, gate, sync, provider, observed, claim, starts>>
        /\ UNCHANGED <<worker, batch, exec, dnsOn>>
        /\ eligible' = el /\ edits < MaxEdits /\ edits' = edits + 1
        /\ api' = [api EXCEPT !.todo = {r}]
    BY <1>2 DEF EditRules, prefVars, workerVars, Edit
  <2>2. SwitchInv' /\ PhaseFollows
    BY <1>1, <2>1, PreferenceSame DEF SwitchTypes
  <2>3. HandTypes'
    BY <1>1, <2>1, BoundAssumption DEF HandTypes, Handler
  <2>4. QED
    BY <2>1, <2>2, <2>3, RowsSame DEF Kept, IInv
<1>3. ASSUME NEW on \in BOOLEAN, SetDns(on)
      PROVE  Kept
  <2>1. /\ UNCHANGED <<pref, lock, addr, gate, eligible, provider, observed, claim, starts>>
        /\ UNCHANGED <<worker, batch, exec>>
        /\ dnsOn' = on /\ edits < MaxEdits /\ edits' = edits + 1
        /\ api' = api \/ api' = [api EXCEPT !.todo = Rules]
        /\ sync' = sync \/ sync' = Disabled
    BY <1>3 DEF SetDns, prefVars, workerVars, Edit
  <2>2. Rearms(sync')
    BY <1>1, <2>1, DisabledRearms, NoRowChange
  <2>3. HandTypes'
    BY <1>1, <2>1, BoundAssumption DEF HandTypes, Handler
  <2>4. lock \in Holder \cup {None}
    BY <1>1 DEF SwitchTypes
  <2>5. worker'.stage # "execute" => \A r \in Rules : batch'[r] = None
    BY <1>1, <2>1 DEF RowInv
  <2>6. QED
    BY <2>1, <2>2, <2>3, <2>4, <2>5, RowsArmed
<1>4. CASE Crash
  <2>1. /\ UNCHANGED <<pref, starts, addr, gate, eligible, dnsOn, provider>>
        /\ lock' = None /\ exec' = {} /\ observed' = None /\ claim' = None
        /\ edits < MaxEdits /\ edits' = edits + 1
        /\ api' = [todo |-> {}, derived |-> None]
        /\ worker' = [stage |-> "guard", todo |-> {}, derived |-> None]
        /\ batch' = [r \in Rules |-> None]
    BY <1>4 DEF Crash, Edit
  <2>2. RowInv' /\ sync' \in [Rules -> Sync \cup {None}] /\ Still
    BY <1>1, <1>4, CrashKeeps
  <2>3. SwitchInv' /\ PhaseFollows
    BY <1>1, <2>1, <2>2, PreferenceSame DEF SwitchTypes
  <2>4. HandTypes'
    BY <1>1, <2>1, BoundAssumption DEF HandTypes, Handler, WorkerState
  <2>5. QED
    BY <2>1, <2>2, <2>3, <2>4 DEF Kept, IInv
<1>5. QED
  BY <1>2, <1>3, <1>4, NodeActionsKeep DEF Environment

LEMMA StepKeeps == IInv /\ [Next]_vars => Kept
<1> SUFFICES ASSUME IInv, [Next]_vars PROVE Kept
  OBVIOUS
<1>1. CASE UNCHANGED vars
  <2>1. /\ UNCHANGED <<pref, lock, starts, addr, gate, eligible, dnsOn, edits>>
        /\ UNCHANGED <<worker, batch, exec, sync, provider, api, observed, claim>>
    BY <1>1 DEF vars, prefVars, envVars, workerVars
  <2>2. SwitchInv' /\ PhaseFollows
    BY <2>1, PreferenceSame DEF IInv, SwitchInv, SwitchTypes
  <2>3. HandTypes'
    BY <2>1 DEF IInv, HandTypes
  <2>4. QED
    BY <2>1, <2>2, <2>3, RowsSame DEF Kept, IInv
<1>2. QED
  BY <1>1, SwitchesKeep, LockedKeeps, WorkerKeeps, HandlersKeep, EnvironmentKeeps DEF Next

LEMMA Invariance == Spec => []IInv
<1>1. IInv /\ [Next]_vars => IInv'
  BY StepKeeps DEF Kept
<1>2. QED
  BY <1>1, InitIInv, PTL DEF Spec

-----------------------------------------------------------------------------
(* What is promised.                                                       *)

\* Every variable keeps to its set of values: no attempt beyond the limit, no
\* desired value that is not an address or a deletion.
THEOREM TypeCorrect == Spec => []TypeOK
BY Invariance, TypesOfIInv, PTL

\* The authority of a running transaction is never withdrawn under it by a mode
\* change (transition_routing_mode, start_relay_switch_locked).
THEOREM AuthorityStays == Spec => []SourceStaysAuthorized
<1>1. IInv => SourceStaysAuthorized
  BY DEF IInv, SwitchInv
<1>2. QED
  BY <1>1, Invariance, PTL

\* No transaction leads to a node that is being uninstalled, and no switch back
\* to one (begin_uninstall_gate against start_relay_switch_locked).
THEOREM UninstallStaysOut == Spec => []UninstallExcluded
<1>1. IInv => UninstallExcluded
  BY DEF IInv, SwitchInv
<1>2. QED
  BY <1>1, Invariance, PTL

\* A row that says PROPAGATED agrees with the provider (reconcile_one and the
\* fence around it).
THEOREM RowsAreHonest == Spec => []SyncHonest
<1>1. IInv => SyncHonest
  BY DEF IInv, RowInv
<1>2. QED
  BY <1>1, Invariance, PTL

\* A group that is frozen after its rollback has every journaled record where it
\* was before (finalize_rollback_group).
THEOREM RollbackIsComplete == Spec => []RestoredWhileFrozen
<1>1. IInv => RestoredWhileFrozen
  BY DEF IInv, RowInv
<1>2. QED
  BY <1>1, Invariance, PTL

\* The records of a stopped group stand still from the moment the writes are over
\* that were authorised before: what was listed or taken is authorised anew by
\* reconcile_one and reconcile_delete, and what was authorised is not
\* (retire_identity does not wait for the provider).
THEOREM FrozenIsLeftAlone == Spec => StoppedStandsStill
<1>1. IInv /\ [Next]_vars => [Still]_vars
  BY StepKeeps DEF Kept
<1>2. QED
  BY <1>1, Invariance, PTL DEF Spec, StoppedStandsStill, Still

\* A switch is committed only for what the provider holds for all eligible rules
\* (finalize_switching_group).
THEOREM CommitIsReal == Spec => CommitMeansApplied
<1> DEFINE commit == pref.phase = "Switching" /\ pref'.phase = "Idle" =>
              /\ \A r \in eligible : r \in JournalRules
                                     /\ provider[r] = pref.journal[r].target
              /\ pref'.preferred \notin gate
<1>1. ASSUME IInv, [Next]_vars, pref.phase = "Switching", pref'.phase = "Idle"
      PROVE  /\ \A r \in eligible : r \in JournalRules
                                    /\ provider[r] = pref.journal[r].target
             /\ pref'.preferred \notin gate
  <2>1. PhaseFollows
    BY <1>1, StepKeeps DEF Kept
  <2>2. /\ JournalRules = eligible /\ \A r \in JournalRules : Applied(r)
        /\ pref'.preferred = pref.pending
    BY <1>1, <2>1 DEF PhaseFollows
  <2>3. \A r \in JournalRules : r \in Rules /\ provider[r] = pref.journal[r].target
    BY <1>1, <2>2 DEF IInv, RowInv, SyncHonest, Applied, Matches, JournalValue, JournalRules
  <2>4. pref.pending \notin gate
    BY <1>1 DEF IInv, SwitchInv, UninstallExcluded, Active
  <2>5. QED
    BY <2>2, <2>3, <2>4
<1>2. IInv /\ [Next]_vars => [commit]_vars
  BY <1>1
<1>3. QED
  BY <1>2, Invariance, PTL DEF Spec, CommitMeansApplied

\* The failover policy replaces only the node it saw failing (process_group).
THEOREM FailoverActsOnCurrent == Spec => AutomaticActsOnCurrent
<1> DEFINE acts == pref'.source = "Failover" /\ starts' # starts => pref.preferred = observed
<1>1. ASSUME IInv, Next, starts' # starts, pref'.source = "Failover"
      PROVE  pref.preferred = observed
  <2>1. SwitchInv /\ pref \in Preference
    BY <1>1 DEF IInv, SwitchInv, SwitchTypes
  <2>2. /\ ~Locked /\ ~Handlers
    BY <1>1 DEF Locked, ScheduleFails, ScheduleRule, BeginRollback, Stored, Handlers,
                ApiPersist, ApiDerive, prefVars
  <2>3. ~Worker
    BY <1>1 DEF Worker, Finalize, FinalizeSwitch, FinalizeRollback, BeginRollback, Stored,
                Prepare, RefreshPersist, List, BatchDone, RefreshDerive, Take, Authorize,
                Write, Reconcile, NoPrefChange, prefVars
  <2>4. ~Environment
    BY <1>1 DEF Environment, BeginUninstallGate, RemoveAssignment, ReleaseGate, Retire,
                InitializePreference, SetNormalDefault, Report, EditRules, SetDns, Crash,
                prefVars
  <2>5. Switches
    BY <1>1, <2>2, <2>3, <2>4 DEF Next
  <2>6. ASSUME NEW n \in Nodes, ManualStart(n) PROVE FALSE
    <3>1. Began(pref', n, "Manual")
      BY <2>1, <2>6, StartStep DEF ManualStart
    <3>2. QED
      BY <1>1, <3>1 DEF Began
  <2>7. ASSUME claim \in Nodes, Start(claim, "Schedule") PROVE FALSE
    <3>1. Began(pref', claim, "Schedule")
      BY <2>1, <2>7, StartStep
    <3>2. QED
      BY <1>1, <3>1 DEF Began
  <2>8. ASSUME NEW m \in Modes, TransitionMode(m) PROVE FALSE
    <3>1. pref' = [pref EXCEPT !.phase = "Switching", !.pendingMode = m,
             !.pending = pref.normal, !.source = "ModeTransition",
             !.journal = [r \in Rules |-> IF r \in eligible
               THEN [target |-> addr[pref.normal], rollback |-> provider[r]]
               ELSE None]]
      BY <1>1, <2>8 DEF TransitionMode
    <3>2. pref'.source = "ModeTransition"
      BY <2>1, <3>1 DEF Preference
    <3>3. QED
      BY <1>1, <3>2
  <2>9. claim \in Nodes \cup {None}
    BY <2>1 DEF SwitchInv, SwitchTypes
  <2>10. QED
    BY <1>1, <2>5, <2>6, <2>7, <2>8, <2>9
       DEF Switches, StartIfCurrent, ClaimSchedule, ObserveFailing, ObservationDropped,
           ScheduledStart, prefVars
<1>2. IInv /\ [Next]_vars => [acts]_vars
  BY <1>1
<1>3. QED
  BY <1>2, Invariance, PTL DEF Spec, AutomaticActsOnCurrent

-----------------------------------------------------------------------------
(* Refinement of SwitchTransaction.                                        *)

Shown == <<pref.phase, pref.journal, provider>>

\* A step of the transaction, or one that it does not show.
Moves == Transaction!Next \/ UNCHANGED Shown

\* Without a transaction there is no journal.
IdleIsClean == pref.phase = "Idle" => pref.journal = Transaction!NoJournal

\* The journal of a preference is one that the transaction may have.
LEMMA JournalTyped == \A p \in Preference : p.journal \in Transaction!Journals
BY DEF Preference, Entry, Values, Transaction!Journals, Transaction!Entry

\* The records of a transaction are those of its journal.
LEMMA SameRecords == Transaction!Journaled = JournalRules
BY DEF Transaction!Journaled, JournalRules

LEMMA StartBegins ==
  ASSUME SwitchInv, NEW t \in Nodes, NEW source \in {"Manual", "Schedule", "Failover"},
         Start(t, source), SwitchInv'
  PROVE  Moves
<1>1. pref'.phase = "Switching" /\ pref.phase \in {"Idle", "FailedRolledBack"}
  BY StartStep DEF Began, Start, Startable
<1>2. pref'.journal \in Transaction!Journals
  BY JournalTyped DEF SwitchInv, SwitchTypes
<1>3. UNCHANGED provider
  BY DEF Start, NoEnvChange
<1>4. Transaction!Begin
  BY <1>1, <1>2, <1>3 DEF Transaction!Begin
<1>5. QED
  BY <1>4 DEF Moves, Transaction!Next

\* A mode change discards a rolled back transaction, or begins one.
LEMMA TransitionMoves ==
  ASSUME SwitchInv, IdleIsClean, NEW m \in Modes, TransitionMode(m), SwitchInv'
  PROVE  Moves
<1>1. pref \in Preference /\ pref.phase \in {"Idle", "FailedRolledBack"}
      /\ UNCHANGED provider
  BY DEF SwitchInv, SwitchTypes, TransitionMode, NoEnvChange
<1>2. CASE pref' = [Cleared EXCEPT !.mode = m]
  <2>1. pref'.phase = "Idle" /\ pref'.journal = Transaction!NoJournal
    BY <1>1, <1>2, ClearedIsIdle DEF Preference, Transaction!NoJournal
  <2>2. CASE pref.phase = "Idle"
    BY <1>1, <2>1, <2>2 DEF IdleIsClean, Moves, Shown
  <2>3. CASE pref.phase = "FailedRolledBack"
    BY <1>1, <2>1, <2>3 DEF Moves, Transaction!Next, Transaction!Discard
  <2>4. QED
    BY <1>1, <2>2, <2>3
<1>3. CASE pref' # [Cleared EXCEPT !.mode = m]
  <2>1. \E j : pref' = [pref EXCEPT !.phase = "Switching", !.pendingMode = m,
                          !.pending = pref.normal, !.source = "ModeTransition",
                          !.journal = j]
    BY <1>3 DEF TransitionMode
  <2>2. pref'.phase = "Switching"
    BY <1>1, <2>1 DEF Preference
  <2>3. pref'.journal \in Transaction!Journals
    BY JournalTyped DEF SwitchInv, SwitchTypes
  <2>4. Transaction!Begin
    BY <1>1, <2>2, <2>3 DEF Transaction!Begin
  <2>5. QED
    BY <2>4 DEF Moves, Transaction!Next
<1>4. QED
  BY <1>2, <1>3

\* A transaction turns back when all its records have a way, or stops.
LEMMA FallingMoves ==
  ASSUME SwitchInv, NEW ph \in {"RollingBack", "Manual"}, Active,
         pref' = [pref EXCEPT !.phase = ph], UNCHANGED provider,
         ph = "RollingBack" => /\ pref.phase = "Switching"
                               /\ \A r \in JournalRules : pref.journal[r].rollback # None
  PROVE  Moves
<1>1. pref'.phase = ph /\ pref'.journal = pref.journal
  BY DEF SwitchInv, SwitchTypes, Preference
<1>2. CASE ph = "RollingBack"
  BY <1>1, <1>2, SameRecords DEF Transaction!GoBack, Transaction!Next, Moves
<1>3. CASE ph = "Manual"
  BY <1>1, <1>3 DEF Active, Transaction!Stop, Transaction!Next, Moves
<1>4. QED
  BY <1>2, <1>3

LEMMA BackMoves ==
  ASSUME SwitchInv, NEW by, pref.phase = "Switching", BeginRollback(by), UNCHANGED provider
  PROVE  Moves
<1>1. CASE JournalRules # {} /\ \A r \in JournalRules : pref.journal[r].rollback # None
  BY <1>1, FallingMoves DEF BeginRollback, Stored, Active
<1>2. CASE ~(JournalRules # {} /\ \A r \in JournalRules : pref.journal[r].rollback # None)
  BY <1>2, FallingMoves DEF BeginRollback, Stored, Active
<1>3. QED
  BY <1>1, <1>2

LEMMA ScheduleFailsMoves ==
  ASSUME SwitchInv, ScheduleFails
  PROVE  Moves
<1>1. Active /\ UNCHANGED provider
  BY DEF ScheduleFails, SwitchInv, LockFollows, NoEnvChange
<1>2. CASE pref.phase = "Switching"
  BY <1>1, <1>2, BackMoves DEF ScheduleFails
<1>3. CASE pref.phase # "Switching"
  BY <1>1, <1>3, FallingMoves DEF ScheduleFails, Stored
<1>4. QED
  BY <1>2, <1>3

\* What the worker finds applied, the provider holds.
LEMMA AppliedIsHeld ==
  ASSUME SyncHonest, NEW r \in Rules, Applied(r)
  PROVE  provider[r] = JournalValue(r)
BY DEF SyncHonest, Applied, Matches

LEMMA FinalizeMoves ==
  ASSUME SwitchInv, SyncHonest, Finalize
  PROVE  Moves
<1>1. UNCHANGED provider /\ pref \in Preference
  BY DEF Finalize, SwitchInv, SwitchTypes
<1>2. \A r \in JournalRules : r \in Rules
  BY DEF JournalRules
<1>3. CASE UNCHANGED prefVars
  BY <1>1, <1>3 DEF prefVars, Moves, Shown
<1>4. CASE pref.phase = "Switching" /\ FinalizeSwitch
  <2>1. CASE BeginRollback("worker")
    BY <1>1, <1>4, <2>1, BackMoves
  <2>2. CASE Stored(Committed, "worker") /\ \A r \in JournalRules : Applied(r)
    <3>1. pref'.phase = "Idle" /\ pref'.journal = Transaction!NoJournal
      BY <1>1, <2>2, ClearedIsIdle DEF Stored, Committed, Preference, Transaction!NoJournal
    <3>2. \A r \in JournalRules : provider[r] = pref.journal[r].target
      BY <1>2, <1>4, <2>2, AppliedIsHeld DEF JournalValue
    <3>3. QED
      BY <1>1, <1>4, <3>1, <3>2, SameRecords DEF Transaction!Commit, Transaction!Next, Moves
  <2>3. QED
    BY <1>3, <1>4, <2>1, <2>2 DEF FinalizeSwitch
<1>5. CASE pref.phase = "RollingBack" /\ FinalizeRollback
  <2>1. CASE Stored([pref EXCEPT !.phase = "Manual"], "worker")
    BY <1>1, <1>5, <2>1, FallingMoves DEF Stored, Active
  <2>2. CASE /\ \A r \in JournalRules : Applied(r)
             /\ Stored([pref EXCEPT !.phase = "FailedRolledBack", !.pendingMode =
                          IF pref.source = "ModeTransition" THEN None ELSE @], "worker")
    <3>1. pref'.phase = "FailedRolledBack" /\ pref'.journal = pref.journal
      BY <1>1, <2>2 DEF Stored, Preference
    <3>2. \A r \in JournalRules : provider[r] = pref.journal[r].rollback
      BY <1>2, <1>5, <2>2, AppliedIsHeld DEF JournalValue
    <3>3. QED
      BY <1>1, <1>5, <3>1, <3>2, SameRecords DEF Transaction!Restored, Transaction!Next, Moves
  <2>3. QED
    BY <1>3, <1>5, <2>1, <2>2 DEF FinalizeRollback
<1>6. QED
  BY <1>3, <1>4, <1>5 DEF Finalize

\* Retiring a node of a transaction stops it; whatever else is done to a node
\* concerns the choice of nodes only.
LEMMA NodesMove ==
  ASSUME SwitchInv, NEW n \in Nodes,
         \/ Retire(n) \/ RemoveAssignment(n) \/ SetNormalDefault(n) \/ InitializePreference(n)
  PROVE  Moves
<1>1. pref \in Preference /\ UNCHANGED provider
  BY DEF SwitchInv, SwitchTypes, Retire, RemoveAssignment, SetNormalDefault,
         InitializePreference
<1>2. CASE Retire(n) /\ References(n)
  <2> DEFINE p == [pref EXCEPT !.phase = "Manual", !.pending = None,
                               !.pendingMode = None, !.source = None]
  <2>1. p \in Preference /\ p.phase = "Manual" /\ p.journal = pref.journal
    BY <1>1 DEF Preference, Phases
  <2>2. pref' = Without(p, n)
    BY <1>2 DEF Retire
  <2> HIDE DEF p
  <2>3. pref'.phase = "Manual" /\ pref'.journal = pref.journal
    BY <2>1, <2>2, WithoutKeeps
  <2>4. QED
    BY <1>1, <1>2, <2>3
       DEF References, Active, Transaction!Stop, Transaction!Next, Moves
<1>3. CASE pref' = pref \/ pref' = Without(pref, n)
  <2>1. pref'.phase = pref.phase /\ pref'.journal = pref.journal
    BY <1>1, <1>3, WithoutKeeps
  <2>2. QED
    BY <1>1, <2>1 DEF Moves, Shown
<1>4. CASE SetNormalDefault(n) \/ InitializePreference(n)
  <2>1. pref'.phase = pref.phase /\ pref'.journal = pref.journal
    BY <1>1, <1>4 DEF SetNormalDefault, InitializePreference, Preference
  <2>2. QED
    BY <1>1, <2>1 DEF Moves, Shown
<1>5. QED
  BY <1>2, <1>3, <1>4 DEF Retire, RemoveAssignment

\* In a group that is rolled back nothing is in execution, so nothing is written.
LEMMA WriteMoves ==
  ASSUME IInv, IInv', NEW r \in Rules, Write(r)
  PROVE  Moves
<1>1. UNCHANGED pref /\ r \in exec
  BY DEF Write, NoPrefChange, prefVars, Authorized
<1>2. pref.phase # "FailedRolledBack" /\ provider' \in [Rules -> Values]
  BY <1>1 DEF IInv, RowInv, SwitchInv, SwitchTypes
<1>3. QED
  BY <1>1, <1>2 DEF Transaction!Write, Transaction!Next, Moves

LEMMA StepIsMove ==
  ASSUME IInv, IdleIsClean, [Next]_vars
  PROVE  Moves
<1>0. IInv' /\ SwitchInv /\ SwitchInv' /\ SyncHonest
      /\ observed \in Nodes \cup {None} /\ claim \in Nodes \cup {None}
  BY StepKeeps DEF Kept, IInv, SwitchInv, SwitchTypes, RowInv
<1>1. CASE UNCHANGED <<pref, provider>>
  BY <1>1 DEF Moves, Shown
<1>2. CASE Switches
  <2>1. ASSUME NEW n \in Nodes, ManualStart(n) \/ StartIfCurrent(n) \/ ClaimSchedule(n)
        PROVE  Moves
    <3>1. CASE ManualStart(n)
      BY <1>0, <3>1, StartBegins DEF ManualStart
    <3>2. CASE StartIfCurrent(n)
      BY <1>0, <3>2, StartBegins DEF StartIfCurrent
    <3>3. CASE ClaimSchedule(n)
      BY <1>1, <3>3 DEF ClaimSchedule, prefVars, NoEnvChange
    <3>4. QED
      BY <2>1, <3>1, <3>2, <3>3
  <2>2. ASSUME NEW m \in Modes, TransitionMode(m) PROVE Moves
    BY <1>0, <2>2, TransitionMoves
  <2>3. CASE ObserveFailing \/ ObservationDropped
    BY <1>1, <2>3 DEF ObserveFailing, ObservationDropped, prefVars, NoEnvChange
  <2>4. CASE ScheduledStart
    <3>1. CASE claim \in Nodes /\ Start(claim, "Schedule")
      BY <1>0, <3>1, StartBegins
    <3>2. CASE UNCHANGED prefVars /\ NoEnvChange
      BY <1>1, <3>2 DEF prefVars, NoEnvChange
    <3>3. QED
      BY <1>0, <2>4, <3>1, <3>2 DEF ScheduledStart
  <2>5. QED
    BY <1>2, <2>1, <2>2, <2>3, <2>4 DEF Switches
<1>3. CASE Locked
  <2>1. ASSUME NEW r \in Rules, ScheduleRule(r) PROVE UNCHANGED <<pref, provider>>
    BY <2>1 DEF ScheduleRule, NoEnvChange
  <2>2. QED
    BY <1>0, <1>1, <1>3, <2>1, ScheduleFailsMoves DEF Locked
<1>4. CASE Worker
  <2>1. CASE Finalize
    BY <1>0, <2>1, FinalizeMoves
  <2>2. CASE \E r \in Rules : Write(r)
    BY <1>0, <2>2, WriteMoves
  <2>3. CASE Prepare \/ RefreshPersist \/ List \/ BatchDone
    BY <1>1, <2>3 DEF Prepare, RefreshPersist, List, BatchDone, NoPrefChange, prefVars
  <2>4. ASSUME NEW r \in Rules,
               RefreshDerive(r) \/ Take(r) \/ Authorize(r) \/ Reconcile(r)
        PROVE  UNCHANGED <<pref, provider>>
    BY <2>4 DEF RefreshDerive, Take, Authorize, Reconcile, NoPrefChange, prefVars
  <2>5. QED
    BY <1>1, <1>4, <2>1, <2>2, <2>3, <2>4 DEF Worker
<1>5. CASE Handlers
  BY <1>1, <1>5 DEF Handlers, ApiPersist, ApiDerive, prefVars
<1>6. CASE Environment
  <2>1. ASSUME NEW n \in Nodes,
               \/ BeginUninstallGate(n) \/ ReleaseGate(n)
               \/ \E a \in Addrs \cup {None} : Report(n, a)
        PROVE  UNCHANGED <<pref, provider>>
    BY <2>1 DEF BeginUninstallGate, ReleaseGate, Report, prefVars
  <2>2. ASSUME NEW n \in Nodes, \/ Retire(n) \/ RemoveAssignment(n)
                                \/ SetNormalDefault(n) \/ InitializePreference(n)
        PROVE  Moves
    BY <1>0, <2>2, NodesMove
  <2>3. ASSUME NEW el, NEW S, EditRules(el, S) PROVE UNCHANGED <<pref, provider>>
    BY <2>3 DEF EditRules, prefVars
  <2>4. ASSUME NEW on \in BOOLEAN, SetDns(on) PROVE UNCHANGED <<pref, provider>>
    BY <2>4 DEF SetDns, prefVars
  <2>5. CASE Crash
    BY <1>1, <2>5 DEF Crash
  <2>6. QED
    BY <1>1, <1>6, <2>1, <2>2, <2>3, <2>4, <2>5 DEF Environment
<1>7. CASE UNCHANGED vars
  BY <1>1, <1>7 DEF vars, prefVars
<1>8. QED
  BY <1>2, <1>3, <1>4, <1>5, <1>6, <1>7 DEF Next

LEMMA CleanStep ==
  ASSUME IdleIsClean, Moves
  PROVE  IdleIsClean'
BY DEF IdleIsClean, Moves, Shown, Transaction!Next, Transaction!Begin, Transaction!Commit,
       Transaction!GoBack, Transaction!Restored, Transaction!Stop, Transaction!Discard,
       Transaction!Write, Transaction!NoJournal

\* finalize_switching_group, finalize_rollback_group and the starts behave as one
\* transaction over the provider's records: all moved, all put back, or stopped
\* for an operator, for any interleaving of worker, handlers, nodes and crashes.
THEOREM RefinesTransaction == Spec => ImplementsTransaction
<1>1. Init => Transaction!Init /\ IdleIsClean
  <2> SUFFICES ASSUME Init PROVE Transaction!Init /\ IdleIsClean
    OBVIOUS
  <2>1. pref.phase = "Idle" /\ pref.journal = [r \in Rules |-> None]
    BY DEF Init, Running
  <2>2. provider \in [Rules -> Values]
    BY InitIInv DEF IInv, SwitchInv, SwitchTypes
  <2>3. QED
    BY <2>1, <2>2 DEF Transaction!Init, Transaction!NoJournal, IdleIsClean
<1>2. IInv /\ IdleIsClean /\ [Next]_vars => [Transaction!Next]_Shown /\ IdleIsClean'
  BY StepIsMove, CleanStep DEF Moves
<1>3. QED
  BY <1>1, <1>2, Invariance, PTL DEF Spec, ImplementsTransaction, Transaction!Spec, Shown
=============================================================================

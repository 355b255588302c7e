------------------------- MODULE TrafficAccounting -------------------------
(***************************************************************************)
(* Strict traffic accounting of one node with a permanent credential:      *)
(* crates/node/src/reporter.rs, crates/node/src/forwarder/                 *)
(* nginx_sni_traffic.rs, report_traffic in crates/panel/src/api/node.rs    *)
(* and apply_idempotent_traffic_batch in the panel's database layer.       *)
(*                                                                         *)
(* A unit stands for some bytes of one connection.  Raw listeners count in *)
(* memory, nginx writes an access log; both are sealed into one spool of   *)
(* immutable batches, sent oldest first and deleted after a matching ACK.  *)
(* The report gate makes one report or one ingestion run at a time: phase  *)
(* says how far the current one has come.                                  *)
(*                                                                         *)
(* Scope: one credential generation, a cursor that exists already (the     *)
(* first-boot bootstrap is left out), rules whose owner never changes.     *)
(***************************************************************************)
EXTENDS Naturals, Sequences, FiniteSets

CONSTANTS RawRules,   \* rules of in-process TCP/TLS/WS/UDP listeners
          SniRules,   \* rules routed by nginx, accounted from its log
          Groups,     \* the groups whose rules this node serves
          Home,       \* the node's home group
          Away,       \* any group this node does not serve
          Gone,       \* a deleted rule
          Unbillable, \* the terminal disposition of a historical entry
          HomeOnly,   \* a revision with no map: delivered before migration
          Unmapped,   \* a rule that a revision's map does not hold
          Counters,   \* the origin of a batch without an nginx checkpoint
          MaxRev,     \* bound: revisions delivered
          MaxUnits,   \* bound: units forwarded
          MaxSeq,     \* bound: spool sequence numbers reserved
          MaxMoves,   \* bound: rules moved or deleted
          MaxFiles,   \* bound: access log files and truncations
          MaxFaults   \* bound: crashes, failed writes, lost answers

Rules == RawRules \cup SniRules
Places == Groups \cup {Away, Gone}
Units == 1..MaxUnits
Revisions == 1..MaxRev

ASSUME BoundsAreNaturals ==
  /\ MaxRev \in Nat \ {0} /\ MaxUnits \in Nat /\ MaxSeq \in Nat
  /\ MaxMoves \in Nat /\ MaxFiles \in Nat \ {0} /\ MaxFaults \in Nat
ASSUME RulesAreDisjoint == RawRules \cap SniRules = {}
ASSUME PlacesAreDistinct ==
  /\ Home \in Groups
  /\ Away \notin Groups /\ Gone \notin Groups /\ Away # Gone
  /\ Unbillable \notin Places /\ Unmapped \notin Places

\* A connection, by what its traffic is tagged with and by the revision in
\* force when it was accepted.
Connections == [rule : Rules, rev : 0..MaxRev, since : Revisions]

Checkpoints == [file : 1..MaxFiles, gen : 0..MaxFiles,
                start : 0..MaxUnits, end : 0..MaxUnits]

Batches == [seq : 1..MaxSeq, rev : 0..MaxRev, units : SUBSET Units,
            origin : Checkpoints \cup {Counters}]

ASSUME CountersAreNoCheckpoint == Counters \notin Checkpoints

Phases == {"idle", "commit", "cursor", "sent", "acked"}

VARIABLES group,     \* forward_rules.device_group_in, or Gone
          maps,      \* per delivered revision: its rule map, or HomeOnly
          tag,       \* what the running listener of a rule tags bytes with
          open,      \* connections that can still carry bytes
          unit,      \* the connection of every unit forwarded so far
          counter,   \* units in the in-memory TrafficCounter
          log,       \* units in the current nginx access log file
          file,      \* identity of that file (device and inode)
          cursor,    \* the durable LogState
          spool,     \* durable batches
          ghosts,    \* batches unlinked without a directory sync
          nextSeq,   \* sequence.json
          phase,     \* of the report or ingestion that holds the gate
          poisoned,  \* strict_seal_poisoned
          net,       \* requests that may still reach the panel
          ledger,    \* settled batches in settlement order
          truncated, \* the file was truncated in place, not noticed yet
          moves, rotations, faults   \* bounded counts

nodeVars == <<counter, log, file, cursor, spool, ghosts, nextSeq, phase,
              poisoned, truncated, rotations>>
configVars == <<maps, tag, open>>
vars == <<group, configVars, unit, nodeVars, net, ledger, moves, faults>>

TypeOK ==
  /\ group \in [Rules -> Places]
  /\ maps \in Seq({HomeOnly} \cup [Rules -> Groups \cup {Unmapped}])
  /\ tag \in [Rules -> {Unmapped} \cup 0..MaxRev]
  /\ open \subseteq Connections
  /\ unit \in Seq(Connections)
  /\ counter \subseteq Units
  /\ log \in Seq(Units)
  /\ file \in 1..MaxFiles
  /\ cursor \in [file : 1..MaxFiles, gen : 0..MaxFiles, off : 0..MaxUnits,
                 seq : 0..MaxSeq]
  /\ spool \subseteq Batches /\ ghosts \subseteq Batches
  /\ nextSeq \in 1..MaxSeq + 1
  /\ \A b \in spool \cup ghosts : b.seq < nextSeq
  /\ phase \in Phases
  /\ poisoned \in BOOLEAN /\ truncated \in BOOLEAN
  /\ net \subseteq Batches
  /\ \A i \in DOMAIN ledger : ledger[i].seq < nextSeq
  /\ moves \in 0..MaxMoves /\ rotations \in 0..MaxFiles
  /\ faults \in 0..MaxFaults
-----------------------------------------------------------------------------
\* The rules a node is given: its home group's only, or every served group's.
Served(exact) == [r \in Rules |-> IF \/ exact /\ group[r] \in Groups
                                     \/ group[r] = Home
                                    THEN group[r] ELSE Unmapped]

Listening(served, rev) ==
  [r \in Rules |-> IF served[r] = Unmapped THEN Unmapped ELSE rev]

Accepting(tags, since) ==
  {[rule |-> r, rev |-> tags[r], since |-> since] :
     r \in {x \in Rules : tags[x] # Unmapped}}

\* The node starts strict reporting under its first exact revision or, after
\* a credential migration, still under a legacy Home-only one.
Init ==
  /\ group \in [Rules -> Groups]
  /\ \E exact \in BOOLEAN :
       /\ maps = <<IF exact THEN Served(TRUE) ELSE HomeOnly>>
       /\ tag = Listening(Served(exact), 1)
       /\ open = Accepting(Listening(Served(exact), 1), 1)
  /\ unit = << >> /\ counter = {} /\ log = << >> /\ file = 1
  /\ cursor = [file |-> 1, gen |-> 0, off |-> 0, seq |-> 0]
  /\ spool = {} /\ ghosts = {} /\ nextSeq = 1
  /\ phase = "idle" /\ poisoned = FALSE
  /\ net = {} /\ ledger = << >>
  /\ truncated = FALSE
  /\ moves = 0 /\ rotations = 0 /\ faults = 0

Fault == faults < MaxFaults /\ faults' = faults + 1
NoFault == UNCHANGED faults
-----------------------------------------------------------------------------
(* Ownership, configuration and traffic *)

MoveRule(r, place) ==
  /\ moves < MaxMoves
  /\ group[r] # Gone /\ group[r] # place
  /\ group' = [group EXCEPT ![r] = place]
  /\ moves' = moves + 1
  /\ UNCHANGED <<configVars, unit, nodeVars, net, ledger, faults>>

\* An unchanged raw listener keeps running, with the revision it was started
\* with; nginx is reloaded with the new revision in its log format.
Retagged(served, changed) ==
  [r \in Rules |->
     IF served[r] = Unmapped THEN Unmapped
     ELSE IF r \in RawRules \ changed /\ tag[r] # Unmapped THEN tag[r]
     ELSE Len(maps) + 1]

\* The panel commits a revision for the present ownership and the node applies
\* it.  changed: the rules whose listener fingerprint differs.  Connections that
\* exist go on carrying bytes: those of a rule the node no longer serves are
\* cancelled, but not before the call returns.
Deliver(changed) ==
  /\ Len(maps) < MaxRev
  /\ changed # {} \/ Served(TRUE) # maps[Len(maps)]
  /\ maps' = Append(maps, Served(TRUE))
  /\ tag' = Retagged(Served(TRUE), changed)
  /\ open' = open \cup Accepting(tag', Len(maps) + 1)
  /\ UNCHANGED <<group, unit, nodeVars, net, ledger, moves, faults>>

\* refresh_nginx_sni_dns builds its plan without a revision.
RefreshSniDns ==
  /\ \E r \in SniRules : tag[r] \notin {Unmapped, 0}
  /\ tag' = [r \in Rules |-> IF r \in SniRules /\ tag[r] # Unmapped
                               THEN 0 ELSE tag[r]]
  /\ open' = open \cup Accepting(tag', Len(maps))
  /\ UNCHANGED <<group, maps, unit, nodeVars, net, ledger, moves, faults>>

Forward(c) ==
  /\ Len(unit) < MaxUnits
  /\ unit' = Append(unit, c)
  /\ IF c.rule \in RawRules
       THEN counter' = counter \cup {Len(unit) + 1} /\ UNCHANGED log
       ELSE log' = Append(log, Len(unit) + 1) /\ UNCHANGED counter
  /\ UNCHANGED <<group, configVars, file, cursor, spool, ghosts, nextSeq,
                 phase, poisoned, truncated, rotations, net, ledger, moves, faults>>
-----------------------------------------------------------------------------
(* Sealing the in-memory counters: snapshot, durable batch, then subtract *)

OldestRevision ==
  CHOOSE v \in {unit[u].rev : u \in counter} :
    \A u \in counter : v <= unit[u].rev

Snapshot == {u \in counter : unit[u].rev = OldestRevision}

\* What write_spool_record_at can do with a record whose sequence number has
\* been reserved: install it durably, leave nothing, or not know.
Installed(b) == /\ spool' = spool \cup {b}
                /\ ghosts' = {}
                /\ UNCHANGED poisoned

InstallUncertain(b) == /\ poisoned' = TRUE
                       /\ spool' \in {spool, spool \cup {b}}
                       /\ UNCHANGED ghosts

ReserveVolatile == nextSeq <= MaxSeq /\ UNCHANGED nextSeq  \* mutation

Reserve == nextSeq <= MaxSeq /\ nextSeq' = nextSeq + 1

CounterBatch == [seq |-> nextSeq, rev |-> OldestRevision,
                 units |-> Snapshot, origin |-> Counters]

SealCounters ==
  /\ phase = "idle" /\ ~poisoned /\ counter # {}
  /\ Reserve
  /\ \/ Installed(CounterBatch) /\ phase' = "commit" /\ NoFault
     \/ InstallUncertain(CounterBatch) /\ UNCHANGED phase /\ Fault
  /\ UNCHANGED <<group, configVars, unit, counter, log, file, cursor,
                 truncated, rotations, net, ledger, moves>>

\* A clean failure of either seal leaves a gap in the sequence.
SealFails ==
  /\ phase = "idle" /\ ~poisoned
  /\ counter # {} \/ cursor.off < Len(log)
  /\ Reserve
  /\ Fault
  /\ UNCHANGED <<group, configVars, unit, counter, log, file, cursor, spool,
                 ghosts, phase, poisoned, truncated, rotations, net, ledger, moves>>

Newest == CHOOSE b \in spool : \A c \in spool : c.seq <= b.seq
Oldest == CHOOSE b \in spool : \A c \in spool : b.seq <= c.seq

\* TrafficSnapshot.commit: bytes counted since the snapshot stay.
CommitCounters ==
  /\ phase = "commit"
  /\ counter' = counter \ Newest.units
  /\ phase' = "idle"
  /\ UNCHANGED <<group, configVars, unit, log, file, cursor, spool, ghosts,
                 nextSeq, poisoned, truncated, rotations, net, ledger, moves, faults>>
-----------------------------------------------------------------------------
(* Ingesting the access log: recover, follow the file, seal, move the cursor *)

RecoverableNever == {}                 \* mutation: recovery dropped

\* Batches whose checkpoint starts exactly where the durable cursor stands.
Recoverable == {b \in spool : /\ b.origin # Counters
                              /\ b.origin.file = cursor.file
                              /\ b.origin.gen = cursor.gen
                              /\ b.origin.start = cursor.off}

CursorAfter(b) == [file |-> b.origin.file, gen |-> b.origin.gen,
                   off |-> b.origin.end,
                   seq |-> IF b.seq > cursor.seq THEN b.seq ELSE cursor.seq]

\* Every durable cursor write: it succeeds, or its outcome is unknown and the
\* process is poisoned.
WritesCursor(next) ==
  \/ cursor' = next /\ UNCHANGED poisoned /\ NoFault
  \/ cursor' \in {cursor, next} /\ poisoned' = TRUE /\ Fault

RecoverCheckpoint ==
  /\ phase = "idle" /\ ~poisoned
  /\ \E b \in Recoverable : WritesCursor(CursorAfter(b))
  /\ UNCHANGED <<group, configVars, unit, counter, log, file, spool, ghosts,
                 nextSeq, phase, truncated, rotations, net, ledger, moves>>

FileReplaced == cursor.file # file \/ cursor.off > Len(log)

NextGeneration == [file |-> file, gen |-> cursor.gen + 1, off |-> 0,
                   seq |-> cursor.seq]

\* prepare_state_for_file, persisted before any byte of the file is read.  A
\* failure is only retried.
PrepareStateForFile ==
  /\ phase = "idle" /\ ~poisoned
  /\ Recoverable = {}
  /\ FileReplaced
  /\ cursor' = NextGeneration
  /\ truncated' = FALSE
  /\ UNCHANGED <<group, configVars, unit, counter, log, file, spool, ghosts,
                 nextSeq, phase, poisoned, rotations, net, ledger, moves,
                 faults>>

\* One batch per revision: the first line of another revision ends a segment.
SegmentEnd ==
  CHOOSE n \in cursor.off + 1 .. Len(log) :
    /\ \A i \in cursor.off + 1 .. n :
         unit[log[i]].rev = unit[log[cursor.off + 1]].rev
    /\ n < Len(log) => unit[log[n + 1]].rev # unit[log[n]].rev

Segment == {log[i] : i \in cursor.off + 1 .. SegmentEnd}

LogBatch == [seq |-> nextSeq, rev |-> unit[log[cursor.off + 1]].rev,
             units |-> Segment,
             origin |-> [file |-> file, gen |-> cursor.gen,
                         start |-> cursor.off, end |-> SegmentEnd]]

SealSegment ==
  /\ phase = "idle" /\ ~poisoned
  /\ Recoverable = {} /\ ~FileReplaced
  /\ cursor.off < Len(log)
  /\ Reserve
  /\ \/ Installed(LogBatch) /\ phase' = "cursor" /\ NoFault
     \/ InstallUncertain(LogBatch) /\ UNCHANGED phase /\ Fault
  /\ UNCHANGED <<group, configVars, unit, counter, log, file, cursor,
                 truncated, rotations, net, ledger, moves>>

CursorAtEndOfLog(b) ==                 \* mutation: skip the next segments
  [CursorAfter(b) EXCEPT !.off = Len(log)]

CursorFor(b) == CursorAfter(b)

AdvanceCursor ==
  /\ phase = "cursor"
  /\ WritesCursor(CursorFor(Newest))
  /\ phase' = "idle"
  /\ UNCHANGED <<group, configVars, unit, counter, log, file, spool, ghosts,
                 nextSeq, truncated, rotations, net, ledger, moves>>

\* logrotate puts another file in place, or truncates this one (copytruncate).
RotateLog ==
  /\ rotations < MaxFiles - 1
  /\ rotations' = rotations + 1
  /\ log # << >>
  /\ log' = << >>
  /\ file' \in {file, file + 1}
  /\ truncated' = (truncated \/ file' = file)
  /\ UNCHANGED <<group, configVars, unit, counter, cursor, spool, ghosts,
                 nextSeq, phase, poisoned, net, ledger, moves, faults>>
-----------------------------------------------------------------------------
(* Draining the spool, oldest batch first *)

ReadyAtOnce(b) == TRUE                 \* mutation: no cursor commit proof

\* durable_batch_send_ready: the cursor has durably crossed the batch.
Ready(b) ==
  b.origin # Counters =>
    /\ cursor.seq >= b.seq
    /\ \/ cursor.gen > b.origin.gen
       \/ /\ cursor.gen = b.origin.gen
          /\ cursor.file = b.origin.file
          /\ cursor.off >= b.origin.end

Send ==
  /\ phase = "idle" /\ ~poisoned
  /\ spool # {}
  /\ Ready(Oldest)
  /\ phase' = "sent"
  /\ net' = net \cup {Oldest}
  /\ UNCHANGED <<group, configVars, unit, counter, log, file, cursor, spool,
                 ghosts, nextSeq, poisoned, truncated, rotations, ledger, moves, faults>>

AppliedNever(b) == FALSE               \* mutation: no idempotency row

Applied(b) == \E i \in DOMAIN ledger : ledger[i].seq = b.seq

RulesOf(b) == {unit[u].rule : u \in b.units}

HomeAccounting(b) == b.rev = 0 \/ maps[b.rev] = HomeOnly

\* What report_traffic answers besides an ACK, always the same until
\* ownership changes: a rule outside the map, or a Home-only batch with a
\* rule that is not in the home group now.
Refused(b) ==
  /\ ~Applied(b)
  /\ \E r \in RulesOf(b) : IF HomeAccounting(b) THEN group[r] # Home
                                                ELSE maps[b.rev][r] = Unmapped

BillToCurrent(b, r) == IF group[r] \in Groups THEN group[r] ELSE Unbillable

\* A rule that left its historical group is never billed; a deleted rule is
\* billed to its historical owner and group.
BillTo(b, r) ==
  IF HomeAccounting(b) THEN Home
  ELSE IF group[r] \in {maps[b.rev][r], Gone} THEN maps[b.rev][r]
  ELSE Unbillable

Settlement(b) == [seq |-> b.seq, rev |-> b.rev, units |-> b.units,
                  to |-> [r \in RulesOf(b) |-> BillTo(b, r)]]

Answers(b, reply) ==
  \/ phase = "sent" /\ b = Oldest /\ phase' = reply /\ NoFault
  \/ phase = "sent" /\ b = Oldest /\ UNCHANGED phase /\ Fault   \* lost
  \/ ~(phase = "sent" /\ b = Oldest) /\ UNCHANGED <<phase, faults>>

\* One transaction: the idempotency row, the entries and the balances.
Settle(b) ==
  /\ ~Refused(b)
  /\ ledger' = IF Applied(b) THEN ledger ELSE Append(ledger, Settlement(b))
  /\ Answers(b, "acked")
  /\ UNCHANGED <<group, configVars, unit, counter, log, file, cursor, spool,
                 ghosts, nextSeq, poisoned, truncated, rotations, net, moves>>

Refuse(b) ==
  /\ Refused(b)
  /\ Answers(b, "idle")
  /\ UNCHANGED <<group, configVars, unit, counter, log, file, cursor, spool,
                 ghosts, nextSeq, poisoned, truncated, rotations, net, ledger, moves>>

\* No answer in time, or an error: the batch stays for the next report.
Timeout ==
  /\ phase = "sent"
  /\ phase' = "idle"
  /\ Fault
  /\ UNCHANGED <<group, configVars, unit, counter, log, file, cursor, spool,
                 ghosts, nextSeq, poisoned, truncated, rotations, net, ledger, moves>>

DeleteWhenSent == {"sent", "acked"}    \* mutation: any HTTP exchange will do

DeletePhases == {"acked"}

\* remove_durable_batch_at: unlink and sync, unlink without the sync, or fail.
DeleteBatch ==
  /\ phase \in DeletePhases
  /\ phase' = "idle"
  /\ \/ spool' = spool \ {Oldest} /\ ghosts' = {} /\ NoFault
     \/ spool' = spool \ {Oldest} /\ ghosts' = ghosts \cup {Oldest} /\ Fault
     \/ UNCHANGED <<spool, ghosts>> /\ Fault
  /\ UNCHANGED <<group, configVars, unit, counter, log, file, cursor, nextSeq,
                 poisoned, truncated, rotations, net, ledger, moves>>

\* The process restarts, also when poisoning requires it, from its last known
\* good configuration.  Counters and raw connections are gone (nginx goes on),
\* and an unsynced unlink may not have happened.
Crash ==
  /\ IF poisoned THEN NoFault ELSE Fault
  /\ \E back \in SUBSET ghosts : spool' = spool \cup back
  /\ ghosts' = {} /\ counter' = {} /\ phase' = "idle" /\ poisoned' = FALSE
  /\ tag' = [r \in Rules |-> IF tag[r] = Unmapped THEN Unmapped ELSE Len(maps)]
  /\ open' = {c \in open : c.rule \in SniRules} \cup Accepting(tag', Len(maps))
  /\ UNCHANGED <<group, maps, unit, log, file, cursor, nextSeq, truncated, rotations,
                 net, ledger, moves>>

Next ==
  \/ \E r \in Rules, place \in Places : MoveRule(r, place)
  \/ \E changed \in SUBSET Rules : Deliver(changed)
  \/ RefreshSniDns
  \/ \E c \in open : Forward(c)
  \/ SealCounters
  \/ SealFails
  \/ CommitCounters
  \/ RecoverCheckpoint
  \/ PrepareStateForFile
  \/ SealSegment
  \/ AdvanceCursor
  \/ RotateLog
  \/ Send
  \/ \E b \in net : Settle(b)
  \/ \E b \in net : Refuse(b)
  \/ Timeout
  \/ DeleteBatch
  \/ Crash

Spec == Init /\ [][Next]_vars

\* The poll loop ingests and reports on every iteration, the panel answers,
\* and a poisoned process ("restart required") is restarted.
Fairness ==
  /\ WF_vars(CommitCounters) /\ WF_vars(AdvanceCursor)
  /\ WF_vars(RecoverCheckpoint) /\ WF_vars(PrepareStateForFile)
  /\ WF_vars(Send) /\ WF_vars(DeleteBatch)
  /\ WF_vars(\E b \in net : phase = "sent" /\ b = Oldest /\ Settle(b))
  /\ WF_vars(Crash /\ poisoned)

FairSpec == Spec /\ Fairness
-----------------------------------------------------------------------------
(* Properties *)

Sealed == spool \cup ghosts
Settled == {ledger[i] : i \in DOMAIN ledger}

\* No unit is in two batches, sealed or settled, whatever crashes come between
\* the batch and the counter or cursor that gives its bytes up.
NoUnitInTwoBatches ==
  \A b, c \in Sealed \cup Settled : b.seq # c.seq => b.units \cap c.units = {}

\* The panel settles each batch once, in the order the node sealed them,
\* although requests are repeated and arrive late.
SettledOnceInSealOrder ==
  \A i, j \in DOMAIN ledger : i < j => ledger[i].seq < ledger[j].seq

\* The durable cursor passes only lines that a batch already holds, across
\* crashes and rotations.  A truncation in place that is refilled before the
\* next ingestion cannot be told from growth, and is left out.
CursorPassesOnlySealed ==
  [][cursor'.gen = cursor.gen /\ cursor'.file = file /\ ~truncated =>
       \A i \in cursor.off + 1 .. cursor'.off : i \in DOMAIN log =>
         \E b \in Sealed \cup Settled : log[i] \in b.units]_vars

\* Traffic of a listener that carries the revision in force when the
\* connection was accepted is billed to the group the rule had in that
\* revision or to nobody: a move never charges the new group for old bytes.
BilledWhereForwarded ==
  \A e \in Settled : \A u \in e.units :
    unit[u].rev = unit[u].since /\ maps[unit[u].since] # HomeOnly =>
      e.to[unit[u].rule] \in {maps[unit[u].since][unit[u].rule], Unbillable}

\* The accounting implements the abstract ledger: no durable unit is lost and
\* no settled one comes back.
Unread == {log[i] : i \in {k \in DOMAIN log : cursor.file # file \/ k > cursor.off}}

StageOf(u) ==
  IF u > Len(unit) THEN "unseen"
  ELSE IF \E e \in Settled : u \in e.units THEN "settled"
  ELSE IF \E b \in Sealed : u \in b.units THEN "durable"
  ELSE IF u \in counter \cup {log[i] : i \in DOMAIN log} THEN "volatile" ELSE "lost"

Books == INSTANCE TrafficLedger WITH stage <- [u \in Units |-> StageOf(u)]

ImplementsTrafficLedger == Books!LedgerSpec

\* A sealed batch is eventually settled, unless the oldest batch is one that
\* the panel refuses: the spool is strictly FIFO.
SealedEventuallySettles ==
  \A s \in 1..MaxSeq :
    (\E b \in spool : b.seq = s)
      ~> \/ \E e \in Settled : e.seq = s
         \/ spool # {} /\ Refused(Oldest)

\* sqlite_repo/traffic.rs: legitimate post-move traffic coexists with pre-move
\* history.  A connection accepted under a revision that has the rule in its
\* present group is billed.
PostMoveTrafficBilled ==
  [][\A e \in {ledger'[i] : i \in DOMAIN ledger' \ DOMAIN ledger} :
       \A u \in e.units : e.to[unit[u].rule] = Unbillable =>
         maps[unit[u].since][unit[u].rule] # group[unit[u].rule]]_vars
=============================================================================

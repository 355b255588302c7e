----------------------- MODULE TrafficAccountingProofs -----------------------
(***************************************************************************)
(* Proofs about TrafficAccounting for every number of rules, groups,       *)
(* revisions, units, batches and faults: its types, its four safety        *)
(* properties and the refinement of TrafficLedger.                         *)
(*                                                                         *)
(* The argument.  A sequence number names one batch for ever (Sequenced),  *)
(* because the counter is durable before the batch is.  The spool is       *)
(* drained oldest first and one request at a time, so that everything that *)
(* is late on the network is settled already (Fifo), and settlements come  *)
(* in the order of the seals.  The durable cursor stands behind every      *)
(* batch of the access log, or before exactly one, which is still in the   *)
(* spool and moves it first (CursorFollows); a file that was replaced      *)
(* starts a generation of its own (GenerationsFollow).  So the lines from  *)
(* the cursor on, and what is left in the counters, are in no batch (Once),*)
(* and whatever is sealed next is new.                                     *)
(*                                                                         *)
(* The liveness property is left to model checking.                        *)
(***************************************************************************)
EXTENDS TrafficAccounting, FiniteSetTheorems, SequenceTheorems, TLAPS

\* A connection the node has accepted, with revisions delivered so far.
Accepted == [rule : Rules, rev : 0..Len(maps), since : 1..Len(maps)]

\* The values of the durable LogState.
Cursors == [file : 1..MaxFiles, gen : 0..MaxFiles, off : 0..MaxUnits,
            seq : 0..MaxSeq]

\* Whom a settlement bills each rule of its batch to.
Bills == UNION {[S -> Groups \cup {Unmapped, Unbillable}] : S \in SUBSET Rules}

\* The entries of the panel's ledger.
Settlements == [seq : 1..MaxSeq, rev : 0..MaxRev, units : SUBSET Units, to : Bills]

\* Ownership, the delivered maps, and the tags of the listeners.
ConfigTyped ==
  /\ group \in [Rules -> Places]
  /\ maps \in Seq({HomeOnly} \cup [Rules -> Groups \cup {Unmapped}])
  /\ Len(maps) \in 1..MaxRev
  /\ tag \in [Rules -> {Unmapped} \cup 0..Len(maps)]
  /\ open \subseteq Accepted
  /\ moves \in 0..MaxMoves /\ faults \in 0..MaxFaults

\* Every unit in memory, in the log or in a batch has been forwarded.
TrafficTyped ==
  /\ unit \in Seq(Accepted) /\ Len(unit) <= MaxUnits
  /\ counter \subseteq 1..Len(unit)
  /\ log \in Seq(1..Len(unit)) /\ Len(log) <= Len(unit)
  /\ rotations \in 0..MaxFiles - 1
  /\ file \in 1..rotations + 1
  /\ truncated \in BOOLEAN

\* The cursor, the batches in the spool and on the network, the ledger.
BooksTyped ==
  /\ cursor \in Cursors
  /\ spool \subseteq Batches /\ ghosts \subseteq Batches /\ net \subseteq Batches
  /\ nextSeq \in 1..MaxSeq + 1
  /\ phase \in Phases /\ poisoned \in BOOLEAN
  /\ ledger \in Seq(Settlements)

\* The type invariant, with bounds that grow with the history.
Typed == ConfigTyped /\ TrafficTyped /\ BooksTyped


\* Sequence numbers name batches: a request in flight, an unlinked file and a
\* settled entry with the same number are the same batch.
Sequenced ==
  /\ \A b \in spool \cup ghosts \cup net : b.seq < nextSeq
  /\ \A i \in DOMAIN ledger : ledger[i].seq < nextSeq
  /\ \A b, c \in spool \cup ghosts \cup net : b.seq = c.seq => b = c
  /\ \A b \in spool \cup ghosts \cup net : \A i \in DOMAIN ledger :
       ledger[i].seq = b.seq => ledger[i].units = b.units

\* Batches are made of forwarded units, each of one revision.
UnitsKnown ==
  /\ \A b \in spool \cup ghosts \cup net : \A u \in b.units :
       u \in 1..Len(unit) /\ unit[u].rev = b.rev
  /\ \A i \in DOMAIN ledger : ledger[i].units \subseteq 1..Len(unit)

\* Only the oldest batch is ever unapplied and in flight.
Fifo ==
  /\ \A g \in ghosts : Applied(g)
  /\ \A b \in net : \/ Applied(b)
                    \/ b \in spool /\ \A c \in spool : Applied(c) \/ b.seq <= c.seq
  /\ \A c \in spool : Applied(c) \/ \A i \in DOMAIN ledger : ledger[i].seq < c.seq
  /\ phase \in {"sent", "acked"} => spool # {} /\ Oldest \in net /\ Ready(Oldest)
  /\ phase = "acked" => Applied(Oldest)

\* The batch just sealed is the one whose counter or cursor is given up next.
PhaseFollows ==
  /\ phase = "commit" => \E b \in spool : b.seq = nextSeq - 1 /\ b.origin = Counters
  /\ phase = "cursor" => \E b \in Recoverable : b.seq = nextSeq - 1

\* The durable cursor stands behind every batch of the log, or before exactly
\* one, which is still in the spool.
Crossed(b) ==
  \/ cursor.gen > b.origin.gen
  \/ /\ cursor.gen = b.origin.gen /\ cursor.file = b.origin.file
     /\ cursor.off >= b.origin.end

CursorFollows ==
  /\ \A b \in spool \cup ghosts : b.origin # Counters =>
       /\ b.origin.start < b.origin.end /\ b.origin.file <= file
       /\ Crossed(b) \/ b \in Recoverable
  /\ \A b \in ghosts : b.origin # Counters => Crossed(b)
  /\ \A b, c \in Recoverable : b = c

\* A generation begins only after a rotation or a truncation.
GenerationsFollow ==
  /\ cursor.gen <= rotations
  /\ FileReplaced => cursor.gen < rotations
  /\ \A b \in spool \cup ghosts : b.origin # Counters =>
       /\ b.origin.gen <= rotations
       /\ b.origin.file # file \/ b.origin.end > Len(log) => b.origin.gen < rotations

-----------------------------------------------------------------------------
(* The batches the node seals.                                             *)

\* A set of sequence numbers has a least one: oldest_queue_batch finds a batch
\* whenever the spool has one.
LEMMA LeastExists ==
  ASSUME NEW S \in SUBSET Nat, S # {}
  PROVE  \E m \in S : \A n \in S : m <= n
<1> DEFINE T == {0 .. n : n \in S}
           R == StrictSubsetOrdering(Nat)
<1>1. \A n \in S : 0 .. n \in FiniteSubsetsOf(Nat)
  BY FS_Interval DEF FiniteSubsetsOf
<1>2. T \subseteq FiniteSubsetsOf(Nat) /\ T # {}
  BY <1>1
<1>3. IsWellFoundedOn(R, FiniteSubsetsOf(Nat))
  BY FS_StrictSubsetOrderingWellFounded
<1>4. \E t \in T : \A u \in T : <<u, t>> \notin R
  <2> HIDE DEF T, R
  <2> QED
    BY <1>2, <1>3, WFMin
<1>5. PICK m \in S : \A n \in S : <<0 .. n, 0 .. m>> \notin R
  BY <1>4
<1>6. ASSUME NEW n \in S, n < m PROVE FALSE
  <2>1. m \in 0 .. m /\ m \notin 0 .. n /\ 0 .. n \subseteq 0 .. m
    BY <1>6
  <2>2. <<0 .. n, 0 .. m>> \in R
    BY <2>1 DEF StrictSubsetOrdering
  <2>3. QED
    BY <1>5, <2>2
<1>7. QED
  BY <1>6

\* The batch the reporter sends is in the spool and has the least number.
LEMMA OldestIsFirst ==
  ASSUME spool \subseteq Batches, spool # {}, MaxSeq \in Nat
  PROVE  /\ Oldest \in spool
         /\ \A c \in spool : Oldest.seq <= c.seq
<1>1. {b.seq : b \in spool} \in SUBSET Nat /\ {b.seq : b \in spool} # {}
  BY DEF Batches
<1>2. PICK m \in {b.seq : b \in spool} : \A n \in {b.seq : b \in spool} : m <= n
  BY <1>1, LeastExists
<1>3. PICK b \in spool : b.seq = m
  BY <1>2
<1>4. \A c \in spool : b.seq <= c.seq
  BY <1>2, <1>3
<1>5. QED
  BY <1>4 DEF Oldest

\* The revision of a forwarded unit's connection.
LEMMA UnitTyped ==
  ASSUME Typed, NEW u \in 1..Len(unit)
  PROVE  /\ unit[u] \in Accepted /\ unit[u].rule \in Rules
         /\ unit[u].rev \in 0..Len(maps) /\ unit[u].since \in 1..Len(maps)
         /\ unit[u].rev \in 0..MaxRev /\ u \in Units
<1>1. unit \in Seq(Accepted) /\ Len(unit) <= MaxUnits /\ Len(maps) \in 1..MaxRev
  BY DEF Typed, TrafficTyped, ConfigTyped
<1>2. unit[u] \in Accepted /\ Len(unit) \in Nat
  BY <1>1
<1>3. QED
  BY <1>1, <1>2, BoundsAreNaturals DEF Accepted, Units

\* The lines of the access log are forwarded units.
LEMMA LogTyped ==
  ASSUME Typed
  PROVE  /\ Len(log) \in Nat /\ Len(log) <= MaxUnits /\ DOMAIN log = 1..Len(log)
         /\ \A i \in 1..Len(log) : log[i] \in 1..Len(unit)
<1>1. unit \in Seq(Accepted) /\ Len(unit) <= MaxUnits
  BY DEF Typed, TrafficTyped
<1>2. log \in Seq(1..Len(unit)) /\ Len(log) <= Len(unit) /\ Len(unit) \in Nat
  BY <1>1 DEF Typed, TrafficTyped
<1>3. QED
  BY <1>1, <1>2, BoundsAreNaturals

\* What TrafficCounter's snapshot seals: units of the counters, all of the
\* oldest revision they hold.
LEMMA CounterBatchIs ==
  ASSUME Typed, counter # {}, nextSeq <= MaxSeq
  PROVE  /\ CounterBatch \in Batches
         /\ CounterBatch.seq = nextSeq
         /\ CounterBatch.origin = Counters
         /\ CounterBatch.units \subseteq counter
         /\ \A u \in CounterBatch.units : unit[u].rev = CounterBatch.rev
<1> USE BoundsAreNaturals
<1>1. \A u \in counter : u \in Units /\ unit[u].rev \in 0..MaxRev
  BY UnitTyped DEF Typed, TrafficTyped
<1>2. {unit[u].rev : u \in counter} \in SUBSET Nat /\ {unit[u].rev : u \in counter} # {}
  BY <1>1
<1>3. \E v \in {unit[u].rev : u \in counter} : \A u \in counter : v <= unit[u].rev
  <2>1. PICK m \in {unit[u].rev : u \in counter} :
               \A n \in {unit[u].rev : u \in counter} : m <= n
    BY <1>2, LeastExists
  <2>2. QED
    BY <2>1
<1>4. OldestRevision \in 0..MaxRev
  BY <1>1, <1>3 DEF OldestRevision
<1>5. Snapshot \subseteq counter /\ counter \subseteq Units
  BY <1>1 DEF Snapshot
<1>6. nextSeq \in 1..MaxSeq
  BY DEF Typed, BooksTyped
<1>7. \A u \in Snapshot : unit[u].rev = OldestRevision
  BY DEF Snapshot
<1>8. QED
  <2> HIDE DEF OldestRevision, Snapshot
  <2> QED
    BY <1>4, <1>5, <1>6, <1>7 DEF CounterBatch, Batches

\* What one ingestion seals: the lines from the cursor to the end of the
\* segment, all of one revision, with the checkpoint they begin and end at.
LEMMA LogBatchIs ==
  ASSUME Typed, cursor.off < Len(log), nextSeq <= MaxSeq
  PROVE  /\ LogBatch \in Batches
         /\ LogBatch.seq = nextSeq
         /\ LogBatch.origin \in Checkpoints
         /\ LogBatch.origin.file = file
         /\ LogBatch.origin.gen = cursor.gen
         /\ LogBatch.origin.start = cursor.off
         /\ LogBatch.origin.end = SegmentEnd
         /\ LogBatch.units = Segment
         /\ SegmentEnd \in cursor.off + 1 .. Len(log)
         /\ \A u \in LogBatch.units : unit[u].rev = LogBatch.rev
<1> DEFINE a == cursor.off + 1
           rev(i) == unit[log[i]].rev
           Ends == {n \in a .. Len(log) : n = Len(log) \/ rev(n + 1) # rev(a)}
<1>1. /\ cursor.off \in Nat /\ Len(log) \in Nat
      /\ cursor.off < Len(log) /\ Len(log) <= MaxUnits
  BY LogTyped, BoundsAreNaturals DEF Typed, BooksTyped, Cursors
<1>0. cursor.gen \in 0..MaxFiles /\ file \in 1..MaxFiles
  BY BoundsAreNaturals DEF Typed, BooksTyped, TrafficTyped, Cursors
<1>2. \A i \in 1..Len(log) : log[i] \in Units /\ rev(i) \in 0..MaxRev
  BY LogTyped, UnitTyped
<1>3. Ends \in SUBSET Nat /\ Ends # {}
  <2>1. Len(log) \in Ends
    BY <1>1
  <2>2. QED
    BY <2>1, <1>1
<1>4. PICK m \in Ends : \A n \in Ends : m <= n
  <2> HIDE DEF Ends
  <2> QED
    BY <1>3, LeastExists
<1>5. \A i \in a .. m : rev(i) = rev(a)
  <2> SUFFICES ASSUME NEW i \in a .. m, rev(i) # rev(a) PROVE FALSE
    OBVIOUS
  <2>1. i - 1 \in a .. Len(log) /\ (i - 1) + 1 = i /\ i - 1 < m
    BY <1>1
  <2>2. i - 1 \in Ends
    BY <2>1
  <2>3. m <= i - 1
    <3> HIDE DEF Ends
    <3> QED
      BY <1>4, <2>2
  <2>4. QED
    BY <1>1, <2>1, <2>3
<1>6. m < Len(log) => rev(m + 1) # rev(m)
  <2>1. m \in a .. m /\ (m = Len(log) \/ rev(m + 1) # rev(a))
    BY <1>1, <1>4
  <2>2. rev(m) = rev(a)
    BY <1>5, <2>1
  <2>3. QED
    BY <1>1, <2>1, <2>2
<1>7. /\ SegmentEnd \in a .. Len(log)
      /\ \A i \in a .. SegmentEnd : rev(i) = rev(a)
  <2>1. /\ m \in cursor.off + 1 .. Len(log)
        /\ \A i \in cursor.off + 1 .. m : unit[log[i]].rev = unit[log[cursor.off + 1]].rev
        /\ m < Len(log) => unit[log[m + 1]].rev # unit[log[m]].rev
    BY <1>4, <1>5, <1>6
  <2>2. QED
    BY <2>1 DEF SegmentEnd
<1>8. Segment \in SUBSET Units
  <2>1. \A i \in cursor.off + 1 .. SegmentEnd : log[i] \in Units
    BY <1>1, <1>2, <1>7
  <2>2. QED
    BY <2>1 DEF Segment
<1>9. \A u \in Segment : unit[u].rev = rev(a)
  BY <1>7 DEF Segment
<1>10. rev(a) \in 0..MaxRev /\ nextSeq \in 1..MaxSeq /\ SegmentEnd \in 0..MaxUnits
  <2>1. a \in 1..Len(log)
    BY <1>1
  <2>2. rev(a) \in 0..MaxRev
    BY <1>2, <2>1
  <2>3. QED
    BY <1>1, <1>7, <2>2, BoundsAreNaturals DEF Typed, BooksTyped
<1>11. QED
  <2> HIDE DEF SegmentEnd, Segment
  <2> QED
    BY <1>0, <1>1, <1>7, <1>8, <1>9, <1>10, BoundsAreNaturals DEF LogBatch, Batches, Checkpoints

\* The fields of a batch.
LEMMA BatchTyped ==
  ASSUME BooksTyped, NEW b \in spool \cup ghosts \cup net
  PROVE  /\ b \in Batches /\ b.seq \in 1..MaxSeq /\ b.rev \in 0..MaxRev
         /\ b.units \subseteq Units
         /\ b.origin # Counters =>
              /\ b.origin \in Checkpoints
              /\ b.origin.file \in 1..MaxFiles /\ b.origin.gen \in 0..MaxFiles
              /\ b.origin.start \in 0..MaxUnits /\ b.origin.end \in 0..MaxUnits
BY DEF BooksTyped, Batches, Checkpoints

\* The batch whose number was reserved last is the one a seal is completed for.
LEMMA NewestIs ==
  ASSUME BooksTyped, Sequenced, NEW b \in spool, b.seq = nextSeq - 1
  PROVE  Newest = b
<1>1. \A c \in spool : c.seq \in 1..MaxSeq /\ c.seq < nextSeq
  BY BatchTyped DEF Sequenced
<1>2. nextSeq \in 1..MaxSeq + 1
  BY DEF BooksTyped
<1>3. \A c \in spool : c.seq <= b.seq
  BY <1>1, <1>2, BoundsAreNaturals
<1>4. \A d \in spool : (\A c \in spool : c.seq <= d.seq) => d = b
  <2> SUFFICES ASSUME NEW d \in spool, \A c \in spool : c.seq <= d.seq PROVE d = b
    OBVIOUS
  <2>1. d.seq = b.seq
    BY <1>1, <1>3, BoundsAreNaturals
  <2>2. QED
    BY <2>1 DEF Sequenced
<1>5. QED
  BY <1>3, <1>4 DEF Newest

-----------------------------------------------------------------------------
(* Types.                                                                  *)

\* The map a revision is delivered with names served groups only.
LEMMA ServedTyped ==
  ASSUME ConfigTyped, NEW exact \in BOOLEAN
  PROVE  Served(exact) \in [Rules -> Groups \cup {Unmapped}]
BY PlacesAreDistinct DEF Served, ConfigTyped

\* Connections accepted under tags that are known revisions.
LEMMA AcceptingTyped ==
  ASSUME NEW n \in Nat, NEW tags \in [Rules -> {Unmapped} \cup 0..n], NEW since \in 1..n
  PROVE  Accepting(tags, since) \subseteq [rule : Rules, rev : 0..n, since : 1..n]
BY DEF Accepting

\* Moves, deliveries and DNS refreshes keep ownership, maps and tags typed.
LEMMA ConfigStep == ConfigTyped /\ [Next]_vars => ConfigTyped'
<1> SUFFICES ASSUME ConfigTyped, [Next]_vars PROVE ConfigTyped'
  OBVIOUS
<1>0. Len(maps) \in Nat /\ Len(maps) >= 1 /\ Len(maps) <= MaxRev
  BY BoundsAreNaturals DEF ConfigTyped
<1>1. ASSUME UNCHANGED <<group, maps, moves>>,
             tag' \in [Rules -> {Unmapped} \cup 0..Len(maps)],
             open' \subseteq Accepted,
             Fault \/ NoFault
      PROVE  ConfigTyped'
  <2>1. faults' \in 0..MaxFaults
    BY <1>1, BoundsAreNaturals DEF ConfigTyped, Fault, NoFault
  <2>2. QED
    BY <1>1, <2>1 DEF ConfigTyped, Accepted
<1>2. ASSUME UNCHANGED <<group, maps, moves, tag, open>>, Fault \/ NoFault
      PROVE  ConfigTyped'
  BY <1>1, <1>2 DEF ConfigTyped
<1>3. ASSUME NEW r \in Rules, NEW place \in Places, MoveRule(r, place) PROVE ConfigTyped'
  <2>1. group' \in [Rules -> Places] /\ moves' \in 0..MaxMoves
    BY <1>3, BoundsAreNaturals DEF MoveRule, ConfigTyped
  <2>2. QED
    BY <1>3, <2>1 DEF MoveRule, ConfigTyped, configVars, Accepted
<1>4. ASSUME NEW changed \in SUBSET Rules, Deliver(changed) PROVE ConfigTyped'
  <2> DEFINE n == Len(maps) + 1
             Map == {HomeOnly} \cup [Rules -> Groups \cup {Unmapped}]
  <2>1. /\ maps' \in Seq({HomeOnly} \cup [Rules -> Groups \cup {Unmapped}])
        /\ Len(maps') = n /\ n \in Nat /\ n \in 1..MaxRev /\ n \in 1..n
    <3>1. Served(TRUE) \in [Rules -> Groups \cup {Unmapped}]
      BY ServedTyped
    <3>2. maps \in Seq({HomeOnly} \cup [Rules -> Groups \cup {Unmapped}])
      BY DEF ConfigTyped
    <3>3. maps' = Append(maps, Served(TRUE)) /\ Len(maps) < MaxRev
      BY <1>4 DEF Deliver
    <3>4. n \in Nat /\ n \in 1..MaxRev /\ n \in 1..n
      BY <1>0, <3>3, BoundsAreNaturals
    <3>5. maps' \in Seq(Map) /\ Len(maps') = Len(maps) + 1
      <4>1. Served(TRUE) \in Map /\ maps \in Seq(Map)
        BY <3>1, <3>2
      <4> HIDE DEF Map
      <4>2. QED
        BY <3>3, <4>1, AppendProperties
    <3>6. QED
      BY <3>4, <3>5
  <2>2. tag' \in [Rules -> {Unmapped} \cup 0..n]
    <3>1. tag' = Retagged(Served(TRUE), changed)
      BY <1>4 DEF Deliver
    <3>2. \A r \in Rules : tag[r] \in {Unmapped} \cup 0..n
      BY <1>0 DEF ConfigTyped
    <3>3. n \in 0..n
      BY <1>0
    <3>4. QED
      BY <3>1, <3>2, <3>3 DEF Retagged
  <2>3. Accepting(tag', n) \subseteq [rule : Rules, rev : 0..n, since : 1..n]
    <3> HIDE DEF n
    <3> QED
      BY <2>1, <2>2, AcceptingTyped
  <2>4. Accepted \subseteq [rule : Rules, rev : 0..n, since : 1..n]
    BY <1>0 DEF Accepted
  <2>5. open' \subseteq Accepted'
    <3>1. Accepted' = [rule : Rules, rev : 0..n, since : 1..n]
      BY <2>1 DEF Accepted
    <3>2. open' = open \cup Accepting(tag', n) /\ open \subseteq Accepted
      BY <1>4 DEF Deliver, ConfigTyped
    <3>3. QED
      BY <2>3, <2>4, <3>1, <3>2
  <2>6. group' = group /\ moves' = moves /\ faults' = faults
    BY <1>4 DEF Deliver
  <2>7. QED
    <3> HIDE DEF n
    <3> QED
      BY <2>1, <2>2, <2>5, <2>6 DEF ConfigTyped
<1>5. ASSUME RefreshSniDns PROVE ConfigTyped'
  <2>1. tag' \in [Rules -> {Unmapped} \cup 0..Len(maps)]
    BY <1>0, <1>5 DEF RefreshSniDns, ConfigTyped
  <2>2. Accepting(tag', Len(maps)) \subseteq Accepted
    BY <1>0, <2>1, AcceptingTyped DEF Accepted
  <2>3. QED
    BY <1>1, <1>5, <2>1, <2>2 DEF RefreshSniDns, ConfigTyped, NoFault
<1>6. ASSUME Crash PROVE ConfigTyped'
  <2>1. tag' \in [Rules -> {Unmapped} \cup 0..Len(maps)]
    BY <1>0, <1>6 DEF Crash, ConfigTyped
  <2>2. Accepting(tag', Len(maps)) \subseteq Accepted
    BY <1>0, <2>1, AcceptingTyped DEF Accepted
  <2>3. open' \subseteq Accepted
    BY <1>6, <2>2 DEF Crash, ConfigTyped
  <2>4. UNCHANGED <<group, maps, moves>> /\ (Fault \/ NoFault)
    BY <1>6 DEF Crash
  <2>5. QED
    BY <1>1, <2>1, <2>3, <2>4
<1>7. CASE UNCHANGED vars
  BY <1>2, <1>7 DEF vars, configVars, NoFault
<1>8. ASSUME NEW c \in open, Forward(c) PROVE ConfigTyped'
  BY <1>2, <1>8 DEF Forward, configVars, NoFault
<1>9. ASSUME SealCounters \/ SealFails \/ CommitCounters \/ RecoverCheckpoint
             \/ PrepareStateForFile \/ SealSegment \/ AdvanceCursor \/ RotateLog
      PROVE  ConfigTyped'
  BY <1>2, <1>9 DEF SealCounters, SealFails, CommitCounters, RecoverCheckpoint,
       PrepareStateForFile, SealSegment, AdvanceCursor, RotateLog, WritesCursor,
       configVars, NoFault
<1>10. ASSUME Send \/ (\E b \in net : Settle(b) \/ Refuse(b)) \/ Timeout \/ DeleteBatch
       PROVE  ConfigTyped'
  BY <1>2, <1>10 DEF Send, Settle, Refuse, Answers, Timeout, DeleteBatch,
       configVars, NoFault
<1>11. QED
  BY <1>3, <1>4, <1>5, <1>6, <1>7, <1>8, <1>9, <1>10 DEF Next

\* Forwarding, commits, rotations and crashes keep counters and log typed.
LEMMA TrafficStep == Typed /\ [Next]_vars => TrafficTyped'
<1> SUFFICES ASSUME Typed, [Next]_vars PROVE TrafficTyped'
  OBVIOUS
<1>0. TrafficTyped
  BY DEF Typed
<1>1. ASSUME UNCHANGED <<unit, log, rotations, file, maps>>,
             counter' \subseteq counter, truncated' \in BOOLEAN
      PROVE  TrafficTyped'
  BY <1>0, <1>1 DEF TrafficTyped, Accepted
<1>2. CASE UNCHANGED vars
  BY <1>0, <1>1, <1>2 DEF vars, nodeVars, configVars, TrafficTyped
<1>3. ASSUME NEW r \in Rules, NEW place \in Places, MoveRule(r, place) PROVE TrafficTyped'
  BY <1>0, <1>1, <1>3 DEF MoveRule, nodeVars, configVars, TrafficTyped
<1>4. ASSUME NEW changed \in SUBSET Rules, Deliver(changed) PROVE TrafficTyped'
  <2>1. maps \in Seq({HomeOnly} \cup [Rules -> Groups \cup {Unmapped}])
    BY DEF Typed, ConfigTyped
  <2>2. Len(maps') = Len(maps) + 1 /\ Len(maps) \in Nat
    BY <1>4, <2>1 DEF Deliver
  <2>3. Accepted \subseteq Accepted'
    BY <2>2 DEF Accepted
  <2>4. unit' \in Seq(Accepted')
    <3>1. unit \in Seq(Accepted) /\ unit' = unit
      BY <1>0, <1>4 DEF TrafficTyped, Deliver
    <3>2. \A i \in 1..Len(unit) : unit[i] \in Accepted'
      BY <2>3, <3>1, ElementOfSeq
    <3>3. QED
      BY <3>1, <3>2, IsASeq, LenProperties
  <2>5. UNCHANGED <<unit, counter, log, rotations, file, truncated>>
    BY <1>4 DEF Deliver, nodeVars
  <2>6. QED
    BY <1>0, <2>4, <2>5 DEF TrafficTyped
<1>5. ASSUME RefreshSniDns PROVE TrafficTyped'
  BY <1>0, <1>1, <1>5 DEF RefreshSniDns, nodeVars, TrafficTyped
<1>6. ASSUME NEW c \in open, Forward(c) PROVE TrafficTyped'
  <2> DEFINE n == Len(unit) + 1
  <2>1. /\ unit' \in Seq(Accepted) /\ Len(unit') = n
        /\ Len(unit) \in Nat /\ n \in 1..n /\ Len(unit) < MaxUnits
    <3>1. c \in Accepted /\ unit \in Seq(Accepted)
      BY <1>0 DEF Typed, ConfigTyped, TrafficTyped
    <3>2. unit' = Append(unit, c) /\ Len(unit) < MaxUnits
      BY <1>6 DEF Forward
    <3>3. QED
      BY <3>1, <3>2, AppendProperties
  <2>2. log \in Seq(1..n) /\ Len(log) <= Len(unit) /\ Len(log) \in Nat
    <3>1. log \in Seq(1..Len(unit)) /\ Len(log) <= Len(unit)
      BY <1>0 DEF TrafficTyped
    <3>2. \A i \in 1..Len(log) : log[i] \in 1..n
      BY <2>1, <3>1, ElementOfSeq
    <3>3. QED
      BY <3>1, <3>2, IsASeq, LenProperties
  <2>3. log' \in Seq(1..n) /\ Len(log') <= n
    <3>1. log' = log \/ log' = Append(log, n)
      BY <1>6 DEF Forward
    <3> HIDE DEF n
    <3>2. n \in 1..n /\ Len(log) + 1 <= n
      BY <2>1, <2>2 DEF n
    <3>3. QED
      BY <2>2, <3>1, <3>2, AppendProperties
  <2>4. counter' \subseteq 1..n
    <3>1. counter' = counter \/ counter' = counter \cup {n}
      BY <1>6 DEF Forward
    <3>2. counter \subseteq 1..Len(unit)
      BY <1>0 DEF TrafficTyped
    <3>3. 1..Len(unit) \subseteq 1..n /\ n \in 1..n
      BY <2>1
    <3> HIDE DEF n
    <3>4. QED
      BY <3>1, <3>2, <3>3
  <2>5. Accepted' = Accepted
    BY <1>6 DEF Forward, configVars, Accepted
  <2>6. UNCHANGED <<rotations, file, truncated>>
    BY <1>6 DEF Forward
  <2>7. n <= MaxUnits
    BY <2>1, BoundsAreNaturals
  <2>8. QED
    <3> HIDE DEF n
    <3> QED
      BY <1>0, <2>1, <2>3, <2>4, <2>5, <2>6, <2>7 DEF TrafficTyped
<1>7. ASSUME RotateLog PROVE TrafficTyped'
  <2>1. rotations' \in 0..MaxFiles - 1 /\ file' \in 1..rotations' + 1
    BY <1>0, <1>7, BoundsAreNaturals DEF RotateLog, TrafficTyped
  <2>2. log' = << >> /\ UNCHANGED <<unit, counter, maps>> /\ truncated' \in BOOLEAN
    <3>1. truncated' = (truncated \/ file' = file)
      BY <1>7 DEF RotateLog
    <3>2. truncated' \in BOOLEAN
      BY <3>1
    <3>3. QED
      BY <1>7, <3>2 DEF RotateLog, configVars
  <2>3. unit \in Seq(Accepted) /\ Len(unit) \in Nat /\ Len(unit) <= MaxUnits
    BY <1>0 DEF TrafficTyped
  <2>4. log' \in Seq(1..Len(unit)) /\ Len(log') <= Len(unit)
    BY <2>2, <2>3
  <2>5. QED
    BY <1>0, <2>1, <2>2, <2>3, <2>4 DEF TrafficTyped, Accepted
<1>8. ASSUME SealCounters \/ SealFails \/ CommitCounters \/ RecoverCheckpoint
             \/ PrepareStateForFile \/ SealSegment \/ AdvanceCursor
      PROVE  TrafficTyped'
  <2>1. UNCHANGED <<unit, log, rotations, file, maps>> /\ counter' \subseteq counter
    BY <1>8 DEF SealCounters, SealFails, CommitCounters, RecoverCheckpoint,
         PrepareStateForFile, SealSegment, AdvanceCursor, configVars
  <2>2. truncated' = truncated \/ truncated' = FALSE
    BY <1>8 DEF SealCounters, SealFails, CommitCounters, RecoverCheckpoint,
         PrepareStateForFile, SealSegment, AdvanceCursor
  <2>3. QED
    BY <1>0, <1>1, <2>1, <2>2 DEF TrafficTyped
<1>9. ASSUME Send \/ (\E b \in net : Settle(b) \/ Refuse(b)) \/ Timeout \/ DeleteBatch \/ Crash
      PROVE  TrafficTyped'
  <2>1. UNCHANGED <<unit, log, rotations, file, maps, truncated>> /\ counter' \subseteq counter
    BY <1>9 DEF Send, Settle, Refuse, Timeout, DeleteBatch, Crash, configVars
  <2>2. QED
    BY <1>0, <1>1, <2>1 DEF TrafficTyped
<1>10. QED
  BY <1>2, <1>3, <1>4, <1>5, <1>6, <1>7, <1>8, <1>9 DEF Next

\* A durable cursor write of a batch of the log keeps the cursor's type.
LEMMA WriteTyped ==
  ASSUME BooksTyped, NEW b \in spool, b.origin # Counters, WritesCursor(CursorAfter(b))
  PROVE  /\ cursor' \in Cursors /\ poisoned' \in BOOLEAN
         /\ cursor' \in {cursor, CursorAfter(b)}
<1>1. b.origin \in Checkpoints /\ b.seq \in 1..MaxSeq /\ cursor \in Cursors
  BY BatchTyped DEF BooksTyped
<1>2. CursorAfter(b) \in Cursors
  BY <1>1, BoundsAreNaturals DEF CursorAfter, Cursors, Checkpoints
<1>3. cursor' \in {cursor, CursorAfter(b)}
  BY DEF WritesCursor
<1>4. poisoned' \in BOOLEAN
  BY DEF WritesCursor, BooksTyped
<1>5. QED
  BY <1>1, <1>2, <1>3, <1>4

\* What the two sealing steps have in common.
Seals(b) ==
  /\ phase = "idle" /\ ~poisoned
  /\ nextSeq <= MaxSeq /\ nextSeq' = nextSeq + 1
  /\ \/ Installed(b) /\ phase' \in {"commit", "cursor"}
     \/ InstallUncertain(b) /\ phase' = phase
  /\ UNCHANGED <<maps, unit, counter, log, file, cursor, truncated, rotations, net, ledger>>

\* A report seals the counters, and only when there is something to seal.
LEMMA SealCountersSeals ==
  ASSUME Typed, SealCounters
  PROVE  Seals(CounterBatch) /\ counter # {}
BY DEF SealCounters, Reserve, Seals, configVars

\* An ingestion seals a segment when no batch is left to recover and the file
\* is the one of the cursor.
LEMMA SealSegmentSeals ==
  ASSUME Typed, SealSegment
  PROVE  Seals(LogBatch) /\ Recoverable = {} /\ ~FileReplaced /\ cursor.off < Len(log)
BY DEF SealSegment, Reserve, Seals, configVars

\* Sealing a batch keeps the books typed, whatever the write comes to.
LEMMA SealsTyped ==
  ASSUME BooksTyped, NEW b \in Batches, Seals(b)
  PROVE  BooksTyped'
<1>1. spool' \subseteq Batches /\ ghosts' \subseteq Batches /\ net' \subseteq Batches
  BY DEF Seals, Installed, InstallUncertain, BooksTyped
<1>2. nextSeq' \in 1..MaxSeq + 1
  BY BoundsAreNaturals DEF Seals, BooksTyped
<1>3. phase' \in Phases
  BY DEF Seals, BooksTyped, Phases
<1>4. poisoned' \in BOOLEAN
  BY DEF Seals, Installed, InstallUncertain, BooksTyped
<1>5. cursor' = cursor /\ ledger' = ledger
  BY DEF Seals
<1>6. QED
  BY <1>1, <1>2, <1>3, <1>4, <1>5 DEF BooksTyped

\* What the panel writes for a batch that it does not refuse.
LEMMA SettlementTyped ==
  ASSUME Typed, UnitsKnown, NEW b \in net
  PROVE  Settlement(b) \in Settlements
<1>1. /\ b.seq \in 1..MaxSeq /\ b.rev \in 0..MaxRev /\ b.units \subseteq Units
  BY BatchTyped DEF Typed
<1>2. \A r \in RulesOf(b) : r \in Rules /\ b.rev <= Len(maps)
  <2>1. \A u \in b.units : u \in 1..Len(unit) /\ unit[u].rev = b.rev
    BY DEF UnitsKnown
  <2>2. \A u \in b.units : unit[u].rule \in Rules /\ unit[u].rev <= Len(maps)
    BY <2>1, UnitTyped, BoundsAreNaturals DEF Typed, ConfigTyped
  <2>3. QED
    BY <2>1, <2>2 DEF RulesOf
<1>3. ASSUME NEW r \in RulesOf(b) PROVE BillTo(b, r) \in Groups \cup {Unmapped, Unbillable}
  <2>1. CASE HomeAccounting(b)
    BY <2>1, PlacesAreDistinct DEF BillTo
  <2>2. CASE ~HomeAccounting(b)
    <3>1. b.rev \in 1..Len(maps) /\ maps[b.rev] # HomeOnly
      BY <1>1, <1>2, <1>3, <2>2, BoundsAreNaturals DEF HomeAccounting, Typed, ConfigTyped
    <3>2. maps[b.rev] \in [Rules -> Groups \cup {Unmapped}]
      BY <3>1, ElementOfSeq DEF Typed, ConfigTyped
    <3>3. QED
      BY <1>2, <2>2, <3>2 DEF BillTo
  <2>3. QED
    BY <2>1, <2>2
<1>4. [r \in RulesOf(b) |-> BillTo(b, r)] \in Bills
  <2> DEFINE to == [r \in RulesOf(b) |-> BillTo(b, r)]
             Way(S) == [S -> Groups \cup {Unmapped, Unbillable}]
  <2>1. to \in Way(RulesOf(b))
    BY <1>3
  <2>2. RulesOf(b) \in SUBSET Rules
    BY <1>2
  <2>3. Bills = UNION {Way(S) : S \in SUBSET Rules}
    BY DEF Bills
  <2> HIDE DEF to, Way
  <2>4. Way(RulesOf(b)) \in {Way(S) : S \in SUBSET Rules}
    BY <2>2
  <2>5. to \in Bills
    BY <2>1, <2>3, <2>4
  <2>6. QED
    BY <2>5 DEF to
<1>5. QED
  <2> HIDE DEF Bills
  <2> QED
    BY <1>1, <1>4 DEF Settlement, Settlements

\* The part of the invariant that orders batches, cursor and generations.
IInv == /\ Typed /\ Sequenced /\ UnitsKnown /\ Fifo
        /\ PhaseFollows /\ CursorFollows /\ GenerationsFollow

\* Every step of the node and of the panel keeps the books typed.
LEMMA BooksStep == IInv /\ [Next]_vars => BooksTyped'
<1> SUFFICES ASSUME IInv, [Next]_vars PROVE BooksTyped'
  OBVIOUS
<1>0. Typed /\ BooksTyped
  BY DEF IInv, Typed
<1>1. ASSUME UNCHANGED <<cursor, spool, ghosts, nextSeq, poisoned, net, ledger>>,
             phase' \in Phases
      PROVE  BooksTyped'
  BY <1>0, <1>1 DEF BooksTyped
<1>2. ASSUME SealCounters PROVE BooksTyped'
  <2>1. Seals(CounterBatch) /\ counter # {} /\ nextSeq <= MaxSeq
    BY <1>0, <1>2, SealCountersSeals DEF Seals
  <2>2. QED
    BY <1>0, <2>1, CounterBatchIs, SealsTyped
<1>3. ASSUME SealSegment PROVE BooksTyped'
  <2>1. Seals(LogBatch) /\ cursor.off < Len(log) /\ nextSeq <= MaxSeq
    BY <1>0, <1>3, SealSegmentSeals DEF Seals
  <2>2. QED
    BY <1>0, <2>1, LogBatchIs, SealsTyped
<1>4. ASSUME SealFails PROVE BooksTyped'
  <2>1. nextSeq' \in 1..MaxSeq + 1
    BY <1>0, <1>4, BoundsAreNaturals DEF SealFails, Reserve, BooksTyped
  <2>2. QED
    BY <1>0, <1>4, <2>1 DEF SealFails, BooksTyped
<1>5. ASSUME RecoverCheckpoint PROVE BooksTyped'
  <2>1. PICK b \in Recoverable : WritesCursor(CursorAfter(b))
    BY <1>5 DEF RecoverCheckpoint
  <2>2. b \in spool /\ b.origin # Counters
    BY DEF Recoverable
  <2>3. cursor' \in Cursors /\ poisoned' \in BOOLEAN
    BY <1>0, <2>1, <2>2, WriteTyped
  <2>4. QED
    BY <1>0, <1>5, <2>3 DEF RecoverCheckpoint, BooksTyped
<1>6. ASSUME AdvanceCursor PROVE BooksTyped'
  <2>1. PICK b \in Recoverable : b.seq = nextSeq - 1
    BY <1>6 DEF AdvanceCursor, IInv, PhaseFollows
  <2>2. b \in spool /\ b.origin # Counters
    BY DEF Recoverable
  <2>3. Newest = b
    BY <1>0, <2>1, <2>2, NewestIs DEF IInv
  <2>4. cursor' \in Cursors /\ poisoned' \in BOOLEAN
    BY <1>0, <1>6, <2>2, <2>3, WriteTyped DEF AdvanceCursor, CursorFor
  <2>5. QED
    BY <1>0, <1>6, <2>4 DEF AdvanceCursor, BooksTyped, Phases
<1>7. ASSUME PrepareStateForFile PROVE BooksTyped'
  <2>1. cursor.gen < rotations /\ cursor.gen \in Nat /\ cursor.seq \in 0..MaxSeq
    BY <1>0, <1>7 DEF PrepareStateForFile, IInv, GenerationsFollow, BooksTyped, Cursors
  <2>2. rotations \in 0..MaxFiles - 1 /\ file \in 1..rotations + 1
    BY <1>0 DEF Typed, TrafficTyped
  <2>3. cursor.gen + 1 \in 0..MaxFiles /\ file \in 1..MaxFiles /\ 0 \in 0..MaxUnits
    BY <2>1, <2>2, BoundsAreNaturals
  <2>4. NextGeneration \in Cursors
    BY <2>1, <2>3 DEF NextGeneration, Cursors
  <2>5. QED
    BY <1>0, <1>7, <2>4 DEF PrepareStateForFile, BooksTyped
<1>8. ASSUME Send PROVE BooksTyped'
  <2>1. Oldest \in spool
    BY <1>0, <1>8, OldestIsFirst, BoundsAreNaturals DEF Send, BooksTyped
  <2>2. QED
    BY <1>0, <1>8, <2>1 DEF Send, BooksTyped, Phases
<1>9. ASSUME NEW b \in net, Settle(b) PROVE BooksTyped'
  <2>1. Settlement(b) \in Settlements
    BY <1>0, SettlementTyped DEF IInv
  <2>2. ledger' \in Seq(Settlements)
    <3>1. ledger \in Seq(Settlements)
      BY <1>0 DEF BooksTyped
    <3>2. ledger' = ledger \/ ledger' = Append(ledger, Settlement(b))
      BY <1>9 DEF Settle
    <3>3. QED
      BY <2>1, <3>1, <3>2, AppendProperties
  <2>3. phase' \in Phases
    BY <1>0, <1>9 DEF Settle, Answers, BooksTyped, Phases
  <2>4. QED
    BY <1>0, <1>9, <2>2, <2>3 DEF Settle, BooksTyped
<1>10. ASSUME NEW b \in net, Refuse(b) PROVE BooksTyped'
  BY <1>0, <1>1, <1>10 DEF Refuse, Answers, BooksTyped, Phases
<1>11. ASSUME DeleteBatch PROVE BooksTyped'
  <2>1. Oldest \in spool
    BY <1>0, <1>11, OldestIsFirst, BoundsAreNaturals
       DEF DeleteBatch, DeletePhases, BooksTyped, IInv, Fifo
  <2>2. spool' \subseteq spool /\ ghosts' \subseteq ghosts \cup {Oldest}
    BY <1>11 DEF DeleteBatch
  <2>3. QED
    BY <1>0, <1>11, <2>1, <2>2 DEF DeleteBatch, BooksTyped, Phases
<1>12. ASSUME Crash PROVE BooksTyped'
  <2>1. spool' \subseteq spool \cup ghosts
    BY <1>12 DEF Crash
  <2>2. QED
    BY <1>0, <1>12, <2>1 DEF Crash, BooksTyped, Phases
<1>13. CASE UNCHANGED vars
  BY <1>0, <1>1, <1>13 DEF vars, nodeVars, BooksTyped
<1>14. ASSUME \/ \E r \in Rules, place \in Places : MoveRule(r, place)
              \/ \E changed \in SUBSET Rules : Deliver(changed)
              \/ RefreshSniDns \/ (\E c \in open : Forward(c)) \/ RotateLog
              \/ CommitCounters \/ Timeout
       PROVE  BooksTyped'
  BY <1>0, <1>1, <1>14 DEF MoveRule, Deliver, RefreshSniDns, Forward, RotateLog,
       CommitCounters, Timeout, nodeVars, BooksTyped, Phases
<1>15. QED
  BY <1>2, <1>3, <1>4, <1>5, <1>6, <1>7, <1>8, <1>9, <1>10, <1>11, <1>12, <1>13, <1>14
     DEF Next

-----------------------------------------------------------------------------
(* Batches, requests and settlements.                                      *)

\* The steps that leave spool, requests and ledger alone, and the others.
Shelved == <<spool, ghosts, nextSeq, net, ledger>>

\* Batches, requests and settlements change in these actions only.
LEMMA ShelvedUnless ==
  ASSUME [Next]_vars
  PROVE  \/ UNCHANGED Shelved
         \/ SealCounters \/ SealSegment \/ SealFails
         \/ Send \/ (\E b \in net : Settle(b)) \/ DeleteBatch \/ Crash
BY DEF Next, vars, nodeVars, Shelved, MoveRule, Deliver, RefreshSniDns, Forward,
       CommitCounters, RecoverCheckpoint, PrepareStateForFile, AdvanceCursor,
       RotateLog, Refuse, Timeout

\* A settlement of a batch that has not been settled is appended.
LEMMA SettleAppends ==
  ASSUME Typed, UnitsKnown, NEW b \in net, Settle(b)
  PROVE  /\ UNCHANGED <<spool, ghosts, nextSeq, net, unit, maps, counter, log, file, cursor>>
         /\ Applied(b) => ledger' = ledger
         /\ ~Applied(b) =>
              /\ Len(ledger') = Len(ledger) + 1
              /\ DOMAIN ledger' = 1..Len(ledger) + 1
              /\ \A i \in DOMAIN ledger : ledger'[i] = ledger[i]
              /\ ledger'[Len(ledger) + 1] = Settlement(b)
         /\ DOMAIN ledger = 1..Len(ledger) /\ Len(ledger) \in Nat
<1>1. ledger \in Seq(Settlements) /\ Settlement(b) \in Settlements
  BY SettlementTyped DEF Typed, BooksTyped
<1>2. ledger' = IF Applied(b) THEN ledger ELSE Append(ledger, Settlement(b))
  BY DEF Settle
<1>3. DOMAIN ledger = 1..Len(ledger) /\ Len(ledger) \in Nat
  BY <1>1, LenProperties
<1>4. ~Applied(b) => ledger' \in Seq(Settlements) /\ Len(ledger') = Len(ledger) + 1
  BY <1>1, <1>2, AppendProperties
<1>5. ~Applied(b) => DOMAIN ledger' = 1..Len(ledger) + 1
  BY <1>4, LenProperties
<1>6. ~Applied(b) => /\ \A i \in DOMAIN ledger : ledger'[i] = ledger[i]
                     /\ ledger'[Len(ledger) + 1] = Settlement(b)
  BY <1>1, <1>2, <1>3, AppendProperties
<1>7. UNCHANGED <<spool, ghosts, nextSeq, net, unit, maps, counter, log, file, cursor>>
  BY DEF Settle, configVars
<1>8. QED
  BY <1>2, <1>3, <1>4, <1>5, <1>6, <1>7

\* The fields of a settlement.
LEMMA LedgerTyped ==
  ASSUME BooksTyped
  PROVE  \A i \in DOMAIN ledger : /\ ledger[i] \in Settlements /\ ledger[i].seq \in 1..MaxSeq
                                  /\ ledger[i].units \subseteq Units
<1>1. \A i \in DOMAIN ledger : ledger[i] \in Settlements
  BY ElementOfSeq, LenProperties DEF BooksTyped
<1>2. QED
  BY <1>1 DEF Settlements

\* No step gives a number to a second batch: the number is reserved before the
\* record is written, a crash keeps it, and a repeated request is the same batch.
LEMMA SequencedStep == IInv /\ [Next]_vars => Sequenced'
<1> SUFFICES ASSUME IInv, [Next]_vars PROVE Sequenced'
  OBVIOUS
<1>0. Typed /\ BooksTyped /\ Sequenced /\ UnitsKnown /\ Fifo
  BY DEF IInv, Typed
<1>1. /\ \A b \in spool \cup ghosts \cup net : b.seq \in Nat
      /\ \A i \in DOMAIN ledger : ledger[i].seq \in Nat
      /\ nextSeq \in Nat
  BY <1>0, BatchTyped, LedgerTyped, BoundsAreNaturals DEF BooksTyped
<1>2. ASSUME NEW b \in Batches, b.seq = nextSeq, Seals(b) PROVE Sequenced'
  <2>1. /\ spool' \subseteq spool \cup {b} /\ ghosts' \subseteq ghosts
        /\ net' = net /\ ledger' = ledger /\ nextSeq' = nextSeq + 1
    BY <1>2 DEF Seals, Installed, InstallUncertain
  <2>2. \A c \in spool \cup ghosts \cup net : c.seq < nextSeq
    BY <1>0 DEF Sequenced
  <2>3. \A i \in DOMAIN ledger : ledger[i].seq < nextSeq
    BY <1>0 DEF Sequenced
  <2>4. /\ \A c \in (spool \cup ghosts \cup net)' : c.seq < nextSeq'
        /\ \A i \in DOMAIN ledger' : ledger'[i].seq < nextSeq'
    BY <1>1, <1>2, <2>1, <2>2, <2>3
  <2>5. \A c \in (spool \cup ghosts \cup net)' : c = b \/ c \in spool \cup ghosts \cup net
    BY <2>1
  <2>6. \A c \in spool \cup ghosts \cup net : c.seq # b.seq
    BY <1>1, <1>2, <2>2
  <2>7. \A c, d \in (spool \cup ghosts \cup net)' : c.seq = d.seq => c = d
    BY <1>0, <2>5, <2>6 DEF Sequenced
  <2>8. \A i \in DOMAIN ledger : ledger[i].seq # b.seq
    BY <1>1, <1>2, <2>3
  <2>9. \A c \in (spool \cup ghosts \cup net)' : \A i \in DOMAIN ledger' :
          ledger'[i].seq = c.seq => ledger'[i].units = c.units
    BY <1>0, <2>1, <2>5, <2>8 DEF Sequenced
  <2>10. QED
    BY <2>4, <2>7, <2>9 DEF Sequenced
<1>3. ASSUME spool' \cup ghosts' \cup net' \subseteq spool \cup ghosts \cup net,
             ledger' = ledger, nextSeq' \in {nextSeq, nextSeq + 1}
      PROVE  Sequenced'
  <2>1. /\ \A c \in spool \cup ghosts \cup net : c.seq < nextSeq'
        /\ \A i \in DOMAIN ledger : ledger[i].seq < nextSeq'
    BY <1>0, <1>1, <1>3 DEF Sequenced
  <2>2. QED
    BY <1>0, <1>3, <2>1 DEF Sequenced
<1>4. ASSUME SealCounters PROVE Sequenced'
  <2>1. Seals(CounterBatch) /\ counter # {} /\ nextSeq <= MaxSeq
    BY <1>0, <1>4, SealCountersSeals DEF Seals
  <2>2. QED
    BY <1>0, <1>2, <2>1, CounterBatchIs
<1>5. ASSUME SealSegment PROVE Sequenced'
  <2>1. Seals(LogBatch) /\ cursor.off < Len(log) /\ nextSeq <= MaxSeq
    BY <1>0, <1>5, SealSegmentSeals DEF Seals
  <2>2. QED
    BY <1>0, <1>2, <2>1, LogBatchIs
<1>6. ASSUME SealFails PROVE Sequenced'
  BY <1>3, <1>6 DEF SealFails, Reserve
<1>7. ASSUME Send PROVE Sequenced'
  <2>1. Oldest \in spool
    BY <1>0, <1>7, OldestIsFirst, BoundsAreNaturals DEF Send, BooksTyped
  <2>2. QED
    BY <1>3, <1>7, <2>1 DEF Send
<1>8. ASSUME NEW b \in net, Settle(b) PROVE Sequenced'
  <2>1. CASE Applied(b)
    BY <1>0, <1>3, <1>8, <2>1, SettleAppends
  <2>2. CASE ~Applied(b)
    <3> DEFINE n == Len(ledger) + 1
    <3>1. /\ UNCHANGED <<spool, ghosts, nextSeq, net>>
          /\ DOMAIN ledger' = 1..n /\ DOMAIN ledger = 1..Len(ledger) /\ Len(ledger) \in Nat
          /\ \A i \in DOMAIN ledger : ledger'[i] = ledger[i]
          /\ ledger'[n] = Settlement(b)
      BY <1>0, <1>8, <2>2, SettleAppends
    <3>2. Settlement(b).seq = b.seq /\ Settlement(b).units = b.units
      BY DEF Settlement
    <3>3. \A i \in DOMAIN ledger' : i \in DOMAIN ledger \/ i = n
      BY <3>1
    <3> HIDE DEF n
    <3>4. \A i \in DOMAIN ledger' : ledger'[i].seq < nextSeq
      BY <1>0, <3>1, <3>2, <3>3 DEF Sequenced
    <3>5. \A c \in spool \cup ghosts \cup net : \A i \in DOMAIN ledger' :
            ledger'[i].seq = c.seq => ledger'[i].units = c.units
      BY <1>0, <3>1, <3>2, <3>3 DEF Sequenced
    <3>6. QED
      BY <1>0, <3>1, <3>4, <3>5 DEF Sequenced
  <2>3. QED
    BY <2>1, <2>2
<1>9. ASSUME DeleteBatch PROVE Sequenced'
  <2>1. Oldest \in spool
    BY <1>0, <1>9, OldestIsFirst, BoundsAreNaturals
       DEF DeleteBatch, DeletePhases, BooksTyped, Fifo
  <2>2. /\ spool' \subseteq spool /\ ghosts' \subseteq ghosts \cup {Oldest}
        /\ UNCHANGED <<net, ledger, nextSeq>>
    BY <1>9 DEF DeleteBatch
  <2>3. QED
    BY <1>3, <2>1, <2>2
<1>10. ASSUME Crash PROVE Sequenced'
  BY <1>3, <1>10 DEF Crash
<1>11. CASE UNCHANGED Shelved
  BY <1>3, <1>11 DEF Shelved
<1>12. QED
  BY <1>4, <1>5, <1>6, <1>7, <1>8, <1>9, <1>10, <1>11, ShelvedUnless

\* Forwarding adds a unit and disturbs no other.
LEMMA ForwardAppends ==
  ASSUME Typed, NEW c \in open, Forward(c)
  PROVE  /\ Len(unit') = Len(unit) + 1 /\ Len(unit) \in Nat
         /\ \A u \in 1..Len(unit) : unit'[u] = unit[u]
         /\ unit'[Len(unit) + 1] = c
<1>1. c \in Accepted /\ unit \in Seq(Accepted)
  BY DEF Typed, ConfigTyped, TrafficTyped
<1>2. unit' = Append(unit, c)
  BY DEF Forward
<1>3. QED
  BY <1>1, <1>2, AppendProperties

\* Only forwarding makes units.
LEMMA UnitUnless ==
  ASSUME [Next]_vars
  PROVE  UNCHANGED unit \/ \E c \in open : Forward(c)
BY DEF Next, vars, MoveRule, Deliver, RefreshSniDns, SealCounters, SealFails,
       CommitCounters, RecoverCheckpoint, PrepareStateForFile, SealSegment,
       AdvanceCursor, RotateLog, Send, Settle, Refuse, Timeout, DeleteBatch, Crash

\* Batches stay sets of forwarded units of one revision.
LEMMA UnitsKnownStep == IInv /\ [Next]_vars => UnitsKnown'
<1> SUFFICES ASSUME IInv, [Next]_vars PROVE UnitsKnown'
  OBVIOUS
<1>0. Typed /\ BooksTyped /\ UnitsKnown /\ Fifo
  BY DEF IInv, Typed
<1>1. ASSUME spool' \cup ghosts' \cup net' \subseteq spool \cup ghosts \cup net,
             ledger' = ledger, unit' = unit
      PROVE  UnitsKnown'
  BY <1>0, <1>1 DEF UnitsKnown
<1>2. ASSUME NEW b \in Batches, Seals(b),
             \A u \in b.units : u \in 1..Len(unit) /\ unit[u].rev = b.rev
      PROVE  UnitsKnown'
  <2>1. spool' \subseteq spool \cup {b} /\ ghosts' \subseteq ghosts /\ UNCHANGED <<net, ledger, unit>>
    BY <1>2 DEF Seals, Installed, InstallUncertain
  <2>2. QED
    BY <1>0, <1>2, <2>1 DEF UnitsKnown
<1>3. ASSUME SealCounters PROVE UnitsKnown'
  <2>1. Seals(CounterBatch) /\ counter # {} /\ nextSeq <= MaxSeq
    BY <1>0, <1>3, SealCountersSeals DEF Seals
  <2>2. /\ CounterBatch \in Batches
        /\ \A u \in CounterBatch.units : u \in 1..Len(unit) /\ unit[u].rev = CounterBatch.rev
    BY <1>0, <2>1, CounterBatchIs DEF Typed, TrafficTyped
  <2>3. QED
    BY <1>2, <2>1, <2>2
<1>4. ASSUME SealSegment PROVE UnitsKnown'
  <2>1. Seals(LogBatch) /\ cursor.off < Len(log) /\ nextSeq <= MaxSeq
    BY <1>0, <1>4, SealSegmentSeals DEF Seals
  <2>2. LogBatch \in Batches /\ \A u \in LogBatch.units : unit[u].rev = LogBatch.rev
    BY <1>0, <2>1, LogBatchIs
  <2>3. \A i \in cursor.off + 1 .. SegmentEnd : i \in 1..Len(log)
    BY <1>0, <2>1, LogBatchIs, LogTyped, BoundsAreNaturals DEF BooksTyped, Cursors
  <2>4. \A u \in LogBatch.units : u \in 1..Len(unit)
    <3>1. LogBatch.units = Segment
      BY <1>0, <2>1, LogBatchIs
    <3>2. QED
      BY <1>0, <2>3, <3>1, LogTyped DEF Segment
  <2>5. QED
    BY <1>2, <2>1, <2>2, <2>4
<1>5. ASSUME SealFails PROVE UnitsKnown'
  BY <1>1, <1>5 DEF SealFails
<1>6. ASSUME Send PROVE UnitsKnown'
  <2>1. Oldest \in spool
    BY <1>0, <1>6, OldestIsFirst, BoundsAreNaturals DEF Send, BooksTyped
  <2>2. QED
    BY <1>1, <1>6, <2>1 DEF Send
<1>7. ASSUME NEW b \in net, Settle(b) PROVE UnitsKnown'
  <2>1. CASE Applied(b)
    BY <1>0, <1>1, <1>7, <2>1, SettleAppends
  <2>2. CASE ~Applied(b)
    <3> DEFINE n == Len(ledger) + 1
    <3>1. /\ UNCHANGED <<spool, ghosts, nextSeq, net, unit>>
          /\ DOMAIN ledger' = 1..n /\ DOMAIN ledger = 1..Len(ledger) /\ Len(ledger) \in Nat
          /\ \A i \in DOMAIN ledger : ledger'[i] = ledger[i]
          /\ ledger'[n] = Settlement(b)
      BY <1>0, <1>7, <2>2, SettleAppends
    <3>2. Settlement(b).units = b.units /\ b.units \subseteq 1..Len(unit)
      BY <1>0 DEF Settlement, UnitsKnown
    <3>3. \A i \in DOMAIN ledger' : i \in DOMAIN ledger \/ i = n
      BY <3>1
    <3> HIDE DEF n
    <3>4. QED
      BY <1>0, <3>1, <3>2, <3>3 DEF UnitsKnown
  <2>3. QED
    BY <2>1, <2>2
<1>8. ASSUME DeleteBatch PROVE UnitsKnown'
  <2>1. Oldest \in spool
    BY <1>0, <1>8, OldestIsFirst, BoundsAreNaturals
       DEF DeleteBatch, DeletePhases, BooksTyped, Fifo
  <2>2. /\ spool' \subseteq spool /\ ghosts' \subseteq ghosts \cup {Oldest}
        /\ UNCHANGED <<net, ledger, unit>>
    BY <1>8 DEF DeleteBatch
  <2>3. QED
    BY <1>1, <2>1, <2>2
<1>9. ASSUME Crash PROVE UnitsKnown'
  BY <1>1, <1>9 DEF Crash
<1>10. ASSUME NEW c \in open, Forward(c) PROVE UnitsKnown'
  <2>1. /\ \A u \in 1..Len(unit) : u \in 1..Len(unit') /\ unit'[u] = unit[u]
    BY <1>0, <1>10, ForwardAppends
  <2>2. UNCHANGED <<spool, ghosts, net, ledger>>
    BY <1>10 DEF Forward
  <2>3. QED
    BY <1>0, <2>1, <2>2 DEF UnitsKnown
<1>11. CASE UNCHANGED Shelved /\ UNCHANGED unit
  BY <1>1, <1>11 DEF Shelved
<1>12. QED
  BY <1>3, <1>4, <1>5, <1>6, <1>7, <1>8, <1>9, <1>10, <1>11, ShelvedUnless, UnitUnless

-----------------------------------------------------------------------------
(* First in, first out.                                                    *)

\* In a spool whose batches have different numbers the oldest is unique.
LEMMA OldestUnique ==
  ASSUME BooksTyped, Sequenced, NEW b \in spool, \A c \in spool : b.seq <= c.seq
  PROVE  Oldest = b
<1>1. Oldest \in spool /\ \A c \in spool : Oldest.seq <= c.seq
  BY OldestIsFirst, BoundsAreNaturals DEF BooksTyped
<1>2. b.seq \in Nat /\ Oldest.seq \in Nat
  BY <1>1, BatchTyped, BoundsAreNaturals
<1>3. Oldest.seq = b.seq
  BY <1>1, <1>2
<1>4. QED
  BY <1>1, <1>3 DEF Sequenced

\* One request at a time, oldest first: what is unapplied on the network is the
\* oldest batch of the spool, also after timeouts, lost answers and restarts.
LEMMA FifoStep == IInv /\ [Next]_vars => Fifo'
<1> SUFFICES ASSUME IInv, [Next]_vars PROVE Fifo'
  OBVIOUS
<1>0. Typed /\ BooksTyped /\ Sequenced /\ UnitsKnown /\ Fifo
  BY DEF IInv, Typed
<1>1. /\ \A b \in spool \cup ghosts \cup net : b.seq \in Nat
      /\ \A i \in DOMAIN ledger : ledger[i].seq \in Nat
      /\ nextSeq \in Nat
  BY <1>0, BatchTyped, LedgerTyped, BoundsAreNaturals DEF BooksTyped
<1>2. ASSUME NEW b \in Batches, b.seq = nextSeq, Seals(b) PROVE Fifo'
  <2>1. /\ spool' \subseteq spool \cup {b} /\ spool \subseteq spool'
        /\ ghosts' \subseteq ghosts
        /\ net' = net /\ ledger' = ledger /\ phase' \notin {"sent", "acked"}
    BY <1>2 DEF Seals, Installed, InstallUncertain
  <2>2. \A c : Applied(c)' <=> Applied(c)
    BY <2>1 DEF Applied
  <2>3. /\ \A c \in net : c.seq <= b.seq
        /\ \A i \in DOMAIN ledger : ledger[i].seq < b.seq
    BY <1>0, <1>1, <1>2 DEF Sequenced
  <2>4. QED
    BY <1>0, <2>1, <2>2, <2>3 DEF Fifo
<1>3. ASSUME SealCounters PROVE Fifo'
  <2>1. Seals(CounterBatch) /\ counter # {} /\ nextSeq <= MaxSeq
    BY <1>0, <1>3, SealCountersSeals DEF Seals
  <2>2. QED
    BY <1>0, <1>2, <2>1, CounterBatchIs
<1>4. ASSUME SealSegment PROVE Fifo'
  <2>1. Seals(LogBatch) /\ cursor.off < Len(log) /\ nextSeq <= MaxSeq
    BY <1>0, <1>4, SealSegmentSeals DEF Seals
  <2>2. QED
    BY <1>0, <1>2, <2>1, LogBatchIs
<1>5. ASSUME UNCHANGED <<spool, ghosts, net, ledger>>,
             \/ phase' \notin {"sent", "acked"}
             \/ phase' = phase /\ cursor' = cursor
      PROVE  Fifo'
  <2>1. \A c : Applied(c)' <=> Applied(c)
    BY <1>5 DEF Applied
  <2>2. Oldest' = Oldest
    BY <1>5 DEF Oldest
  <2>3. phase' \in {"sent", "acked"} => (Ready(Oldest)' <=> Ready(Oldest))
    BY <1>5, <2>2 DEF Ready
  <2>4. QED
    BY <1>0, <1>5, <2>1, <2>2, <2>3 DEF Fifo
<1>6. ASSUME Send PROVE Fifo'
  <2>1. Oldest \in spool /\ \A c \in spool : Oldest.seq <= c.seq
    BY <1>0, <1>6, OldestIsFirst, BoundsAreNaturals DEF Send, BooksTyped
  <2>2. /\ UNCHANGED <<spool, ghosts, ledger, cursor>> /\ net' = net \cup {Oldest}
        /\ phase' = "sent" /\ Ready(Oldest) /\ spool # {}
    BY <1>6 DEF Send
  <2>3. (\A c : Applied(c)' <=> Applied(c)) /\ Oldest' = Oldest
    BY <2>2 DEF Applied, Oldest
  <2>4. Ready(Oldest)'
    BY <2>2, <2>3 DEF Ready
  <2>5. QED
    BY <1>0, <2>1, <2>2, <2>3, <2>4 DEF Fifo
<1>7. ASSUME NEW b \in net, Settle(b) PROVE Fifo'
  <2>0. Applied(b)'
    <3>1. CASE Applied(b)
      BY <1>0, <1>7, <3>1, SettleAppends DEF Applied
    <3>2. CASE ~Applied(b)
      <4>1. /\ Len(ledger) + 1 \in DOMAIN ledger' /\ ledger'[Len(ledger) + 1] = Settlement(b)
        BY <1>0, <1>7, <3>2, SettleAppends
      <4>2. QED
        BY <4>1 DEF Applied, Settlement
    <3>3. QED
      BY <3>1, <3>2
  <2>1. \A i \in DOMAIN ledger : i \in DOMAIN ledger' /\ ledger'[i] = ledger[i]
    BY <1>0, <1>7, SettleAppends
  <2>2. \A i \in DOMAIN ledger' : i \notin DOMAIN ledger => ~Applied(b) /\ ledger'[i].seq = b.seq
    <3>1. CASE Applied(b)
      BY <1>0, <1>7, <3>1, SettleAppends
    <3>2. CASE ~Applied(b)
      <4> DEFINE n == Len(ledger) + 1
      <4>1. /\ DOMAIN ledger' = 1..n /\ DOMAIN ledger = 1..Len(ledger) /\ Len(ledger) \in Nat
            /\ ledger'[n] = Settlement(b)
        BY <1>0, <1>7, <3>2, SettleAppends
      <4>2. Settlement(b).seq = b.seq
        BY DEF Settlement
      <4>3. \A i \in DOMAIN ledger' : i \in DOMAIN ledger \/ i = n
        BY <4>1
      <4> HIDE DEF n
      <4>4. QED
        BY <3>2, <4>1, <4>2, <4>3
    <3>3. QED
      BY <3>1, <3>2
  <2>3. /\ \A c : Applied(c) => Applied(c)'
        /\ \A c : c.seq = b.seq => Applied(c)'
    BY <2>0, <2>1 DEF Applied
  <2>4. UNCHANGED <<spool, ghosts, net, cursor>> /\ Oldest' = Oldest
    BY <1>0, <1>7, SettleAppends DEF Oldest
  <2>5. \A c \in net : \/ Applied(c)'
                       \/ c \in spool' /\ \A d \in spool' : Applied(d)' \/ c.seq <= d.seq
    BY <1>0, <2>3, <2>4 DEF Fifo
  <2>6. ASSUME NEW c \in spool', NEW i \in DOMAIN ledger', ~Applied(c)'
        PROVE  ledger'[i].seq < c.seq
    <3>1. ~Applied(c) /\ c \in spool /\ c.seq # b.seq
      BY <2>3, <2>4, <2>6
    <3>2. CASE i \in DOMAIN ledger
      BY <1>0, <2>1, <3>1, <3>2 DEF Fifo
    <3>3. CASE i \notin DOMAIN ledger
      <4>1. ~Applied(b) /\ ledger'[i].seq = b.seq
        BY <2>2, <3>3
      <4>2. b.seq <= c.seq
        BY <1>0, <3>1, <4>1 DEF Fifo
      <4>3. QED
        BY <1>1, <3>1, <4>1, <4>2
    <3>4. QED
      BY <3>2, <3>3
  <2>7. phase' \in {"sent", "acked"} => phase \in {"sent", "acked"}
    BY <1>7 DEF Settle, Answers
  <2>8. phase' = "acked" => Applied(Oldest)'
    <3>1. phase' = "acked" => b = Oldest \/ phase = "acked"
      BY <1>7 DEF Settle, Answers
    <3>2. QED
      BY <1>0, <2>0, <2>3, <2>4, <3>1 DEF Fifo
  <2>9. Ready(Oldest) => Ready(Oldest)'
    BY <2>4 DEF Ready
  <2>10. QED
    BY <1>0, <2>3, <2>4, <2>5, <2>6, <2>7, <2>8, <2>9 DEF Fifo
<1>8. ASSUME DeleteBatch PROVE Fifo'
  <2>1. Oldest \in spool /\ Applied(Oldest)
    BY <1>0, <1>8, OldestIsFirst, BoundsAreNaturals
       DEF DeleteBatch, DeletePhases, BooksTyped, Fifo
  <2>2. /\ spool' \in {spool, spool \ {Oldest}} /\ ghosts' \subseteq ghosts \cup {Oldest}
        /\ UNCHANGED <<net, ledger>> /\ phase' = "idle"
    BY <1>8 DEF DeleteBatch
  <2>3. \A c : Applied(c)' <=> Applied(c)
    BY <2>2 DEF Applied
  <2>4. QED
    BY <1>0, <2>1, <2>2, <2>3 DEF Fifo
<1>9. ASSUME Crash PROVE Fifo'
  <2>1. /\ spool \subseteq spool' /\ spool' \subseteq spool \cup ghosts /\ ghosts' = {}
        /\ UNCHANGED <<net, ledger>> /\ phase' = "idle"
    BY <1>9 DEF Crash
  <2>2. \A c : Applied(c)' <=> Applied(c)
    BY <2>1 DEF Applied
  <2>3. QED
    BY <1>0, <2>1, <2>2 DEF Fifo
<1>10. ASSUME SealFails PROVE Fifo'
  BY <1>5, <1>10 DEF SealFails
<1>11. CASE UNCHANGED Shelved
  <2>1. UNCHANGED <<spool, ghosts, net, ledger>>
    BY <1>11 DEF Shelved
  <2>2. phase' \notin {"sent", "acked"} \/ (phase' = phase /\ cursor' = cursor)
           \/ SealCounters \/ SealSegment \/ (\E b \in net : Settle(b)) \/ Send
    BY DEF Next, vars, nodeVars, MoveRule, Deliver, RefreshSniDns, Forward,
       SealFails, CommitCounters, RecoverCheckpoint, PrepareStateForFile, AdvanceCursor,
       RotateLog, Refuse, Answers, Timeout, DeleteBatch, Crash
  <2>3. QED
    BY <1>3, <1>4, <1>5, <1>6, <1>7, <2>1, <2>2
<1>12. QED
  BY <1>3, <1>4, <1>6, <1>7, <1>8, <1>9, <1>10, <1>11, ShelvedUnless

\* A settlement is appended only for the oldest unapplied batch, so settlements
\* keep the order of the seals.
LEMMA SortedStep == IInv /\ SettledOnceInSealOrder /\ [Next]_vars => SettledOnceInSealOrder'
<1> SUFFICES ASSUME IInv, SettledOnceInSealOrder, [Next]_vars PROVE SettledOnceInSealOrder'
  OBVIOUS
<1>0. Typed /\ BooksTyped /\ UnitsKnown /\ Fifo
  BY DEF IInv, Typed
<1>1. CASE ledger' = ledger
  BY <1>1 DEF SettledOnceInSealOrder
<1>2. ASSUME NEW b \in net, Settle(b), ~Applied(b) PROVE SettledOnceInSealOrder'
  <2> DEFINE n == Len(ledger) + 1
  <2>1. /\ DOMAIN ledger' = 1..n /\ DOMAIN ledger = 1..Len(ledger) /\ Len(ledger) \in Nat
        /\ \A i \in DOMAIN ledger : ledger'[i] = ledger[i]
        /\ ledger'[n] = Settlement(b)
    BY <1>0, <1>2, SettleAppends
  <2>2. Settlement(b).seq = b.seq
    BY DEF Settlement
  <2>3. \A i \in DOMAIN ledger : ledger[i].seq < b.seq
    BY <1>0, <1>2 DEF Fifo
  <2>4. \A i, j \in DOMAIN ledger' : i < j => i \in DOMAIN ledger /\ (j \in DOMAIN ledger \/ j = n)
    BY <2>1
  <2> HIDE DEF n
  <2>5. QED
    BY <2>1, <2>2, <2>3, <2>4 DEF SettledOnceInSealOrder
<1>3. UNCHANGED ledger \/ \E b \in net : Settle(b) /\ ~Applied(b)
  <2>1. UNCHANGED Shelved => UNCHANGED ledger
    BY DEF Shelved
  <2>2. SealCounters \/ SealSegment \/ SealFails \/ Send \/ DeleteBatch \/ Crash => UNCHANGED ledger
    BY DEF SealCounters, SealSegment, SealFails, Send, DeleteBatch, Crash
  <2>3. \A b \in net : Settle(b) /\ Applied(b) => UNCHANGED ledger
    BY DEF Settle
  <2>4. QED
    BY <2>1, <2>2, <2>3, ShelvedUnless
<1>4. QED
  BY <1>1, <1>2, <1>3

-----------------------------------------------------------------------------
(* The cursor and the log.                                                 *)

\* Between a seal and its completion the sealed batch stays in the spool.
LEMMA PhaseStep == IInv /\ [Next]_vars => PhaseFollows'
<1> SUFFICES ASSUME IInv, [Next]_vars PROVE PhaseFollows'
  OBVIOUS
<1>0. Typed /\ BooksTyped /\ PhaseFollows /\ UnitsKnown
  BY DEF IInv, Typed
<1>1. CASE phase' \notin {"commit", "cursor"}
  BY <1>1 DEF PhaseFollows
<1>2. CASE phase' = phase /\ UNCHANGED <<spool, nextSeq, cursor>>
  BY <1>0, <1>2 DEF PhaseFollows, Recoverable
<1>3. ASSUME SealCounters PROVE PhaseFollows'
  <2>1. counter # {} /\ nextSeq <= MaxSeq
    BY <1>0, <1>3, SealCountersSeals DEF Seals
  <2>2. CounterBatch.seq = nextSeq /\ CounterBatch.origin = Counters
    BY <1>0, <2>1, CounterBatchIs
  <2>3. nextSeq' = nextSeq + 1 /\ nextSeq \in Nat
    BY <1>0, <1>3, BoundsAreNaturals DEF SealCounters, Reserve, BooksTyped
  <2>4. (phase' = "commit" /\ spool' = spool \cup {CounterBatch}) \/ phase' = "idle"
    BY <1>3 DEF SealCounters, Installed
  <2>5. QED
    BY <1>1, <2>2, <2>3, <2>4 DEF PhaseFollows
<1>4. ASSUME SealSegment PROVE PhaseFollows'
  <2>1. cursor.off < Len(log) /\ nextSeq <= MaxSeq /\ cursor.file = file
    BY <1>0, <1>4, SealSegmentSeals DEF Seals, FileReplaced
  <2>2. /\ LogBatch.seq = nextSeq /\ LogBatch.origin # Counters
        /\ LogBatch.origin.file = file /\ LogBatch.origin.gen = cursor.gen
        /\ LogBatch.origin.start = cursor.off
    BY <1>0, <2>1, LogBatchIs, CountersAreNoCheckpoint
  <2>3. nextSeq' = nextSeq + 1 /\ nextSeq \in Nat /\ cursor' = cursor
    BY <1>0, <1>4, BoundsAreNaturals DEF SealSegment, Reserve, BooksTyped
  <2>4. (phase' = "cursor" /\ spool' = spool \cup {LogBatch}) \/ phase' = "idle"
    BY <1>4 DEF SealSegment, Installed
  <2>5. phase' = "cursor" => LogBatch \in Recoverable'
    BY <2>1, <2>2, <2>3, <2>4 DEF Recoverable
  <2>6. QED
    BY <1>1, <2>2, <2>3, <2>4, <2>5 DEF PhaseFollows
<1>5. SealCounters \/ SealSegment \/ phase' \notin {"commit", "cursor"}
        \/ (phase' = phase /\ UNCHANGED <<spool, nextSeq, cursor>>)
  BY DEF Next, vars, nodeVars, MoveRule, Deliver, RefreshSniDns, Forward, SealFails,
     CommitCounters, RecoverCheckpoint, PrepareStateForFile, AdvanceCursor, RotateLog,
     Send, Settle, Refuse, Answers, Timeout, DeleteBatch, Crash
<1>6. QED
  BY <1>1, <1>2, <1>3, <1>4, <1>5

\* Where the cursor can go: past the one batch it stands before, or to the
\* start of a replaced file when there is no such batch.
PastBatch == \E b \in Recoverable : cursor' = CursorAfter(b)

\* How a step may move the cursor.
CursorUnless ==
  \/ cursor' = cursor
  \/ PastBatch /\ UNCHANGED <<spool, ghosts, log, file, rotations, truncated>>
  \/ PrepareStateForFile

\* Recovery and the completion of a seal move the cursor past one recoverable
\* batch; otherwise it moves only to a replaced file.
LEMMA CursorMoves == IInv /\ [Next]_vars => CursorUnless
<1> SUFFICES ASSUME IInv, [Next]_vars PROVE CursorUnless
  OBVIOUS
<1>0. Typed /\ BooksTyped /\ Sequenced /\ PhaseFollows
  BY DEF IInv, Typed
<1>1. ASSUME RecoverCheckpoint PROVE CursorUnless
  <2>1. PICK b \in Recoverable : WritesCursor(CursorAfter(b))
    BY <1>1 DEF RecoverCheckpoint
  <2>2. cursor' \in {cursor, CursorAfter(b)}
    BY <2>1 DEF WritesCursor
  <2>3. QED
    BY <1>1, <2>2 DEF CursorUnless, PastBatch, RecoverCheckpoint
<1>2. ASSUME AdvanceCursor PROVE CursorUnless
  <2>1. PICK b \in Recoverable : b.seq = nextSeq - 1
    BY <1>0, <1>2 DEF AdvanceCursor, PhaseFollows
  <2>2. Newest = b
    BY <1>0, <2>1, NewestIs DEF Recoverable
  <2>3. cursor' \in {cursor, CursorAfter(b)}
    BY <1>2, <2>2 DEF AdvanceCursor, WritesCursor, CursorFor
  <2>4. QED
    BY <1>2, <2>3 DEF CursorUnless, PastBatch, AdvanceCursor
<1>3. RecoverCheckpoint \/ AdvanceCursor \/ PrepareStateForFile \/ cursor' = cursor
  BY DEF Next, vars, nodeVars, MoveRule, Deliver, RefreshSniDns, Forward, SealCounters,
     SealFails, CommitCounters, SealSegment, RotateLog, Send, Settle, Refuse, Timeout,
     DeleteBatch, Crash
<1>4. QED
  BY <1>1, <1>2, <1>3 DEF CursorUnless

\* The numbers of a batch of the log and of the cursor.
LEMMA CheckpointNumbers ==
  ASSUME BooksTyped
  PROVE  /\ cursor.gen \in Nat /\ cursor.off \in Nat
         /\ \A b \in spool \cup ghosts : b.origin # Counters =>
              /\ b.origin.gen \in Nat /\ b.origin.start \in Nat /\ b.origin.end \in Nat
              /\ b.origin.file \in Nat
<1>1. cursor.gen \in Nat /\ cursor.off \in Nat
  BY BoundsAreNaturals DEF BooksTyped, Cursors
<1>2. QED
  BY <1>1, BatchTyped, BoundsAreNaturals

\* A batch the cursor has crossed is not one it stands before.
LEMMA CrossedNotRecoverable ==
  ASSUME BooksTyped, CursorFollows, NEW b \in spool, b.origin # Counters, Crossed(b)
  PROVE  b \notin Recoverable
<1>1. b.origin.start < b.origin.end
  BY DEF CursorFollows
<1>2. QED
  BY <1>1, CheckpointNumbers DEF Crossed, Recoverable

\* Past the batch it stood before, the cursor has crossed every batch.
LEMMA PastBatchCrosses ==
  ASSUME BooksTyped, CursorFollows, PastBatch, UNCHANGED <<spool, ghosts>>
  PROVE  /\ \A c \in spool \cup ghosts : c.origin # Counters => Crossed(c)'
         /\ Recoverable' = {}
         /\ \E b \in Recoverable :
              /\ b.origin.start = cursor.off /\ b.origin.start < b.origin.end
              /\ cursor'.file = cursor.file /\ cursor'.gen = cursor.gen
              /\ cursor'.off = b.origin.end
<1>1. PICK b \in Recoverable : cursor' = CursorAfter(b)
  BY DEF PastBatch
<1>2. /\ b \in spool /\ b.origin # Counters /\ b.origin.file = cursor.file
      /\ b.origin.gen = cursor.gen /\ b.origin.start = cursor.off
      /\ b.origin.start < b.origin.end
  BY DEF Recoverable, CursorFollows
<1>3. cursor'.file = cursor.file /\ cursor'.gen = cursor.gen /\ cursor'.off = b.origin.end
  BY <1>1, <1>2 DEF CursorAfter
<1>4. \A c \in spool \cup ghosts : c.origin # Counters /\ Crossed(c) => Crossed(c)'
  BY <1>2, <1>3, CheckpointNumbers DEF Crossed
<1>5. Crossed(b)'
  BY <1>2, <1>3, CheckpointNumbers DEF Crossed
<1>6. \A c \in spool \cup ghosts : c.origin # Counters => Crossed(c)'
  BY <1>4, <1>5 DEF CursorFollows
<1>7. Recoverable' = {}
  <2> SUFFICES ASSUME NEW c \in spool, c \in Recoverable' PROVE FALSE
    BY DEF Recoverable
  <2>1. c.origin # Counters /\ c.origin.gen = cursor'.gen /\ c.origin.start = cursor'.off
    BY DEF Recoverable
  <2>2. c.origin.start < c.origin.end /\ Crossed(c)'
    BY <1>6, <2>1 DEF CursorFollows
  <2>3. QED
    BY <1>2, <1>3, <2>1, <2>2, CheckpointNumbers DEF Crossed
<1>8. QED
  BY <1>2, <1>3, <1>6, <1>7

\* As long as the cursor stays, only a sealed segment changes what it stands
\* before: the batch deleted was crossed, and so were those a crash brings back.
LEMMA RecoverableKept ==
  ASSUME IInv, [Next]_vars, ~SealSegment, cursor' = cursor
  PROVE  Recoverable' = Recoverable
<1>0. Typed /\ BooksTyped /\ CursorFollows /\ Fifo
  BY DEF IInv, Typed
<1>1. CASE SealCounters
  <2>1. Seals(CounterBatch) /\ counter # {} /\ nextSeq <= MaxSeq
    BY <1>0, <1>1, SealCountersSeals DEF Seals
  <2>2. CounterBatch.origin = Counters
    BY <1>0, <2>1, CounterBatchIs
  <2>3. spool \subseteq spool' /\ spool' \subseteq spool \cup {CounterBatch}
    BY <2>1 DEF Seals, Installed, InstallUncertain
  <2>4. QED
    BY <2>2, <2>3 DEF Recoverable
<1>2. CASE DeleteBatch
  <2>1. Oldest \in spool /\ Ready(Oldest)
    BY <1>0, <1>2, OldestIsFirst, BoundsAreNaturals
       DEF DeleteBatch, DeletePhases, BooksTyped, Fifo
  <2>2. spool' \in {spool, spool \ {Oldest}}
    BY <1>2 DEF DeleteBatch
  <2>3. Oldest \notin Recoverable
    <3>1. Oldest.origin # Counters => Crossed(Oldest)
      BY <2>1 DEF Ready, Crossed
    <3>2. QED
      BY <1>0, <2>1, <3>1, CrossedNotRecoverable DEF Recoverable
  <2>4. QED
    BY <2>2, <2>3 DEF Recoverable
<1>3. CASE Crash
  <2>1. spool \subseteq spool' /\ spool' \subseteq spool \cup ghosts
    BY <1>3 DEF Crash
  <2>2. \A c \in ghosts : c.origin # Counters => Crossed(c) /\ c.origin.start < c.origin.end
    BY <1>0 DEF CursorFollows
  <2>3. \A c \in ghosts : c.origin # Counters =>
          ~(c.origin.gen = cursor.gen /\ c.origin.start = cursor.off)
    BY <1>0, <2>2, CheckpointNumbers DEF Crossed
  <2>4. QED
    BY <2>1, <2>3 DEF Recoverable
<1>4. CASE UNCHANGED spool
  BY <1>4 DEF Recoverable
<1>5. QED
  BY <1>1, <1>2, <1>3, <1>4, ShelvedUnless DEF Shelved, SealFails, Send, Settle

\* The cursor passes a log batch before another is sealed, and only then is the
\* batch sent and deleted.
LEMMA CursorStep == IInv /\ [Next]_vars => CursorFollows'
<1> SUFFICES ASSUME IInv, [Next]_vars PROVE CursorFollows'
  OBVIOUS
<1>0. Typed /\ BooksTyped /\ TrafficTyped /\ CursorFollows /\ Fifo /\ Sequenced
  BY DEF IInv, Typed
<1>1. file \in Nat /\ file' \in Nat /\ file' >= file
  <2>1. file' \in {file, file + 1}
    BY DEF Next, vars, nodeVars, MoveRule, Deliver, RefreshSniDns, Forward, SealCounters,
       SealFails, CommitCounters, RecoverCheckpoint, PrepareStateForFile, SealSegment,
       AdvanceCursor, RotateLog, Send, Settle, Refuse, Timeout, DeleteBatch, Crash
  <2>2. file \in Nat
    BY <1>0, BoundsAreNaturals DEF TrafficTyped
  <2>3. QED
    BY <2>1, <2>2
<1>2. ASSUME cursor' = cursor,
             NEW b, spool' \subseteq spool \cup {b}, b.origin = Counters,
             spool \subseteq spool', ghosts' \subseteq ghosts
      PROVE  CursorFollows'
  <2>1. Recoverable' = Recoverable
    BY <1>2 DEF Recoverable
  <2>2. \A c : Crossed(c)' <=> Crossed(c)
    BY <1>2 DEF Crossed
  <2>3. \A c \in spool' \cup ghosts' : c.origin # Counters =>
          /\ c \in spool \cup ghosts /\ c.origin.file <= file'
    BY <1>0, <1>1, <1>2, CheckpointNumbers DEF CursorFollows
  <2>4. QED
    BY <1>0, <1>2, <2>1, <2>2, <2>3 DEF CursorFollows
<1>3. ASSUME UNCHANGED <<cursor, spool, ghosts>> PROVE CursorFollows'
  <2>1. Recoverable' = Recoverable /\ \A c : Crossed(c)' <=> Crossed(c)
    BY <1>3 DEF Recoverable, Crossed
  <2>2. \A c \in spool \cup ghosts : c.origin # Counters => c.origin.file <= file'
    BY <1>0, <1>1, CheckpointNumbers DEF CursorFollows
  <2>3. QED
    BY <1>0, <1>3, <2>1, <2>2 DEF CursorFollows
<1>4. ASSUME SealCounters PROVE CursorFollows'
  <2>1. Seals(CounterBatch) /\ counter # {} /\ nextSeq <= MaxSeq
    BY <1>0, <1>4, SealCountersSeals DEF Seals
  <2>2. CounterBatch.origin = Counters
    BY <1>0, <2>1, CounterBatchIs
  <2>3. /\ cursor' = cursor /\ spool \subseteq spool'
        /\ spool' \subseteq spool \cup {CounterBatch} /\ ghosts' \subseteq ghosts
    BY <2>1 DEF Seals, Installed, InstallUncertain
  <2>4. QED
    BY <1>2, <2>2, <2>3
<1>5. ASSUME SealSegment PROVE CursorFollows'
  <2>1. Seals(LogBatch) /\ cursor.off < Len(log) /\ nextSeq <= MaxSeq
          /\ cursor.file = file /\ Recoverable = {}
    BY <1>0, <1>5, SealSegmentSeals DEF Seals, FileReplaced
  <2>2. /\ LogBatch.origin # Counters
        /\ LogBatch.origin.file = file /\ LogBatch.origin.gen = cursor.gen
        /\ LogBatch.origin.start = cursor.off /\ LogBatch.origin.end = SegmentEnd
        /\ SegmentEnd \in cursor.off + 1 .. Len(log)
    BY <1>0, <2>1, LogBatchIs, CountersAreNoCheckpoint
  <2>3. /\ cursor' = cursor /\ spool \subseteq spool' /\ file' = file
        /\ spool' \subseteq spool \cup {LogBatch} /\ ghosts' \subseteq ghosts
    BY <2>1 DEF Seals, Installed, InstallUncertain
  <2>4. LogBatch.origin.start < LogBatch.origin.end
    BY <1>0, <2>2, CheckpointNumbers
  <2>5. LogBatch \in spool' => LogBatch \in Recoverable'
    BY <2>1, <2>2, <2>3 DEF Recoverable
  <2>6. Recoverable' \subseteq {LogBatch}
    BY <2>1, <2>3 DEF Recoverable
  <2>7. (\A c : Crossed(c)' <=> Crossed(c)) /\ file <= file
    BY <1>1, <2>3 DEF Crossed
  <2>8. \A c \in ghosts' \cup spool' : (c = LogBatch /\ c \in spool') \/ c \in spool \cup ghosts
    BY <2>3
  <2>9. QED
    BY <1>0, <2>1, <2>2, <2>3, <2>4, <2>5, <2>6, <2>7, <2>8 DEF CursorFollows
<1>6. ASSUME PastBatch, UNCHANGED <<spool, ghosts, file>> PROVE CursorFollows'
  BY <1>0, <1>6, PastBatchCrosses DEF CursorFollows
<1>7. ASSUME PrepareStateForFile PROVE CursorFollows'
  <2>1. /\ Recoverable = {} /\ cursor'.gen = cursor.gen + 1
        /\ UNCHANGED <<spool, ghosts, file>>
    BY <1>7 DEF PrepareStateForFile, NextGeneration
  <2>2. \A c \in spool \cup ghosts : c.origin # Counters => c.origin.gen <= cursor.gen
    BY <1>0, <2>1, CheckpointNumbers DEF CursorFollows, Crossed
  <2>3. \A c \in spool \cup ghosts : c.origin # Counters => Crossed(c)' /\ c.origin.gen # cursor'.gen
    BY <1>0, <2>1, <2>2, CheckpointNumbers DEF Crossed
  <2>4. Recoverable' = {}
    BY <2>1, <2>3 DEF Recoverable
  <2>5. QED
    BY <1>0, <2>1, <2>3, <2>4 DEF CursorFollows
<1>8. ASSUME DeleteBatch PROVE CursorFollows'
  <2>1. Oldest \in spool /\ Ready(Oldest)
    BY <1>0, <1>8, OldestIsFirst, BoundsAreNaturals
       DEF DeleteBatch, DeletePhases, BooksTyped, Fifo
  <2>2. /\ spool' \in {spool, spool \ {Oldest}} /\ ghosts' \subseteq ghosts \cup {Oldest}
        /\ UNCHANGED <<cursor, file>>
    BY <1>8 DEF DeleteBatch
  <2>3. Oldest.origin # Counters => Crossed(Oldest) /\ Oldest \notin Recoverable
    BY <1>0, <2>1, CrossedNotRecoverable DEF Ready, Crossed
  <2>4. \A c : Crossed(c)' <=> Crossed(c)
    BY <2>2 DEF Crossed
  <2>5. Recoverable' = Recoverable
    BY <2>2, <2>3 DEF Recoverable
  <2>6. QED
    BY <1>0, <2>1, <2>2, <2>3, <2>4, <2>5 DEF CursorFollows
<1>9. ASSUME Crash PROVE CursorFollows'
  <2>1. /\ spool \subseteq spool' /\ spool' \subseteq spool \cup ghosts /\ ghosts' = {}
        /\ UNCHANGED <<cursor, file>>
    BY <1>9 DEF Crash
  <2>2. \A c : Crossed(c)' <=> Crossed(c)
    BY <2>1 DEF Crossed
  <2>3. Recoverable' = Recoverable
    <3>1. \A c \in ghosts : c.origin # Counters => Crossed(c) /\ c.origin.start < c.origin.end
      BY <1>0 DEF CursorFollows
    <3>2. \A c \in ghosts : c.origin # Counters =>
            ~(c.origin.gen = cursor.gen /\ c.origin.start = cursor.off)
      BY <1>0, <3>1, CheckpointNumbers DEF Crossed
    <3>3. QED
      BY <2>1, <3>2 DEF Recoverable
  <2>4. QED
    BY <1>0, <2>1, <2>2, <2>3 DEF CursorFollows
<1>10. cursor' = cursor \/ (PastBatch /\ UNCHANGED <<spool, ghosts, file>>) \/ PrepareStateForFile
  BY CursorMoves DEF CursorUnless
<1>11. UNCHANGED <<spool, ghosts>> \/ SealCounters \/ SealSegment \/ DeleteBatch \/ Crash
  BY ShelvedUnless DEF Shelved, SealFails, Send, Settle
<1>12. QED
  BY <1>3, <1>4, <1>5, <1>6, <1>7, <1>8, <1>9, <1>10, <1>11

\* The log file changes by a rotation and grows by a forwarded unit.
LEMMA LogUnless ==
  ASSUME Typed, [Next]_vars
  PROVE  \/ RotateLog
         \/ /\ UNCHANGED <<file, rotations>>
            /\ Len(log') >= Len(log)
            /\ \A i \in 1..Len(log) : log'[i] = log[i]
<1>0. TrafficTyped /\ Len(log) \in Nat
  BY LogTyped DEF Typed
<1>1. CASE UNCHANGED <<file, rotations, log>>
  BY <1>0, <1>1
<1>2. ASSUME NEW c \in open, Forward(c)
      PROVE  /\ UNCHANGED <<file, rotations>>
             /\ Len(log') >= Len(log) /\ \A i \in 1..Len(log) : log'[i] = log[i]
  <2>1. UNCHANGED <<file, rotations>> /\ (log' = log \/ log' = Append(log, Len(unit) + 1))
    BY <1>2 DEF Forward
  <2>2. log \in Seq(Nat) /\ Len(unit) + 1 \in Nat
    <3>1. log \in Seq(1..Len(unit)) /\ Len(unit) \in Nat
      BY <1>0, ForwardAppends, <1>2 DEF TrafficTyped
    <3>2. \A i \in 1..Len(log) : log[i] \in Nat
      BY <3>1, ElementOfSeq
    <3>3. QED
      BY <3>1, <3>2, IsASeq, LenProperties
  <2>3. QED
    BY <1>0, <2>1, <2>2, AppendProperties
<1>3. RotateLog \/ UNCHANGED <<file, rotations, log>> \/ \E c \in open : Forward(c)
  BY DEF Next, vars, nodeVars, MoveRule, Deliver, RefreshSniDns, SealCounters,
     SealFails, CommitCounters, RecoverCheckpoint, PrepareStateForFile, SealSegment,
     AdvanceCursor, Send, Settle, Refuse, Timeout, DeleteBatch, Crash
<1>4. QED
  BY <1>1, <1>2, <1>3

\* Every rotation or truncation starts at most one generation, so a batch never
\* claims lines of a file that has not been seen.
LEMMA GenerationsStep == IInv /\ [Next]_vars => GenerationsFollow'
<1> SUFFICES ASSUME IInv, [Next]_vars PROVE GenerationsFollow'
  OBVIOUS
<1>0. Typed /\ BooksTyped /\ TrafficTyped /\ GenerationsFollow /\ CursorFollows /\ Fifo
  BY DEF IInv, Typed
<1>1. /\ rotations \in Nat /\ Len(log) \in Nat /\ file \in Nat
      /\ cursor.gen \in Nat /\ cursor.off \in Nat
      /\ \A b \in spool \cup ghosts : b.origin # Counters =>
           b.origin.gen \in Nat /\ b.origin.end \in Nat
  BY <1>0, LogTyped, CheckpointNumbers, BoundsAreNaturals DEF TrafficTyped
<1>2. ASSUME RotateLog PROVE GenerationsFollow'
  <2>1. rotations' = rotations + 1 /\ UNCHANGED <<cursor, spool, ghosts>>
    BY <1>2 DEF RotateLog
  <2>2. cursor.gen <= rotations /\ cursor.gen < rotations + 1
    BY <1>0, <1>1 DEF GenerationsFollow
  <2>3. \A b \in spool \cup ghosts : b.origin # Counters =>
          b.origin.gen <= rotations + 1 /\ b.origin.gen < rotations + 1
    BY <1>0, <1>1 DEF GenerationsFollow
  <2>4. QED
    BY <2>1, <1>1, <2>2, <2>3 DEF GenerationsFollow
<1>3. ASSUME UNCHANGED <<file, rotations>>, Len(log') >= Len(log), Len(log') \in Nat,
             cursor' = cursor, NEW b, spool' \cup ghosts' \subseteq spool \cup ghosts \cup {b},
             b.origin # Counters => /\ b.origin.gen = cursor.gen /\ b.origin.file = file
                                    /\ b.origin.end <= Len(log) /\ b.origin.end \in Nat
      PROVE  GenerationsFollow'
  <2>1. FileReplaced' => FileReplaced
    BY <1>1, <1>3 DEF FileReplaced
  <2>2. \A c \in spool \cup ghosts : c.origin # Counters =>
          (c.origin.file # file' \/ c.origin.end > Len(log') => c.origin.gen < rotations)
    BY <1>0, <1>1, <1>3 DEF GenerationsFollow
  <2>3. b.origin # Counters => b.origin.gen <= rotations
          /\ ~(b.origin.file # file' \/ b.origin.end > Len(log'))
    BY <1>0, <1>1, <1>3 DEF GenerationsFollow
  <2>4. QED
    BY <1>0, <1>3, <2>1, <2>2, <2>3 DEF GenerationsFollow
<1>4. ASSUME PastBatch, UNCHANGED <<spool, ghosts, log, file, rotations>>
      PROVE  GenerationsFollow'
  <2>1. PICK b \in Recoverable : cursor' = CursorAfter(b)
    BY <1>4 DEF PastBatch
  <2>2. b \in spool /\ b.origin # Counters
    BY DEF Recoverable
  <2>3. cursor'.file = b.origin.file /\ cursor'.gen = b.origin.gen /\ cursor'.off = b.origin.end
    BY <2>1 DEF CursorAfter
  <2>4. /\ b.origin.gen <= rotations
        /\ b.origin.file # file \/ b.origin.end > Len(log) => b.origin.gen < rotations
    BY <1>0, <2>2 DEF GenerationsFollow
  <2>5. QED
    BY <1>0, <1>4, <2>3, <2>4 DEF GenerationsFollow, FileReplaced
<1>5. ASSUME PrepareStateForFile PROVE GenerationsFollow'
  <2>1. /\ FileReplaced /\ cursor'.gen = cursor.gen + 1 /\ cursor'.off = 0 /\ cursor'.file = file
        /\ UNCHANGED <<spool, ghosts, log, file, rotations>>
    BY <1>5 DEF PrepareStateForFile, NextGeneration
  <2>2. cursor.gen + 1 <= rotations
    BY <1>0, <1>1, <2>1 DEF GenerationsFollow
  <2>3. ~FileReplaced'
    BY <1>1, <2>1 DEF FileReplaced
  <2>4. QED
    BY <1>0, <2>1, <2>2, <2>3 DEF GenerationsFollow
<1>6. RotateLog \/ (UNCHANGED <<file, rotations>> /\ Len(log') >= Len(log))
  BY <1>0, LogUnless
<1>7. Len(log') \in Nat
  <2>1. log' \in Seq(1..Len(unit'))
    BY TrafficStep, <1>0 DEF TrafficTyped
  <2>2. QED
    BY <2>1, LenProperties
<1>8. ASSUME SealCounters PROVE GenerationsFollow'
  <2>1. Seals(CounterBatch) /\ counter # {} /\ nextSeq <= MaxSeq
    BY <1>0, <1>8, SealCountersSeals DEF Seals
  <2>2. CounterBatch.origin = Counters
    BY <1>0, <2>1, CounterBatchIs
  <2>3. /\ UNCHANGED <<cursor, file, rotations, log>>
        /\ spool' \cup ghosts' \subseteq spool \cup ghosts \cup {CounterBatch}
    BY <2>1 DEF Seals, Installed, InstallUncertain
  <2>4. QED
    BY <1>1, <1>3, <2>2, <2>3
<1>9. ASSUME SealSegment PROVE GenerationsFollow'
  <2>1. Seals(LogBatch) /\ cursor.off < Len(log) /\ nextSeq <= MaxSeq
    BY <1>0, <1>9, SealSegmentSeals DEF Seals
  <2>2. /\ LogBatch.origin.file = file /\ LogBatch.origin.gen = cursor.gen
        /\ LogBatch.origin.end = SegmentEnd /\ SegmentEnd \in cursor.off + 1 .. Len(log)
    BY <1>0, <2>1, LogBatchIs
  <2>3. LogBatch.origin.end <= Len(log) /\ LogBatch.origin.end \in Nat
    BY <1>1, <2>2
  <2>4. /\ UNCHANGED <<cursor, file, rotations, log>>
        /\ spool' \cup ghosts' \subseteq spool \cup ghosts \cup {LogBatch}
    BY <2>1 DEF Seals, Installed, InstallUncertain
  <2>5. QED
    BY <1>1, <1>3, <2>2, <2>3, <2>4
<1>10. ASSUME DeleteBatch PROVE GenerationsFollow'
  <2>1. Oldest \in spool
    BY <1>0, <1>10, OldestIsFirst, BoundsAreNaturals
       DEF DeleteBatch, DeletePhases, BooksTyped, Fifo
  <2>2. spool' \cup ghosts' \subseteq spool \cup ghosts /\ UNCHANGED <<cursor, file, rotations, log>>
    BY <1>10, <2>1 DEF DeleteBatch
  <2>3. QED
    BY <1>0, <2>2 DEF GenerationsFollow, FileReplaced
<1>11. ASSUME Crash PROVE GenerationsFollow'
  <2>1. spool' \cup ghosts' \subseteq spool \cup ghosts /\ UNCHANGED <<cursor, file, rotations, log>>
    BY <1>11 DEF Crash
  <2>2. QED
    BY <1>0, <2>1 DEF GenerationsFollow, FileReplaced
<1>12. ASSUME UNCHANGED <<spool, ghosts>>, cursor' = cursor, ~RotateLog
       PROVE  GenerationsFollow'
  <2>1. /\ UNCHANGED <<file, rotations>> /\ Len(log') >= Len(log)
    BY <1>6, <1>12
  <2>2. FileReplaced' => FileReplaced
    BY <1>1, <1>7, <1>12, <2>1 DEF FileReplaced
  <2>3. \A c \in spool \cup ghosts : c.origin # Counters =>
          (c.origin.file # file' \/ c.origin.end > Len(log') => c.origin.gen < rotations)
    BY <1>0, <1>1, <1>7, <2>1 DEF GenerationsFollow
  <2>4. QED
    BY <1>0, <1>12, <2>1, <2>2, <2>3 DEF GenerationsFollow
<1>13. \/ cursor' = cursor
       \/ PastBatch /\ UNCHANGED <<spool, ghosts, log, file, rotations>>
       \/ PrepareStateForFile
  BY CursorMoves DEF CursorUnless
<1>14. UNCHANGED <<spool, ghosts>> \/ SealCounters \/ SealSegment \/ DeleteBatch \/ Crash
  BY ShelvedUnless DEF Shelved, SealFails, Send, Settle
<1>15. QED
  BY <1>2, <1>4, <1>5, <1>8, <1>9, <1>10, <1>11, <1>12, <1>13, <1>14

-----------------------------------------------------------------------------
(* Whom a unit is billed to.                                               *)

\* The attribution map of a delivered revision is never rewritten.
LEMMA MapsKept ==
  ASSUME ConfigTyped, [Next]_vars
  PROVE  \A i \in 1..Len(maps) : maps'[i] = maps[i]
<1>1. ASSUME NEW changed \in SUBSET Rules, Deliver(changed)
      PROVE  \A i \in 1..Len(maps) : maps'[i] = maps[i]
  <2> DEFINE Map == {HomeOnly} \cup [Rules -> Groups \cup {Unmapped}]
  <2>1. Served(TRUE) \in Map /\ maps \in Seq(Map)
    BY ServedTyped DEF ConfigTyped
  <2>2. maps' = Append(maps, Served(TRUE))
    BY <1>1 DEF Deliver
  <2> HIDE DEF Map
  <2>3. QED
    BY <2>1, <2>2, AppendProperties
<1>2. (\E changed \in SUBSET Rules : Deliver(changed)) \/ maps' = maps
  BY DEF Next, vars, configVars, MoveRule, RefreshSniDns, Forward, SealCounters,
     SealFails, CommitCounters, RecoverCheckpoint, PrepareStateForFile, SealSegment,
     AdvanceCursor, RotateLog, Send, Settle, Refuse, Timeout, DeleteBatch, Crash
<1>3. QED
  BY <1>1, <1>2

\* A settlement bills each unit to the group of its revision's map or to nobody.
LEMMA BilledStep == IInv /\ BilledWhereForwarded /\ [Next]_vars => BilledWhereForwarded'
<1> SUFFICES ASSUME IInv, BilledWhereForwarded, [Next]_vars PROVE BilledWhereForwarded'
  OBVIOUS
<1>0. Typed /\ BooksTyped /\ ConfigTyped /\ UnitsKnown
  BY DEF IInv, Typed
<1> DEFINE Fair(e, u) ==
             unit[u].rev = unit[u].since /\ maps[unit[u].since] # HomeOnly =>
               e.to[unit[u].rule] \in {maps[unit[u].since][unit[u].rule], Unbillable}
<1>1. \A u \in 1..Len(unit) : unit'[u] = unit[u]
  BY <1>0, UnitUnless, ForwardAppends
<1>2. \A u \in 1..Len(unit) : maps'[unit[u].since] = maps[unit[u].since]
  BY <1>0, MapsKept, UnitTyped
<1>3. ASSUME NEW e, e.units \subseteq 1..Len(unit), \A u \in e.units : Fair(e, u),
             NEW u \in e.units
      PROVE  Fair(e, u)'
  BY <1>1, <1>2, <1>3
<1>4. ASSUME NEW i \in DOMAIN ledger
      PROVE  ledger[i].units \subseteq 1..Len(unit) /\ \A u \in ledger[i].units : Fair(ledger[i], u)
  BY <1>0 DEF UnitsKnown, BilledWhereForwarded, Settled
<1>5. ASSUME NEW b \in net, Settle(b), ~Applied(b)
      PROVE  /\ Settlement(b).units \subseteq 1..Len(unit)
             /\ \A u \in Settlement(b).units : Fair(Settlement(b), u)
  <2>1. /\ Settlement(b).units = b.units
        /\ Settlement(b).to = [r \in RulesOf(b) |-> BillTo(b, r)]
    BY DEF Settlement
  <2>2. \A u \in b.units : u \in 1..Len(unit) /\ unit[u].rev = b.rev
    BY <1>0 DEF UnitsKnown
  <2>3. ASSUME NEW u \in b.units, unit[u].rev = unit[u].since, maps[unit[u].since] # HomeOnly
        PROVE  Settlement(b).to[unit[u].rule] \in {maps[unit[u].since][unit[u].rule], Unbillable}
    <3>1. unit[u].rule \in RulesOf(b) /\ b.rev = unit[u].since
      BY <2>2, <2>3 DEF RulesOf
    <3>2. b.rev # 0
      BY <1>0, <2>2, <3>1, UnitTyped, BoundsAreNaturals DEF ConfigTyped
    <3>3. ~HomeAccounting(b)
      BY <2>3, <3>1, <3>2 DEF HomeAccounting
    <3>4. BillTo(b, unit[u].rule) \in {maps[b.rev][unit[u].rule], Unbillable}
      BY <3>3 DEF BillTo
    <3>5. QED
      BY <2>1, <3>1, <3>4
  <2>4. QED
    BY <2>1, <2>2, <2>3
<1>6. ASSUME NEW i \in DOMAIN ledger', NEW e, e = ledger'[i], NEW u \in e.units
      PROVE  Fair(e, u)'
  <2>1. ledger' = ledger \/ \E b \in net : Settle(b) /\ ~Applied(b)
    BY ShelvedUnless DEF Shelved, SealCounters, SealSegment, SealFails, Send, Settle,
       DeleteBatch, Crash
  <2>2. CASE ledger' = ledger
    BY <1>3, <1>4, <1>6, <2>2
  <2>3. ASSUME NEW b \in net, Settle(b), ~Applied(b) PROVE Fair(e, u)'
    <3> DEFINE n == Len(ledger) + 1
    <3>1. /\ DOMAIN ledger' = 1..n /\ DOMAIN ledger = 1..Len(ledger) /\ Len(ledger) \in Nat
          /\ \A k \in DOMAIN ledger : ledger'[k] = ledger[k]
          /\ ledger'[n] = Settlement(b)
      BY <1>0, <2>3, SettleAppends
    <3>2. i \in DOMAIN ledger \/ i = n
      BY <1>6, <3>1
    <3> HIDE DEF n
    <3>3. CASE i \in DOMAIN ledger
      BY <1>3, <1>4, <1>6, <3>1, <3>3
    <3>4. CASE i = n
      BY <1>3, <1>5, <1>6, <2>3, <3>1, <3>4
    <3>5. QED
      BY <3>2, <3>3, <3>4
  <2>4. QED
    BY <2>1, <2>2, <2>3
<1>7. QED
  BY <1>6 DEF BilledWhereForwarded, Settled

-----------------------------------------------------------------------------
(* No unit is in two batches.                                              *)

\* What any batch holds, on disk or in the panel's ledger.
Written == Sealed \cup Settled

\* A unit is counted or logged, and logged once.
LogApart ==
  /\ \A i, j \in DOMAIN log : log[i] = log[j] => i = j
  /\ \A i \in DOMAIN log : log[i] \notin counter

\* Counted units are in no batch but the one whose commit is next, unless the
\* outcome of a seal is unknown.
CounterApart ==
  ~poisoned =>
    \A b \in Written : \/ phase = "commit" /\ b.seq = nextSeq - 1
                      \/ counter \cap b.units = {}

\* A line of the log that is in a batch is behind the cursor, or behind where
\* the cursor goes next.
LogSealed ==
  \A k \in DOMAIN log : \A b \in Written : log[k] \in b.units =>
    /\ cursor.file = file /\ cursor.off <= Len(log)
    /\ \A c \in Recoverable : c.origin.end <= Len(log)
    /\ k <= cursor.off \/ \E c \in Recoverable : k <= c.origin.end

\* The batch the cursor stands before holds the lines it will pass.
BatchHolds ==
  \A c \in Recoverable : c.origin.file = file /\ ~truncated =>
    /\ c.origin.end <= Len(log)
    /\ \A i \in c.origin.start + 1 .. c.origin.end : log[i] \in c.units

\* No unit is in two batches, with what makes this inductive.
Once == LogApart /\ CounterApart /\ LogSealed /\ BatchHolds /\ NoUnitInTwoBatches

\* Sealing apart, a step adds no units to the books.
LEMMA BooksKept ==
  ASSUME IInv, [Next]_vars, ~SealCounters, ~SealSegment
  PROVE  \A b \in Written' : \E c \in Written : c.seq = b.seq /\ c.units = b.units
<1>0. Typed /\ BooksTyped /\ UnitsKnown /\ Fifo
  BY DEF IInv, Typed
<1>1. CASE UNCHANGED <<spool, ghosts, ledger>>
  BY <1>1 DEF Written, Sealed, Settled
<1>2. ASSUME NEW b \in net, Settle(b), ~Applied(b)
      PROVE  \A e \in Written' : \E c \in Written : c.seq = e.seq /\ c.units = e.units
  <2> DEFINE n == Len(ledger) + 1
  <2>1. /\ UNCHANGED <<spool, ghosts>>
        /\ DOMAIN ledger' = 1..n /\ DOMAIN ledger = 1..Len(ledger) /\ Len(ledger) \in Nat
        /\ \A i \in DOMAIN ledger : ledger'[i] = ledger[i]
        /\ ledger'[n] = Settlement(b)
    BY <1>0, <1>2, SettleAppends
  <2>2. b \in spool
    BY <1>0, <1>2 DEF Fifo
  <2>3. Settlement(b).seq = b.seq /\ Settlement(b).units = b.units
    BY DEF Settlement
  <2>4. \A i \in DOMAIN ledger' : i \in DOMAIN ledger \/ i = n
    BY <2>1
  <2> HIDE DEF n
  <2>5. QED
    BY <2>1, <2>2, <2>3, <2>4 DEF Written, Sealed, Settled
<1>3. CASE DeleteBatch
  <2>1. Oldest \in spool
    BY <1>0, <1>3, OldestIsFirst, BoundsAreNaturals
       DEF DeleteBatch, DeletePhases, BooksTyped, Fifo
  <2>2. spool' \cup ghosts' \subseteq spool \cup ghosts /\ ledger' = ledger
    BY <1>3, <2>1 DEF DeleteBatch
  <2>3. QED
    BY <2>2 DEF Written, Sealed, Settled
<1>4. CASE Crash
  BY <1>4 DEF Crash, Written, Sealed, Settled
<1>5. \/ UNCHANGED <<spool, ghosts, ledger>> \/ DeleteBatch \/ Crash
      \/ \E b \in net : Settle(b) /\ ~Applied(b)
  BY ShelvedUnless DEF Shelved, SealFails, Send, Settle
<1>6. QED
  BY <1>1, <1>2, <1>3, <1>4, <1>5

\* The batch a seal adds, if its installation succeeds.
LEMMA BooksAdded ==
  ASSUME NEW b, Seals(b)
  PROVE  Written' \subseteq Written \cup {b}
BY DEF Seals, Installed, InstallUncertain, Written, Sealed, Settled

\* A sealed batch takes units that no batch holds.
LEMMA CounterBatchIsNew ==
  ASSUME IInv, Once, SealCounters
  PROVE  \A c \in Written : CounterBatch.units \cap c.units = {}
<1>0. Typed
  BY DEF IInv
<1>1. Seals(CounterBatch) /\ counter # {} /\ nextSeq <= MaxSeq /\ phase = "idle" /\ ~poisoned
  BY <1>0, SealCountersSeals DEF Seals
<1>2. CounterBatch.units \subseteq counter
  BY <1>0, <1>1, CounterBatchIs
<1>3. \A c \in Written : counter \cap c.units = {}
  BY <1>1 DEF Once, CounterApart
<1>4. QED
  BY <1>2, <1>3

\* The units of a log batch are the lines from the cursor to the segment's end
\* and nothing else.
LEMMA LogBatchLines ==
  ASSUME IInv, Once, SealSegment
  PROVE  /\ cursor.off \in Nat /\ Len(log) \in Nat /\ SegmentEnd \in cursor.off + 1 .. Len(log)
         /\ LogBatch.origin.start = cursor.off /\ LogBatch.origin.end = SegmentEnd
         /\ \A i \in cursor.off + 1 .. SegmentEnd : i \in DOMAIN log /\ log[i] \in LogBatch.units
         /\ \A u \in LogBatch.units : u \notin counter
         /\ \A k \in DOMAIN log : log[k] \in LogBatch.units => k \in cursor.off + 1 .. SegmentEnd
         /\ \A u \in LogBatch.units : \E k \in cursor.off + 1 .. SegmentEnd : u = log[k]
<1>0. Typed /\ BooksTyped /\ LogApart
  BY DEF IInv, Typed, Once
<1>1. Seals(LogBatch) /\ cursor.off < Len(log) /\ nextSeq <= MaxSeq
  BY <1>0, SealSegmentSeals DEF Seals
<1>2. /\ SegmentEnd \in cursor.off + 1 .. Len(log) /\ LogBatch.units = Segment
      /\ LogBatch.origin.start = cursor.off /\ LogBatch.origin.end = SegmentEnd
  BY <1>0, <1>1, LogBatchIs
<1>3. cursor.off \in Nat /\ Len(log) \in Nat /\ DOMAIN log = 1..Len(log)
  BY <1>0, CheckpointNumbers, LogTyped
<1>4. \A i \in cursor.off + 1 .. SegmentEnd : i \in DOMAIN log
  BY <1>2, <1>3
<1>5. \A u \in LogBatch.units : \E k \in cursor.off + 1 .. SegmentEnd : u = log[k]
  BY <1>2 DEF Segment
<1>6. \A i \in cursor.off + 1 .. SegmentEnd : log[i] \in LogBatch.units
  BY <1>2 DEF Segment
<1>7. \A k \in DOMAIN log : log[k] \in LogBatch.units => k \in cursor.off + 1 .. SegmentEnd
  BY <1>0, <1>4, <1>5 DEF LogApart
<1>8. \A u \in LogBatch.units : u \notin counter
  BY <1>0, <1>4, <1>5 DEF LogApart
<1>9. QED
  BY <1>2, <1>3, <1>4, <1>5, <1>6, <1>7, <1>8

\* A segment is sealed only from lines that no batch holds: its lines are behind
\* the cursor, those of earlier batches are before it.
LEMMA LogBatchIsNew ==
  ASSUME IInv, Once, SealSegment
  PROVE  \A c \in Written : LogBatch.units \cap c.units = {}
<1> SUFFICES ASSUME NEW c \in Written, NEW u \in LogBatch.units, u \in c.units PROVE FALSE
  OBVIOUS
<1>1. Recoverable = {}
  BY SealSegmentSeals DEF IInv
<1>2. PICK k \in cursor.off + 1 .. SegmentEnd : u = log[k] /\ k \in DOMAIN log
  BY LogBatchLines
<1>3. k <= cursor.off
  BY <1>1, <1>2 DEF Once, LogSealed
<1>4. QED
  BY <1>2, <1>3, LogBatchLines

\* What a written batch holds has been forwarded before this step.
LEMMA WrittenKnown ==
  ASSUME IInv
  PROVE  \A b \in Written : b.units \subseteq 1..Len(unit)
BY DEF IInv, UnitsKnown, Written, Sealed, Settled

\* Every step keeps the batches disjoint.
LEMMA NoUnitStep == IInv /\ Once /\ [Next]_vars => NoUnitInTwoBatches'
<1> SUFFICES ASSUME IInv, Once, [Next]_vars PROVE NoUnitInTwoBatches'
  OBVIOUS
<1>0. \A b, c \in Written : b.seq # c.seq => b.units \cap c.units = {}
  BY DEF Once, NoUnitInTwoBatches, Written
<1>1. ASSUME NEW n, Seals(n), \A c \in Written : n.units \cap c.units = {}
      PROVE  NoUnitInTwoBatches'
  BY <1>0, <1>1, BooksAdded DEF NoUnitInTwoBatches, Written
<1>2. CASE SealCounters
  BY <1>1, <1>2, SealCountersSeals, CounterBatchIsNew DEF IInv
<1>3. CASE SealSegment
  BY <1>1, <1>3, SealSegmentSeals, LogBatchIsNew DEF IInv
<1>4. CASE ~SealCounters /\ ~SealSegment
  <2>1. \A b \in Written' : \E c \in Written : c.seq = b.seq /\ c.units = b.units
    BY <1>4, BooksKept
  <2>2. \A b, c \in Written' : b.seq # c.seq => b.units \cap c.units = {}
    BY <1>0, <2>1
  <2>3. QED
    BY <2>2 DEF NoUnitInTwoBatches, Written
<1>5. QED
  BY <1>2, <1>3, <1>4

\* Lines of the log are never counted in memory too, nor twice in the log.
LEMMA LogApartStep == IInv /\ Once /\ [Next]_vars => LogApart'
<1> SUFFICES ASSUME IInv, Once, [Next]_vars PROVE LogApart'
  OBVIOUS
<1>0. Typed /\ TrafficTyped /\ LogApart
  BY DEF IInv, Typed, Once
<1>1. CASE log' = log /\ counter' \subseteq counter
  BY <1>0, <1>1 DEF LogApart
<1>2. CASE RotateLog
  <2>1. log' = << >>
    BY <1>2 DEF RotateLog
  <2>2. QED
    BY <2>1 DEF LogApart
<1>3. ASSUME NEW c \in open, Forward(c) PROVE LogApart'
  <2> DEFINE n == Len(unit) + 1
  <2>1. n \notin counter /\ (\A i \in DOMAIN log : log[i] # n) /\ n \in Nat
    <3>1. Len(unit) \in Nat /\ counter \subseteq 1..Len(unit)
      BY <1>0, <1>3, ForwardAppends DEF TrafficTyped
    <3>2. QED
      BY <1>0, <3>1, LogTyped
  <2>2. \/ log' = log /\ counter' = counter \cup {n}
        \/ log' = Append(log, n) /\ counter' = counter
    BY <1>3 DEF Forward
  <2> HIDE DEF n
  <2>3. CASE log' = log /\ counter' = counter \cup {n}
    BY <1>0, <2>1, <2>3 DEF LogApart
  <2>4. CASE log' = Append(log, n) /\ counter' = counter
    <3>1. log \in Seq(Nat) /\ DOMAIN log = 1..Len(log) /\ Len(log) \in Nat
      <4>1. DOMAIN log = 1..Len(log) /\ Len(log) \in Nat /\ \A i \in 1..Len(log) : log[i] \in Nat
        BY <1>0, LogTyped
      <4>2. log \in Seq(1..Len(unit))
        BY <1>0 DEF TrafficTyped
      <4>3. QED
        BY <4>1, <4>2, IsASeq, LenProperties
    <3>2. /\ DOMAIN log' = 1..Len(log) + 1 /\ log'[Len(log) + 1] = n
          /\ \A i \in 1..Len(log) : log'[i] = log[i]
      BY <2>1, <2>4, <3>1, AppendProperties, LenProperties
    <3>3. \A i \in DOMAIN log' : i \in DOMAIN log \/ i = Len(log) + 1
      BY <3>1, <3>2
    <3>4. \A i \in DOMAIN log' : log'[i] \notin counter
      BY <1>0, <2>1, <3>1, <3>2, <3>3 DEF LogApart
    <3>5. \A i, j \in DOMAIN log' : log'[i] = log'[j] => i = j
      BY <1>0, <2>1, <3>1, <3>2, <3>3 DEF LogApart
    <3>6. QED
      BY <2>4, <3>4, <3>5 DEF LogApart
  <2>5. QED
    BY <2>2, <2>3, <2>4
<1>4. (log' = log /\ counter' \subseteq counter) \/ RotateLog \/ \E c \in open : Forward(c)
  BY DEF Next, vars, nodeVars, MoveRule, Deliver, RefreshSniDns, SealCounters,
     SealFails, CommitCounters, RecoverCheckpoint, PrepareStateForFile, SealSegment,
     AdvanceCursor, Send, Settle, Refuse, Timeout, DeleteBatch, Crash
<1>5. QED
  BY <1>1, <1>2, <1>3, <1>4

\* Counted units are in no batch but the one whose commit is due.
LEMMA CounterApartStep == IInv /\ Once /\ [Next]_vars => CounterApart'
<1> SUFFICES ASSUME IInv, Once, [Next]_vars, ~poisoned' PROVE CounterApart'
  BY DEF CounterApart
<1>0. Typed /\ BooksTyped /\ Sequenced /\ UnitsKnown /\ PhaseFollows /\ CounterApart
  BY DEF IInv, Typed, Once
<1>1. CASE SealCounters
  <2>1. Seals(CounterBatch) /\ counter # {} /\ nextSeq <= MaxSeq /\ phase = "idle" /\ ~poisoned
    BY <1>0, <1>1, SealCountersSeals DEF Seals
  <2>2. CounterBatch.seq = nextSeq /\ nextSeq \in Nat
    BY <1>0, <2>1, CounterBatchIs, BoundsAreNaturals DEF BooksTyped
  <2>3. phase' = "commit" /\ nextSeq' = nextSeq + 1 /\ counter' = counter
    BY <1>1 DEF SealCounters, Installed, InstallUncertain, Reserve
  <2>4. \A b \in Written : counter \cap b.units = {}
    BY <1>0, <2>1 DEF CounterApart
  <2>5. QED
    BY <2>1, <2>2, <2>3, <2>4, BooksAdded DEF CounterApart
<1>2. CASE SealSegment
  <2>1. Seals(LogBatch) /\ phase = "idle" /\ ~poisoned /\ counter' = counter
    BY <1>0, <1>2, SealSegmentSeals DEF Seals
  <2>2. counter \cap LogBatch.units = {}
    BY <1>2, LogBatchLines
  <2>3. \A b \in Written : counter \cap b.units = {}
    BY <1>0, <2>1 DEF CounterApart
  <2>4. QED
    BY <2>1, <2>2, <2>3, BooksAdded DEF CounterApart
<1>3. CASE CommitCounters
  <2>1. PICK b \in spool : b.seq = nextSeq - 1
    BY <1>0, <1>3 DEF CommitCounters, PhaseFollows
  <2>2. Newest = b
    BY <1>0, <2>1, NewestIs
  <2>3. counter' = counter \ b.units /\ ~poisoned /\ UNCHANGED <<spool, ghosts, ledger>>
    BY <1>3, <2>2 DEF CommitCounters
  <2>4. \A c \in Written : c.seq = nextSeq - 1 => c.units = b.units
    BY <1>0, <2>1 DEF Sequenced, Written, Sealed, Settled
  <2>5. \A c \in Written : c.seq # nextSeq - 1 => counter \cap c.units = {}
    BY <1>0, <2>3 DEF CounterApart
  <2>6. \A c \in Written : counter' \cap c.units = {}
    BY <2>3, <2>4, <2>5
  <2>7. Written' = Written
    BY <2>3 DEF Written, Sealed, Settled
  <2>8. QED
    BY <2>6, <2>7 DEF CounterApart
<1>4. CASE Crash
  BY <1>4 DEF Crash, CounterApart
<1>5. ASSUME ~SealCounters, ~SealSegment, ~poisoned,
             phase = "commit" => phase' = "commit" /\ nextSeq' = nextSeq,
             NEW n, counter' \subseteq counter \cup {n}, \A b \in Written : n \notin b.units
      PROVE  CounterApart'
  <2>1. \A b \in Written : \/ phase = "commit" /\ b.seq = nextSeq - 1
                           \/ counter' \cap b.units = {}
    BY <1>0, <1>5 DEF CounterApart
  <2>2. \A b \in Written' : \E c \in Written : c.seq = b.seq /\ c.units = b.units
    BY <1>5, BooksKept
  <2>3. QED
    BY <1>5, <2>1, <2>2 DEF CounterApart
<1>6. ASSUME NEW c \in open, Forward(c) PROVE CounterApart'
  <2>1. \A b \in Written : Len(unit) + 1 \notin b.units
    BY <1>0, <1>6, WrittenKnown, ForwardAppends
  <2>2. UNCHANGED <<poisoned, phase, nextSeq, spool, ghosts, ledger>>
        /\ counter' \subseteq counter \cup {Len(unit) + 1}
    BY <1>6 DEF Forward
  <2>3. Written' = Written
    BY <2>2 DEF Written, Sealed, Settled
  <2>4. QED
    BY <1>0, <2>1, <2>2, <2>3 DEF CounterApart
<1>7. \/ SealCounters \/ SealSegment \/ CommitCounters \/ Crash \/ \E c \in open : Forward(c)
      \/ /\ ~poisoned /\ counter' = counter
         /\ phase = "commit" => phase' = "commit" /\ nextSeq' = nextSeq
  BY DEF Next, vars, nodeVars, MoveRule, Deliver, RefreshSniDns, SealFails, RecoverCheckpoint,
     PrepareStateForFile, AdvanceCursor, WritesCursor, RotateLog, Send, Settle, Refuse,
     Answers, Timeout, DeleteBatch, DeletePhases
<1>8. \A b \in Written : 0 \notin b.units
  BY WrittenKnown
<1>9. QED
  BY <1>1, <1>2, <1>3, <1>4, <1>5, <1>6, <1>7, <1>8

\* A line that is in a batch was in the log and in a batch before, unless the
\* step sealed it.
LEMMA SealedLine ==
  ASSUME IInv, [Next]_vars, ~SealSegment, ~SealCounters, ~RotateLog,
         NEW k \in DOMAIN log', NEW n, n = log'[k], NEW b \in Written', n \in b.units
  PROVE  k \in DOMAIN log /\ log[k] = n /\ \E c \in Written : n \in c.units
<1>0. Typed /\ TrafficTyped /\ TrafficTyped'
  BY TrafficStep DEF IInv, Typed
<1>1. \E c \in Written : n \in c.units
  BY BooksKept
<1>2. n \in 1..Len(unit)
  BY <1>1, WrittenKnown
<1>3. CASE log' = log
  BY <1>1, <1>3
<1>4. ASSUME NEW c \in open, Forward(c), log' = Append(log, Len(unit) + 1)
      PROVE  k \in DOMAIN log /\ log[k] = n
  <2>1. Len(unit) \in Nat /\ log \in Seq(1..Len(unit)) /\ DOMAIN log = 1..Len(log) /\ Len(log) \in Nat
    BY <1>0, <1>4, ForwardAppends, LogTyped DEF TrafficTyped
  <2>2. log \in Seq(Nat)
    <3>1. \A i \in 1..Len(log) : log[i] \in Nat
      BY <2>1, ElementOfSeq
    <3>2. QED
      BY <2>1, <3>1, IsASeq, LenProperties
  <2>3. /\ DOMAIN log' = 1..Len(log) + 1 /\ log'[Len(log) + 1] = Len(unit) + 1
        /\ \A i \in 1..Len(log) : log'[i] = log[i]
    BY <1>4, <2>1, <2>2, AppendProperties, LenProperties
  <2>4. k # Len(log) + 1
    BY <1>2, <2>1, <2>3
  <2>5. k \in 1..Len(log)
    BY <2>1, <2>3, <2>4
  <2>6. QED
    BY <2>1, <2>3, <2>5
<1>5. log' = log \/ RotateLog \/ \E c \in open : Forward(c) /\ log' = Append(log, Len(unit) + 1)
  BY DEF Next, vars, nodeVars, MoveRule, Deliver, RefreshSniDns, Forward, SealCounters,
     SealFails, CommitCounters, RecoverCheckpoint, PrepareStateForFile, SealSegment,
     AdvanceCursor, Send, Settle, Refuse, Timeout, DeleteBatch, Crash
<1>6. QED
  BY <1>1, <1>3, <1>4, <1>5

\* Lines of the present file that are in a batch are before the cursor or in
\* the one batch it still has to pass.
LEMMA LogSealedStep == IInv /\ Once /\ [Next]_vars => LogSealed'
<1> SUFFICES ASSUME IInv, Once, [Next]_vars PROVE LogSealed'
  OBVIOUS
<1>0. Typed /\ BooksTyped /\ LogSealed /\ LogApart /\ CursorFollows
  BY DEF IInv, Typed, Once
<1> DEFINE Behind(k) ==
             /\ cursor.file = file /\ cursor.off <= Len(log)
             /\ \A c \in Recoverable : c.origin.end <= Len(log)
             /\ k <= cursor.off \/ \E c \in Recoverable : k <= c.origin.end
<1>1. /\ cursor.off \in Nat /\ Len(log) \in Nat /\ DOMAIN log = 1..Len(log)
      /\ \A c \in Recoverable : c.origin.end \in Nat
  BY <1>0, CheckpointNumbers, LogTyped DEF Recoverable
<1>2. Len(log') \in Nat
  <2>1. log' \in Seq(1..Len(unit'))
    BY TrafficStep DEF IInv, TrafficTyped
  <2>2. QED
    BY <2>1, LenProperties
<1>3. CASE RotateLog
  <2>1. DOMAIN log' = {}
    BY <1>3 DEF RotateLog
  <2>2. QED
    BY <2>1 DEF LogSealed
<1>4. CASE SealCounters
  <2>1. Seals(CounterBatch) /\ counter # {} /\ nextSeq <= MaxSeq
    BY <1>0, <1>4, SealCountersSeals DEF Seals
  <2>2. CounterBatch.units \subseteq counter
    BY <1>0, <2>1, CounterBatchIs
  <2>3. UNCHANGED <<cursor, log, file>> /\ Written' \subseteq Written \cup {CounterBatch}
    BY <2>1, BooksAdded DEF Seals
  <2>4. Recoverable' = Recoverable
    <3>1. CounterBatch.origin = Counters
      BY <1>0, <2>1, CounterBatchIs
    <3>2. spool \subseteq spool' /\ spool' \subseteq spool \cup {CounterBatch}
      BY <2>1 DEF Seals, Installed, InstallUncertain
    <3>3. QED
      BY <2>3, <3>1, <3>2 DEF Recoverable
  <2>5. \A k \in DOMAIN log : log[k] \notin CounterBatch.units
    BY <1>0, <2>2 DEF LogApart
  <2>6. QED
    BY <1>0, <2>3, <2>4, <2>5 DEF LogSealed
<1>5. CASE SealSegment
  <2>1. /\ Seals(LogBatch) /\ Recoverable = {} /\ cursor.file = file /\ cursor.off <= Len(log)
    BY <1>0, <1>1, <1>5, SealSegmentSeals DEF FileReplaced
  <2>2. UNCHANGED <<cursor, log, file>> /\ Written' \subseteq Written \cup {LogBatch}
    BY <2>1, BooksAdded DEF Seals
  <2>3. Recoverable' \subseteq {LogBatch} /\ (LogBatch \in spool' => LogBatch \in Recoverable')
    <3>1. /\ LogBatch.origin # Counters /\ LogBatch.origin.file = file
          /\ LogBatch.origin.gen = cursor.gen /\ LogBatch.origin.start = cursor.off
      BY <1>0, <2>1, SealSegmentSeals, LogBatchIs, <1>5, CountersAreNoCheckpoint DEF Seals
    <3>2. spool' \subseteq spool \cup {LogBatch}
      BY <2>1 DEF Seals, Installed, InstallUncertain
    <3>3. QED
      BY <2>1, <2>2, <3>1, <3>2 DEF Recoverable
  <2>4. LogBatch.origin.end = SegmentEnd /\ SegmentEnd <= Len(log)
    BY <1>1, <1>5, LogBatchLines
  <2>5. ASSUME NEW k \in DOMAIN log, NEW b \in Written, log[k] \in b.units
        PROVE  k <= cursor.off
    BY <1>0, <2>1, <2>5 DEF LogSealed
  <2>6. ASSUME NEW k \in DOMAIN log, log[k] \in LogBatch.units
        PROVE  k <= LogBatch.origin.end
    BY <1>1, <1>5, <2>4, <2>6, LogBatchLines
  <2>7. \A b \in Written' : b \in Written \/ LogBatch \in Recoverable'
    <3>1. LogBatch \in Written' => LogBatch \in spool' \/ LogBatch \in Written
      BY <2>1 DEF Seals, Installed, InstallUncertain, Written, Sealed, Settled
    <3>2. QED
      BY <2>2, <2>3, <3>1
  <2>8. QED
    BY <2>1, <2>2, <2>3, <2>4, <2>5, <2>6, <2>7 DEF LogSealed
<1>6. ASSUME ~SealCounters, ~SealSegment, ~RotateLog,
             NEW k \in DOMAIN log', NEW n, n = log'[k], NEW b \in Written', n \in b.units
      PROVE  Behind(k)'
  <2>1. Behind(k) /\ k \in DOMAIN log
    BY <1>0, <1>6, SealedLine DEF LogSealed
  <2>2. file' = file /\ Len(log') >= Len(log)
    BY <1>0, <1>6, LogUnless
  <2>3. CASE cursor' = cursor
    BY <1>1, <1>2, <1>6, <2>1, <2>2, <2>3, RecoverableKept
  <2>4. CASE PastBatch /\ UNCHANGED <<spool, ghosts, log, file, rotations, truncated>>
    <3>1. PICK c \in Recoverable :
             /\ c.origin.start = cursor.off /\ c.origin.start < c.origin.end
             /\ cursor'.file = cursor.file /\ cursor'.off = c.origin.end
      BY <1>0, <2>4, PastBatchCrosses
    <3>2. Recoverable' = {} /\ \A d \in Recoverable : d = c
      BY <1>0, <2>4, PastBatchCrosses DEF CursorFollows
    <3>3. k <= c.origin.end
      BY <1>1, <2>1, <3>1, <3>2
    <3>4. QED
      BY <2>1, <2>4, <3>1, <3>2, <3>3
  <2>5. CASE PrepareStateForFile
    BY <1>1, <2>1, <2>5 DEF PrepareStateForFile, FileReplaced
  <2>6. QED
    BY <2>3, <2>4, <2>5, CursorMoves DEF CursorUnless
<1>7. QED
  BY <1>3, <1>4, <1>5, <1>6 DEF LogSealed

\* A batch of the present file goes on holding the lines between its offsets.
LEMMA BatchHoldsStep == IInv /\ Once /\ [Next]_vars => BatchHolds'
<1> SUFFICES ASSUME IInv, Once, [Next]_vars PROVE BatchHolds'
  OBVIOUS
<1>0. Typed /\ BooksTyped /\ TrafficTyped /\ BatchHolds /\ CursorFollows
  BY DEF IInv, Typed, Once
<1>1. /\ Len(log) \in Nat /\ DOMAIN log = 1..Len(log) /\ file \in Nat
      /\ \A c \in Recoverable : c.origin.start \in Nat /\ c.origin.end \in Nat /\ c.origin.file \in Nat
  BY <1>0, CheckpointNumbers, LogTyped, BoundsAreNaturals DEF Recoverable, TrafficTyped
<1>2. CASE Recoverable' = {}
  BY <1>2 DEF BatchHolds
<1>3. CASE RotateLog
  <2>1. cursor' = cursor /\ spool' = spool /\ truncated' = (truncated \/ file' = file)
          /\ file' \in {file, file + 1}
    BY <1>3 DEF RotateLog
  <2>2. Recoverable' = Recoverable
    BY <2>1 DEF Recoverable
  <2>3. \A c \in Recoverable : c.origin.file <= file
    BY <1>0 DEF CursorFollows, Recoverable
  <2>4. \A c \in Recoverable : c.origin.file = file' => truncated'
    <3>1. file' = file => truncated'
      BY <2>1
    <3>2. file' # file => \A c \in Recoverable : c.origin.file # file'
      <4>1. file' # file => file' = file + 1
        BY <1>3 DEF RotateLog
      <4>2. QED
        BY <1>1, <2>3, <4>1
    <3>3. QED
      BY <3>1, <3>2
  <2>5. QED
    BY <2>2, <2>4 DEF BatchHolds
<1>4. CASE SealSegment
  <2>1. /\ Seals(LogBatch) /\ Recoverable = {}
    BY <1>0, <1>4, SealSegmentSeals
  <2>2. Recoverable' \subseteq {LogBatch} /\ log' = log
    <3>1. spool' \subseteq spool \cup {LogBatch} /\ UNCHANGED <<cursor, log>>
      BY <2>1 DEF Seals, Installed, InstallUncertain
    <3>2. QED
      BY <2>1, <3>1 DEF Recoverable
  <2>3. /\ LogBatch.origin.end <= Len(log)
        /\ \A i \in LogBatch.origin.start + 1 .. LogBatch.origin.end : log[i] \in LogBatch.units
    BY <1>1, <1>4, LogBatchLines
  <2>4. QED
    BY <2>2, <2>3 DEF BatchHolds
<1>5. ASSUME ~RotateLog, ~SealSegment, cursor' = cursor, truncated' = truncated
      PROVE  BatchHolds'
  <2>1. Recoverable' = Recoverable
    BY <1>5, RecoverableKept
  <2>2. /\ file' = file /\ Len(log') >= Len(log)
        /\ \A i \in 1..Len(log) : log'[i] = log[i]
    BY <1>0, <1>5, LogUnless
  <2>3. Len(log') \in Nat
    <3>1. log' \in Seq(1..Len(unit'))
      BY TrafficStep DEF IInv, TrafficTyped
    <3>2. QED
      BY <3>1, LenProperties
  <2>4. ASSUME NEW c \in Recoverable, c.origin.file = file, ~truncated
        PROVE  /\ c.origin.end <= Len(log')
               /\ \A i \in c.origin.start + 1 .. c.origin.end : log'[i] \in c.units
    <3>1. /\ c.origin.end <= Len(log)
          /\ \A i \in c.origin.start + 1 .. c.origin.end : log[i] \in c.units
      BY <1>0, <2>4 DEF BatchHolds
    <3>2. \A i \in c.origin.start + 1 .. c.origin.end : i \in 1..Len(log)
      BY <1>1, <3>1
    <3>3. QED
      BY <1>1, <2>2, <2>3, <3>1, <3>2
  <2>5. QED
    BY <1>5, <2>1, <2>2, <2>4 DEF BatchHolds
<1>6. truncated' = truncated \/ RotateLog \/ PrepareStateForFile
  BY DEF Next, vars, nodeVars, MoveRule, Deliver, RefreshSniDns, Forward, SealCounters,
     SealFails, CommitCounters, RecoverCheckpoint, SealSegment,
     AdvanceCursor, Send, Settle, Refuse, Timeout, DeleteBatch, Crash
<1>7. CASE PrepareStateForFile
  <2>1. /\ Recoverable = {} /\ cursor'.gen = cursor.gen + 1 /\ spool' = spool
    BY <1>7 DEF PrepareStateForFile, NextGeneration
  <2>2. \A c \in spool : c.origin # Counters => c.origin.gen <= cursor.gen
    BY <1>0, <2>1, CheckpointNumbers DEF CursorFollows, Crossed
  <2>3. \A c \in spool : c.origin # Counters => c.origin.gen # cursor'.gen
    BY <1>0, <2>1, <2>2, CheckpointNumbers
  <2>4. QED
    BY <1>2, <2>1, <2>3 DEF Recoverable
<1>8. CASE PastBatch /\ UNCHANGED <<spool, ghosts>>
  BY <1>0, <1>2, <1>8, PastBatchCrosses
<1>9. QED
  BY <1>3, <1>4, <1>5, <1>6, <1>7, <1>8, CursorMoves DEF CursorUnless

-----------------------------------------------------------------------------
(* The invariant, and what it implies.                                     *)

\* The inductive invariant.
Inv == IInv /\ SettledOnceInSealOrder /\ BilledWhereForwarded /\ Once

\* A sequence of one element.
LEMMA Singleton ==
  ASSUME NEW S, NEW x \in S
  PROVE  <<x>> \in Seq(S) /\ Len(<<x>>) = 1
OBVIOUS

\* The invariant holds when strict reporting starts.
LEMMA InitInv == Init => Inv
<1> SUFFICES ASSUME Init PROVE Inv
  OBVIOUS
<1>1. ConfigTyped
  <2> DEFINE Map == {HomeOnly} \cup [Rules -> Groups \cup {Unmapped}]
  <2>1. group \in [Rules -> Places] /\ moves = 0 /\ faults = 0
    BY DEF Init, Places
  <2>2. PICK exact \in BOOLEAN :
          /\ maps = <<IF exact THEN Served(TRUE) ELSE HomeOnly>>
          /\ tag = Listening(Served(exact), 1)
          /\ open = Accepting(Listening(Served(exact), 1), 1)
    BY DEF Init
  <2>3. Served(TRUE) \in [Rules -> Groups \cup {Unmapped}]
    BY <2>1, PlacesAreDistinct DEF Served
  <2>4. maps \in Seq(Map) /\ Len(maps) = 1
    <3>1. (IF exact THEN Served(TRUE) ELSE HomeOnly) \in Map
      BY <2>3
    <3> HIDE DEF Map
    <3>2. QED
      BY <2>2, <3>1, Singleton
  <2>5. tag \in [Rules -> {Unmapped} \cup 0..1]
    BY <2>2 DEF Listening
  <2>6. open \subseteq [rule : Rules, rev : 0..1, since : 1..1]
    BY <2>2, <2>5, AcceptingTyped
  <2>7. QED
    BY <2>1, <2>4, <2>5, <2>6, BoundsAreNaturals DEF ConfigTyped, Accepted
<1>2. TrafficTyped
  <2>1. unit = << >> /\ counter = {} /\ log = << >> /\ file = 1 /\ rotations = 0 /\ truncated = FALSE
    BY DEF Init
  <2>2. unit \in Seq(Accepted) /\ Len(unit) = 0 /\ log \in Seq(1..Len(unit)) /\ Len(log) = 0
    BY <2>1, EmptySeq
  <2>3. 0 \in 0..MaxFiles - 1 /\ 1 \in 1..0 + 1 /\ 0 <= MaxUnits
    BY BoundsAreNaturals
  <2>4. Len(unit) <= MaxUnits /\ Len(log) <= Len(unit) /\ counter \subseteq 1..Len(unit)
    BY <2>1, <2>2, <2>3
  <2>5. rotations \in 0..MaxFiles - 1 /\ file \in 1..rotations + 1 /\ truncated \in BOOLEAN
    <3>1. rotations = 0 /\ file = 1 /\ truncated = FALSE
      BY <2>1
    <3>2. QED
      BY <2>3, <3>1
  <2>6. QED
    BY <2>2, <2>4, <2>5 DEF TrafficTyped
<1>3. BooksTyped
  <2>1. cursor \in Cursors
    BY BoundsAreNaturals DEF Init, Cursors
  <2>2. nextSeq \in 1..MaxSeq + 1
    BY BoundsAreNaturals DEF Init
  <2>3. ledger \in Seq(Settlements)
    BY EmptySeq DEF Init
  <2>4. QED
    BY <2>1, <2>2, <2>3 DEF Init, BooksTyped, Phases
<1>4. Recoverable = {} /\ Written = {}
  BY DEF Init, Recoverable, Written, Sealed, Settled
<1>5. Sequenced /\ UnitsKnown
  BY DEF Init, Sequenced, UnitsKnown
<1>6. Fifo /\ PhaseFollows
  BY DEF Init, Fifo, PhaseFollows
<1>7. CursorFollows /\ GenerationsFollow
  BY <1>4 DEF Init, CursorFollows, GenerationsFollow, FileReplaced
<1>8. SettledOnceInSealOrder /\ BilledWhereForwarded
  BY DEF Init, SettledOnceInSealOrder, BilledWhereForwarded, Settled
<1>9. LogApart /\ CounterApart /\ LogSealed /\ BatchHolds /\ NoUnitInTwoBatches
  BY <1>4 DEF Init, LogApart, CounterApart, LogSealed, BatchHolds, NoUnitInTwoBatches, Written
<1>10. QED
  BY <1>1, <1>2, <1>3, <1>5, <1>6, <1>7, <1>8, <1>9 DEF Inv, IInv, Typed, Once

\* Every step of the node, the network and the panel keeps the invariant.
LEMMA NextInv == Inv /\ [Next]_vars => Inv'
<1> SUFFICES ASSUME Inv, [Next]_vars PROVE Inv'
  OBVIOUS
<1>1. IInv /\ SettledOnceInSealOrder /\ BilledWhereForwarded /\ Once
  BY DEF Inv
<1>2. ConfigTyped' /\ TrafficTyped' /\ BooksTyped'
  BY <1>1, ConfigStep, TrafficStep, BooksStep DEF IInv, Typed
<1>3. Sequenced' /\ UnitsKnown' /\ Fifo' /\ PhaseFollows'
  BY <1>1, SequencedStep, UnitsKnownStep, FifoStep, PhaseStep
<1>4. CursorFollows' /\ GenerationsFollow'
  BY <1>1, CursorStep, GenerationsStep
<1>5. SettledOnceInSealOrder' /\ BilledWhereForwarded' /\ NoUnitInTwoBatches'
  BY <1>1, SortedStep, BilledStep, NoUnitStep
<1>6. LogApart' /\ CounterApart' /\ LogSealed' /\ BatchHolds'
  BY <1>1, LogApartStep, CounterApartStep, LogSealedStep, BatchHoldsStep
<1>7. QED
  BY <1>2, <1>3, <1>4, <1>5, <1>6 DEF Inv, IInv, Typed, Once

\* The inductive invariant holds in every reachable state.
THEOREM Invariance == Spec => []Inv
BY InitInv, NextInv, PTL DEF Spec

\* The invariant implies the type invariant of the specification.
LEMMA InvImpliesTypeOK == Inv => TypeOK
<1> SUFFICES ASSUME Inv PROVE TypeOK
  OBVIOUS
<1>0. Typed /\ ConfigTyped /\ TrafficTyped /\ BooksTyped /\ Sequenced
  BY DEF Inv, IInv, Typed
<1>1. Accepted \subseteq Connections
  BY <1>0, BoundsAreNaturals DEF ConfigTyped, Accepted, Connections, Revisions
<1>2. open \subseteq Connections
  BY <1>0, <1>1 DEF ConfigTyped
<1>3. unit \in Seq(Connections)
  <2>1. unit \in Seq(Accepted)
    BY <1>0 DEF TrafficTyped
  <2>2. \A i \in 1..Len(unit) : unit[i] \in Connections
    BY <1>1, <2>1, ElementOfSeq
  <2>3. QED
    BY <2>1, <2>2, IsASeq, LenProperties
<1>4. log \in Seq(Units)
  <2>1. log \in Seq(1..Len(unit))
    BY <1>0 DEF TrafficTyped
  <2>2. \A i \in 1..Len(log) : log[i] \in Units
    BY <1>0, LogTyped, UnitTyped
  <2>3. QED
    BY <2>1, <2>2, IsASeq, LenProperties
<1>5. tag \in [Rules -> {Unmapped} \cup 0..MaxRev]
  BY <1>0, BoundsAreNaturals DEF ConfigTyped
<1>6. counter \subseteq Units
  BY <1>0, UnitTyped DEF TrafficTyped
<1>7. file \in 1..MaxFiles /\ rotations \in 0..MaxFiles /\ truncated \in BOOLEAN
  BY <1>0, BoundsAreNaturals DEF TrafficTyped
<1>8. /\ \A b \in spool \cup ghosts : b.seq < nextSeq
      /\ \A i \in DOMAIN ledger : ledger[i].seq < nextSeq
  BY <1>0 DEF Sequenced
<1>9. /\ cursor \in Cursors /\ spool \subseteq Batches /\ ghosts \subseteq Batches
      /\ net \subseteq Batches /\ nextSeq \in 1..MaxSeq + 1
      /\ phase \in Phases /\ poisoned \in BOOLEAN
  BY <1>0 DEF BooksTyped
<1>10. /\ group \in [Rules -> Places]
       /\ maps \in Seq({HomeOnly} \cup [Rules -> Groups \cup {Unmapped}])
       /\ moves \in 0..MaxMoves /\ faults \in 0..MaxFaults
  BY <1>0 DEF ConfigTyped
<1>11. QED
  BY <1>2, <1>3, <1>4, <1>5, <1>6, <1>7, <1>8, <1>9, <1>10 DEF TypeOK, Cursors

\* All the state of accounting keeps its types, and reserved numbers stay ahead
\* of every batch and settlement.
THEOREM TypeCorrect == Spec => []TypeOK
BY Invariance, InvImpliesTypeOK, PTL

\* apply_idempotent_traffic_batch settles every batch once and in the order
\* the node sealed them, for any number of repetitions, crashes and late requests.
THEOREM SettlementOrder == Spec => []SettledOnceInSealOrder
<1>1. Inv => SettledOnceInSealOrder
  BY DEF Inv
<1>2. QED
  BY <1>1, Invariance, PTL

\* report_traffic never bills a unit to a group that its rule joined after the
\* connection was accepted, for any sequence of moves and deliveries.
THEOREM HistoricBilling == Spec => []BilledWhereForwarded
<1>1. Inv => BilledWhereForwarded
  BY DEF Inv
<1>2. QED
  BY <1>1, Invariance, PTL

\* write_spool_record_at never puts a unit into two batches, wherever crashes,
\* rotations and failed writes fall.
THEOREM SealedOnce == Spec => []NoUnitInTwoBatches
<1>1. Inv => NoUnitInTwoBatches
  BY DEF Inv, Once
<1>2. QED
  BY <1>1, Invariance, PTL

\* A cursor that moves on in the present file moves past lines in batches.
LEMMA CursorPasses ==
  ASSUME Inv, [Next]_vars,
         cursor'.gen = cursor.gen, cursor'.file = file, ~truncated,
         NEW i \in cursor.off + 1 .. cursor'.off, i \in DOMAIN log
  PROVE  \E b \in Written : log[i] \in b.units
<1>0. IInv /\ BooksTyped /\ CursorFollows /\ BatchHolds
  BY DEF Inv, IInv, Typed, Once
<1>1. cursor.off \in Nat /\ cursor.gen \in Nat
  BY <1>0, CheckpointNumbers
<1>2. cursor' # cursor
  BY <1>1
<1>3. ~PrepareStateForFile
  BY <1>1 DEF PrepareStateForFile, NextGeneration
<1>4. PastBatch /\ UNCHANGED <<spool, ghosts>>
  BY <1>0, <1>2, <1>3, CursorMoves DEF CursorUnless
<1>5. PICK b \in Recoverable :
        /\ b.origin.start = cursor.off /\ cursor'.file = cursor.file /\ cursor'.off = b.origin.end
  BY <1>0, <1>4, PastBatchCrosses
<1>6. b.origin.file = file /\ b \in spool
  BY <1>5 DEF Recoverable
<1>7. log[i] \in b.units
  BY <1>0, <1>5, <1>6 DEF BatchHolds
<1>8. QED
  BY <1>6, <1>7 DEF Written, Sealed

\* save_state moves the cursor only past lines that a batch already holds.
THEOREM CursorKeepsUp == Spec => CursorPassesOnlySealed
<1> DEFINE Passes == cursor'.gen = cursor.gen /\ cursor'.file = file /\ ~truncated =>
                       \A i \in cursor.off + 1 .. cursor'.off : i \in DOMAIN log =>
                         \E b \in Sealed \cup Settled : log[i] \in b.units
<1>1. Inv /\ [Next]_vars => [Passes]_vars
  BY CursorPasses DEF Written
<1>2. QED
  BY <1>1, Invariance, PTL DEF Spec, CursorPassesOnlySealed

-----------------------------------------------------------------------------
(* Refinement of TrafficLedger.                                            *)

\* Where a unit is: the conditions of StageOf.
AtPanel(u) == \E e \in Settled : u \in e.units
OnDisk(u) == \E b \in Sealed : u \in b.units
InMemory(u) == u \in counter \cup {log[i] : i \in DOMAIN log}

\* The stage of every unit, as TrafficLedger sees it.
Shown == [u \in Units |-> StageOf(u)]

\* Steps that move some units from one stage to one other are ledger steps.
LEMMA MovesSome ==
  ASSUME NEW from, NEW to,
         \A u \in Units : StageOf(u)' = StageOf(u) \/ (StageOf(u) = from /\ StageOf(u)' = to)
  PROVE  Books!Moves(from, to) \/ Shown' = Shown
<1> DEFINE S == {u \in Units : StageOf(u) = from /\ StageOf(u)' = to}
<1>1. CASE S = {}
  BY <1>1 DEF Shown
<1>2. CASE S # {}
  <2>1. S \in SUBSET {u \in Units : Shown[u] = from}
    BY DEF Shown
  <2>2. Shown' = [u \in Units |-> IF u \in S THEN to ELSE Shown[u]]
    BY DEF Shown
  <2> HIDE DEF S
  <2>3. QED
    BY <1>2, <2>1, <2>2 DEF Books!Moves, Shown, Units
<1>3. QED
  BY <1>1, <1>2

\* An unlinked batch has been settled: nothing is lost if it never comes back.
LEMMA GhostsSettled ==
  ASSUME IInv, NEW b \in ghosts, NEW u \in b.units
  PROVE  AtPanel(u)
BY DEF IInv, Fifo, Sequenced, Applied, AtPanel, Settled

\* A seal makes volatile units durable.
LEMMA SealMoves ==
  ASSUME IInv, NEW b, Seals(b), \A u \in b.units : InMemory(u)
  PROVE  Books!Moves("volatile", "durable") \/ Shown' = Shown
<1>1. ASSUME NEW u \in Units
      PROVE  StageOf(u)' = StageOf(u) \/ (StageOf(u) = "volatile" /\ StageOf(u)' = "durable")
  <2>1. Len(unit') = Len(unit) /\ (AtPanel(u)' <=> AtPanel(u)) /\ (InMemory(u)' <=> InMemory(u))
    BY DEF Seals, AtPanel, Settled, InMemory
  <2>2. OnDisk(u)' => OnDisk(u) \/ u \in b.units
    BY DEF Seals, Installed, InstallUncertain, OnDisk, Sealed
  <2>3. OnDisk(u) => OnDisk(u)' \/ AtPanel(u)
    BY GhostsSettled DEF Seals, Installed, InstallUncertain, OnDisk, Sealed
  <2>4. QED
    BY <2>1, <2>2, <2>3 DEF StageOf, AtPanel, OnDisk, InMemory
<1>2. QED
  BY <1>1, MovesSome

\* A forwarded unit is volatile.
LEMMA ForwardMoves ==
  ASSUME IInv, NEW c \in open, Forward(c)
  PROVE  Books!Moves("unseen", "volatile") \/ Shown' = Shown
<1> PICK n : n = Len(unit) + 1
  OBVIOUS
<1>0. Typed /\ Len(unit) \in Nat /\ Len(unit') = n /\ n \in Nat /\ n = Len(unit) + 1
  BY ForwardAppends DEF IInv
<1>1. InMemory(n)' /\ \A u : u # n => (InMemory(u)' <=> InMemory(u))
  <2>1. \/ log' = log /\ counter' = counter \cup {n}
        \/ log' = Append(log, n) /\ counter' = counter
    BY <1>0 DEF Forward
  <2>2. log \in Seq(Nat) /\ DOMAIN log = 1..Len(log) /\ Len(log) \in Nat
    <3>1. DOMAIN log = 1..Len(log) /\ Len(log) \in Nat /\ \A i \in 1..Len(log) : log[i] \in Nat
      BY <1>0, LogTyped
    <3>2. log \in Seq(1..Len(unit))
      BY <1>0 DEF Typed, TrafficTyped
    <3>3. QED
      BY <3>1, <3>2, IsASeq, LenProperties
  <2>3. CASE log' = log /\ counter' = counter \cup {n}
    BY <2>3 DEF InMemory
  <2>4. CASE log' = Append(log, n) /\ counter' = counter
    <3>1. /\ DOMAIN log' = 1..Len(log) + 1 /\ log'[Len(log) + 1] = n
          /\ \A i \in 1..Len(log) : log'[i] = log[i]
      BY <1>0, <2>2, <2>4, AppendProperties, LenProperties
    <3>2. /\ Len(log) + 1 \in DOMAIN log' /\ \A i \in DOMAIN log : i \in DOMAIN log'
          /\ \A i \in DOMAIN log' : i \in DOMAIN log \/ i = Len(log) + 1
      BY <2>2, <3>1
    <3>3. QED
      BY <2>2, <2>4, <3>1, <3>2 DEF InMemory
  <2>5. QED
    BY <2>1, <2>3, <2>4
<1>2. \A u : (AtPanel(u)' <=> AtPanel(u)) /\ (OnDisk(u)' <=> OnDisk(u))
  BY DEF Forward, AtPanel, OnDisk, Settled, Sealed
<1>3. ~AtPanel(n) /\ ~OnDisk(n)
  BY <1>0, WrittenKnown DEF AtPanel, OnDisk, Written
<1>4. ASSUME NEW u \in Units
      PROVE  StageOf(u)' = StageOf(u) \/ (StageOf(u) = "unseen" /\ StageOf(u)' = "volatile")
  <2>1. CASE u = n
    <3>1. StageOf(u) = "unseen"
      BY <1>0, <2>1 DEF StageOf
    <3>2. StageOf(u)' = "volatile"
      <4>1. InMemory(u)' /\ ~AtPanel(u)' /\ ~OnDisk(u)'
        BY <1>1, <1>2, <1>3, <2>1
      <4>2. ~(u > Len(unit'))
        BY <1>0, <2>1
      <4>3. QED
        BY <4>1, <4>2 DEF StageOf, AtPanel, OnDisk, InMemory
    <3>3. QED
      BY <3>1, <3>2
  <2>2. CASE u # n
    <3>1. (u > Len(unit')) <=> (u > Len(unit))
      BY <1>0, <2>2, BoundsAreNaturals DEF Units
    <3>2. (InMemory(u)' <=> InMemory(u)) /\ (AtPanel(u)' <=> AtPanel(u)) /\ (OnDisk(u)' <=> OnDisk(u))
      BY <1>1, <1>2, <2>2
    <3>3. QED
      BY <3>1, <3>2 DEF StageOf, AtPanel, OnDisk, InMemory
  <2>3. QED
    BY <2>1, <2>2
<1>5. QED
  BY <1>4, MovesSome

\* A settlement settles durable units.
LEMMA SettleMoves ==
  ASSUME IInv, NEW b \in net, Settle(b)
  PROVE  Books!Moves("durable", "settled") \/ Shown' = Shown
<1>0. Typed /\ UnitsKnown /\ Fifo
  BY DEF IInv
<1>1. CASE Applied(b)
  <2>1. UNCHANGED <<unit, counter, log, spool, ghosts, ledger>>
    BY <1>0, <1>1, SettleAppends
  <2>2. QED
    BY <2>1 DEF Shown, StageOf, Settled, Sealed
<1>2. CASE ~Applied(b)
  <2> DEFINE n == Len(ledger) + 1
  <2>1. /\ UNCHANGED <<unit, counter, log, spool, ghosts>>
        /\ DOMAIN ledger' = 1..n /\ DOMAIN ledger = 1..Len(ledger) /\ Len(ledger) \in Nat
        /\ \A i \in DOMAIN ledger : ledger'[i] = ledger[i]
        /\ ledger'[n] = Settlement(b)
    BY <1>0, <1>2, SettleAppends
  <2>2. Settlement(b).units = b.units /\ b \in spool
    BY <1>0, <1>2 DEF Settlement, Fifo
  <2>3. n \in DOMAIN ledger' /\ \A i \in DOMAIN ledger : i \in DOMAIN ledger'
    BY <2>1
  <2>4. \A i \in DOMAIN ledger' : i \in DOMAIN ledger \/ i = n
    BY <2>1
  <2> HIDE DEF n
  <2>5. \A u : AtPanel(u)' <=> AtPanel(u) \/ u \in b.units
    BY <2>1, <2>2, <2>3, <2>4 DEF AtPanel, Settled
  <2>6. \A u \in b.units : OnDisk(u)
    BY <2>2 DEF OnDisk, Sealed
  <2>7. ASSUME NEW u \in Units
        PROVE  StageOf(u)' = StageOf(u) \/ (StageOf(u) = "durable" /\ StageOf(u)' = "settled")
    <3>1. (InMemory(u)' <=> InMemory(u)) /\ (OnDisk(u)' <=> OnDisk(u))
      BY <2>1 DEF InMemory, OnDisk, Sealed
    <3>2. QED
      BY <2>1, <2>5, <2>6, <3>1 DEF StageOf, AtPanel, OnDisk, InMemory
  <2>8. QED
    BY <2>7, MovesSome
<1>3. QED
  BY <1>1, <1>2

\* A rotation and a crash lose what is not in a batch yet.
LEMMA MemoryLost ==
  ASSUME IInv, UNCHANGED <<unit, ledger>>,
         spool' \subseteq spool \cup ghosts, ghosts' \subseteq ghosts, spool \subseteq spool',
         \A u : InMemory(u)' => InMemory(u)
  PROVE  Books!Moves("volatile", "lost") \/ Shown' = Shown
<1>1. ASSUME NEW u \in Units
      PROVE  StageOf(u)' = StageOf(u) \/ (StageOf(u) = "volatile" /\ StageOf(u)' = "lost")
  <2>1. AtPanel(u)' <=> AtPanel(u)
    BY DEF AtPanel, Settled
  <2>2. OnDisk(u)' => OnDisk(u)
    BY DEF OnDisk, Sealed
  <2>3. OnDisk(u) => OnDisk(u)' \/ AtPanel(u)
    BY GhostsSettled DEF OnDisk, Sealed
  <2>4. InMemory(u)' => InMemory(u)
    OBVIOUS
  <2>5. QED
    BY <2>1, <2>2, <2>3, <2>4 DEF StageOf, AtPanel, OnDisk, InMemory
<1>2. QED
  BY <1>1, MovesSome

\* Giving up the counters of a durable batch moves nothing.
LEMMA CommitMoves ==
  ASSUME IInv, CommitCounters
  PROVE  Shown' = Shown
<1>0. Typed /\ BooksTyped /\ Sequenced /\ PhaseFollows
  BY DEF IInv, Typed
<1>1. PICK b \in spool : b.seq = nextSeq - 1
  BY <1>0 DEF CommitCounters, PhaseFollows
<1>2. counter' = counter \ b.units /\ UNCHANGED <<unit, log, spool, ghosts, ledger>>
  BY <1>0, <1>1, NewestIs DEF CommitCounters
<1>3. ASSUME NEW u \in Units PROVE StageOf(u)' = StageOf(u)
  <2>1. (AtPanel(u)' <=> AtPanel(u)) /\ (OnDisk(u)' <=> OnDisk(u))
    BY <1>2 DEF AtPanel, OnDisk, Settled, Sealed
  <2>2. OnDisk(u) \/ (InMemory(u)' <=> InMemory(u))
    BY <1>2 DEF OnDisk, Sealed, InMemory
  <2>3. QED
    BY <1>2, <2>1, <2>2 DEF StageOf, AtPanel, OnDisk, InMemory
<1>4. QED
  BY <1>3 DEF Shown

\* Deleting an acknowledged batch moves nothing: its units are settled, whether
\* the unlink is durable or not.
LEMMA DeleteMoves ==
  ASSUME IInv, DeleteBatch
  PROVE  Shown' = Shown
<1>0. Typed /\ BooksTyped /\ Sequenced /\ Fifo
  BY DEF IInv, Typed
<1>1. Oldest \in spool /\ Applied(Oldest)
  BY <1>0, OldestIsFirst, BoundsAreNaturals DEF DeleteBatch, DeletePhases, BooksTyped, Fifo
<1>2. /\ UNCHANGED <<unit, counter, log, ledger>>
      /\ spool' \in {spool, spool \ {Oldest}} /\ ghosts' \subseteq ghosts \cup {Oldest}
      /\ ghosts' # ghosts \cup {Oldest} => ghosts' \in {ghosts, {}}
  BY DEF DeleteBatch
<1>3. \A u \in Oldest.units : AtPanel(u)
  BY <1>0, <1>1 DEF Sequenced, Applied, AtPanel, Settled
<1>4. ASSUME NEW u \in Units PROVE StageOf(u)' = StageOf(u)
  <2>1. (AtPanel(u)' <=> AtPanel(u)) /\ (InMemory(u)' <=> InMemory(u))
    BY <1>2 DEF AtPanel, InMemory, Settled
  <2>2. AtPanel(u) \/ (OnDisk(u)' <=> OnDisk(u))
    BY <1>1, <1>2, <1>3, GhostsSettled DEF OnDisk, Sealed
  <2>3. QED
    BY <1>2, <2>1, <2>2 DEF StageOf, AtPanel, OnDisk, InMemory
<1>5. QED
  BY <1>4 DEF Shown

\* Every step is a step of the ledger or leaves all units where they are.
LEMMA StepMoves == IInv /\ Once /\ [Next]_vars => [Books!LedgerNext]_Shown
<1> SUFFICES ASSUME IInv, Once, [Next]_vars PROVE Books!LedgerNext \/ Shown' = Shown
  OBVIOUS
<1>0. Typed
  BY DEF IInv
<1>1. ASSUME NEW c \in open, Forward(c) PROVE Books!LedgerNext \/ Shown' = Shown
  BY <1>1, ForwardMoves DEF Books!LedgerNext
<1>2. CASE SealCounters
  <2>1. Seals(CounterBatch) /\ counter # {} /\ nextSeq <= MaxSeq
    BY <1>0, <1>2, SealCountersSeals DEF Seals
  <2>2. \A u \in CounterBatch.units : InMemory(u)
    BY <1>0, <2>1, CounterBatchIs DEF InMemory
  <2>3. QED
    BY <2>1, <2>2, SealMoves DEF Books!LedgerNext
<1>3. CASE SealSegment
  <2>1. Seals(LogBatch)
    BY <1>0, <1>3, SealSegmentSeals
  <2>2. \A u \in LogBatch.units : InMemory(u)
    BY <1>3, LogBatchLines DEF InMemory
  <2>3. QED
    BY <2>1, <2>2, SealMoves DEF Books!LedgerNext
<1>4. ASSUME NEW b \in net, Settle(b) PROVE Books!LedgerNext \/ Shown' = Shown
  BY <1>4, SettleMoves DEF Books!LedgerNext
<1>5. CASE RotateLog
  <2>1. UNCHANGED <<unit, ledger, spool, ghosts, counter>> /\ log' = << >>
    BY <1>5 DEF RotateLog
  <2>2. \A u : InMemory(u)' => InMemory(u)
    BY <2>1 DEF InMemory
  <2>3. QED
    BY <2>1, <2>2, MemoryLost DEF Books!LedgerNext
<1>6. CASE Crash
  <2>1. /\ UNCHANGED <<unit, ledger, log>> /\ counter' = {} /\ ghosts' = {}
        /\ spool \subseteq spool' /\ spool' \subseteq spool \cup ghosts
    BY <1>6 DEF Crash
  <2>2. \A u : InMemory(u)' => InMemory(u)
    BY <2>1 DEF InMemory
  <2>3. QED
    BY <2>1, <2>2, MemoryLost DEF Books!LedgerNext
<1>7. CASE CommitCounters
  BY <1>7, CommitMoves
<1>8. CASE DeleteBatch
  BY <1>8, DeleteMoves
<1>9. CASE UNCHANGED <<unit, counter, log, spool, ghosts, ledger>>
  BY <1>9 DEF Shown, StageOf, Settled, Sealed
<1>10. \/ UNCHANGED <<unit, counter, log, spool, ghosts, ledger>>
       \/ SealCounters \/ SealSegment \/ RotateLog \/ Crash \/ CommitCounters \/ DeleteBatch
       \/ (\E b \in net : Settle(b)) \/ \E c \in open : Forward(c)
  BY DEF Next, vars, nodeVars, MoveRule, Deliver, RefreshSniDns, SealFails,
     RecoverCheckpoint, PrepareStateForFile, AdvanceCursor, Send, Refuse, Timeout
<1>11. QED
  BY <1>1, <1>2, <1>3, <1>4, <1>5, <1>6, <1>7, <1>8, <1>9, <1>10

\* The accounting implements the abstract ledger, step by step: a durable unit
\* is never lost and a settled one never comes back.
THEOREM LedgerRefined == Spec => ImplementsTrafficLedger
<1>1. Init => Books!LedgerInit
  <2> SUFFICES ASSUME Init, NEW u \in Units PROVE StageOf(u) = "unseen"
    BY DEF Books!LedgerInit, Units
  <2>1. u > Len(unit)
    BY BoundsAreNaturals DEF Init, Units
  <2>2. QED
    BY <2>1 DEF StageOf
<1>2. Inv /\ [Next]_vars => [Books!LedgerNext]_Shown
  BY StepMoves DEF Inv
<1>3. QED
  BY <1>1, <1>2, Invariance, PTL DEF Spec, ImplementsTrafficLedger, Books!LedgerSpec, Shown

-----------------------------------------------------------------------------
(* What the spool and the ledger never give up.                            *)

\* What a step may take from the spool and the stages it may undo.
SpoolGivesUpSettled == \A b \in spool \ spool' : Applied(b)

StagesKept ==
  \A u \in Units : /\ StageOf(u) = "durable" => StageOf(u)' \in {"durable", "settled"}
                   /\ StageOf(u) = "settled" => StageOf(u)' = "settled"

\* remove_queue_batch is reached only from an answer that the batch is applied,
\* whatever repeated or late answers came before it.
LEMMA SpoolShrinks == IInv /\ [Next]_vars => SpoolGivesUpSettled
<1> SUFFICES ASSUME IInv, [Next]_vars, NEW b \in spool, b \notin spool' PROVE Applied(b)
  BY DEF SpoolGivesUpSettled
<1>1. CASE DeleteBatch
  <2>1. spool' \in {spool, spool \ {Oldest}} /\ phase \in DeletePhases
    BY <1>1 DEF DeleteBatch
  <2>2. b = Oldest
    BY <2>1
  <2>3. Applied(Oldest)
    BY <2>1, OldestIsFirst, BoundsAreNaturals DEF DeletePhases, IInv, Typed, BooksTyped, Fifo
  <2>4. QED
    BY <2>2, <2>3
<1>2. CASE spool \subseteq spool'
  BY <1>2
<1>3. spool \subseteq spool' \/ DeleteBatch
  BY DEF Next, vars, nodeVars, MoveRule, Deliver, Forward, RefreshSniDns, SealCounters,
     SealSegment, Installed, InstallUncertain, SealFails, RotateLog, CommitCounters,
     RecoverCheckpoint, PrepareStateForFile, AdvanceCursor, Send, Settle, Refuse, Timeout, Crash
<1>4. QED
  BY <1>1, <1>2, <1>3

\* The spool holds a batch until the panel's transaction has settled it: no
\* crash, poisoned filesystem, refusal or duplicated answer takes it earlier.
THEOREM SpoolHoldsUntilSettled == Spec => [][SpoolGivesUpSettled]_vars
<1>1. Inv => IInv
  BY DEF Inv
<1>2. QED
  BY <1>1, Invariance, SpoolShrinks, PTL DEF Spec

\* From the moment a unit is sealed it is on the node's disk or in the panel's
\* books, and what is in the books stays there.
THEOREM SealedUnitsStay == Spec => [][StagesKept]_vars
<1>1. ASSUME NEW from, NEW to, <<from, to>> \in {<<"unseen", "volatile">>,
               <<"volatile", "durable">>, <<"volatile", "lost">>, <<"durable", "settled">>},
             Books!Moves(from, to)
      PROVE  StagesKept
  <2>1. PICK S \in SUBSET Units :
          /\ \A u \in S : Shown[u] = from
          /\ Shown' = [u \in Units |-> IF u \in S THEN to ELSE Shown[u]]
    BY <1>1 DEF Books!Moves, Shown, Units
  <2>2. \A u \in Units : /\ Shown[u] = StageOf(u) /\ Shown'[u] = StageOf(u)'
                         /\ StageOf(u)' = IF u \in S THEN to ELSE StageOf(u)
    BY <2>1 DEF Shown
  <2>3. QED
    BY <1>1, <2>1, <2>2 DEF StagesKept
<1>2. ASSUME Shown' = Shown PROVE StagesKept
  <2>1. \A u \in Units : Shown[u] = StageOf(u) /\ Shown'[u] = StageOf(u)'
    BY DEF Shown
  <2>2. QED
    BY <1>2, <2>1 DEF StagesKept
<1>3. Inv /\ [Next]_vars => StagesKept
  <2> SUFFICES ASSUME Inv, [Next]_vars PROVE StagesKept
    OBVIOUS
  <2>1. Books!LedgerNext \/ Shown' = Shown
    BY StepMoves DEF Inv
  <2>2. QED
    BY <1>1, <1>2, <2>1 DEF Books!LedgerNext
<1>4. QED
  BY <1>3, Invariance, PTL DEF Spec

\* How a unit can get lost before it is durable.
LossIsNamed ==
  \A u \in Units : StageOf(u)' = "lost" =>
    \/ StageOf(u) = "lost"
    \/ Crash /\ u \in counter
    \/ RotateLog /\ u \in {log[i] : i \in DOMAIN log}

\* A step of the ledger to another stage loses nothing.
LEMMA MovesLoseNothing ==
  ASSUME NEW from, NEW to, to # "lost", Books!Moves(from, to) \/ Shown' = Shown,
         NEW u \in Units, StageOf(u)' = "lost"
  PROVE  StageOf(u) = "lost"
<1>1. Shown[u] = StageOf(u) /\ Shown'[u] = StageOf(u)'
  BY DEF Shown
<1>2. CASE Books!Moves(from, to)
  <2>1. PICK S \in SUBSET Units :
          Shown' = [w \in Units |-> IF w \in S THEN to ELSE Shown[w]]
    BY <1>2 DEF Books!Moves, Shown, Units
  <2>2. QED
    BY <1>1, <2>1
<1>3. QED
  BY <1>1, <1>2

LEMMA LossStep == IInv /\ Once /\ [Next]_vars => LossIsNamed
<1> SUFFICES ASSUME IInv, Once, [Next]_vars, NEW u \in Units, StageOf(u)' = "lost",
                    StageOf(u) # "lost"
             PROVE  \/ Crash /\ u \in counter
                    \/ RotateLog /\ u \in {log[i] : i \in DOMAIN log}
  BY DEF LossIsNamed
<1>0. Typed
  BY DEF IInv
<1>1. ASSUME NEW c \in open, Forward(c) PROVE FALSE
  BY <1>1, ForwardMoves, MovesLoseNothing
<1>2. CASE SealCounters
  <2>1. Seals(CounterBatch) /\ counter # {} /\ nextSeq <= MaxSeq
    BY <1>0, <1>2, SealCountersSeals DEF Seals
  <2>2. \A v \in CounterBatch.units : InMemory(v)
    BY <1>0, <2>1, CounterBatchIs DEF InMemory
  <2>3. QED
    BY <2>1, <2>2, SealMoves, MovesLoseNothing
<1>3. CASE SealSegment
  <2>1. Seals(LogBatch)
    BY <1>0, <1>3, SealSegmentSeals
  <2>2. \A v \in LogBatch.units : InMemory(v)
    BY <1>3, LogBatchLines DEF InMemory
  <2>3. QED
    BY <2>1, <2>2, SealMoves, MovesLoseNothing
<1>4. ASSUME NEW b \in net, Settle(b) PROVE FALSE
  BY <1>4, SettleMoves, MovesLoseNothing
<1>5. ASSUME Shown' = Shown PROVE FALSE
  BY <1>5 DEF Shown
<1>6. CASE CommitCounters \/ DeleteBatch \/ UNCHANGED <<unit, counter, log, spool, ghosts, ledger>>
  <2>1. UNCHANGED <<unit, counter, log, spool, ghosts, ledger>> => Shown' = Shown
    BY DEF Shown, StageOf, Settled, Sealed
  <2>2. QED
    BY <1>5, <1>6, <2>1, CommitMoves, DeleteMoves
<1>7. ASSUME RotateLog \/ Crash PROVE StageOf(u) = "volatile"
  <2>1. /\ UNCHANGED <<unit, ledger>> /\ ghosts' \subseteq ghosts
        /\ spool' \subseteq spool \cup ghosts /\ spool \subseteq spool'
    BY <1>7 DEF RotateLog, Crash
  <2>2. ~(u > Len(unit)) /\ ~AtPanel(u)' /\ ~OnDisk(u)'
    BY <2>1 DEF StageOf, AtPanel, OnDisk, Units
  <2>3. ~AtPanel(u) /\ ~OnDisk(u)
    BY <2>1, <2>2, GhostsSettled DEF AtPanel, OnDisk, Settled, Sealed
  <2>4. QED
    BY <2>2, <2>3 DEF StageOf, AtPanel, OnDisk
<1>8. RotateLog \/ Crash => InMemory(u) /\ ~InMemory(u)'
  BY <1>7 DEF StageOf, InMemory
<1>9. CASE RotateLog
  BY <1>8, <1>9 DEF RotateLog, InMemory
<1>10. CASE Crash
  BY <1>8, <1>10 DEF Crash, InMemory
<1>11. \/ UNCHANGED <<unit, counter, log, spool, ghosts, ledger>>
       \/ SealCounters \/ SealSegment \/ RotateLog \/ Crash \/ CommitCounters \/ DeleteBatch
       \/ (\E b \in net : Settle(b)) \/ \E c \in open : Forward(c)
  BY DEF Next, vars, nodeVars, MoveRule, Deliver, RefreshSniDns, SealFails,
     RecoverCheckpoint, PrepareStateForFile, AdvanceCursor, Send, Refuse, Timeout
<1>12. QED
  BY <1>1, <1>2, <1>3, <1>4, <1>6, <1>9, <1>10, <1>11

\* Traffic is lost in two ways only: the process ends while the bytes are in
\* its raw counters, or the access log is rotated or truncated over a line.
\* No failed write, poisoned queue, refusal, late answer or retry costs any.
THEOREM LossHasTwoCauses == Spec => [][LossIsNamed]_vars
<1>1. Inv /\ [Next]_vars => LossIsNamed
  BY LossStep DEF Inv
<1>2. QED
  BY <1>1, Invariance, PTL DEF Spec
=============================================================================

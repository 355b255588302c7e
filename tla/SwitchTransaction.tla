-------------------------- MODULE SwitchTransaction --------------------------
(***************************************************************************)
(* What the journal of a relay switch promises for the records it names:   *)
(* a transaction that counts as committed has moved all of them, one that  *)
(* counts as rolled back has put all of them back, and anything else stays *)
(* stopped for an operator.  Until then records may change in any way: the *)
(* provider is written record by record and its answers may be lost.       *)
(*                                                                         *)
(* RelaySwitch implements this with a preference, a lock, rows of desired  *)
(* records and a worker that calls the provider.                           *)
(***************************************************************************)
CONSTANTS Rules, Values,
          None        \* no journal entry, no way back

Entry     == [target : Values, rollback : Values \cup {None}]
Journals  == [Rules -> Entry \cup {None}]
NoJournal == [r \in Rules |-> None]

VARIABLES phase,      \* of the transaction, "Idle" without one
          journal,    \* where each record goes, and where it was
          records     \* what the provider holds

Journaled == {r \in Rules : journal[r] # None}

Init == /\ phase = "Idle" /\ journal = NoJournal
        /\ records \in [Rules -> Values]

\* A rolled back transaction makes way for another one; a stopped one does not.
Begin == /\ phase \in {"Idle", "FailedRolledBack"}
         /\ phase' = "Switching" /\ journal' \in Journals
         /\ UNCHANGED records

Commit == /\ phase = "Switching"
          /\ \A r \in Journaled : records[r] = journal[r].target
          /\ phase' = "Idle" /\ journal' = NoJournal
          /\ UNCHANGED records

GoBack == /\ phase = "Switching"
          /\ \A r \in Journaled : journal[r].rollback # None
          /\ phase' = "RollingBack"
          /\ UNCHANGED <<journal, records>>

Restored == /\ phase = "RollingBack"
            /\ \A r \in Journaled : records[r] = journal[r].rollback
            /\ phase' = "FailedRolledBack"
            /\ UNCHANGED <<journal, records>>

Stop == /\ phase \in {"Switching", "RollingBack"}
        /\ phase' = "Manual"
        /\ UNCHANGED <<journal, records>>

Discard == /\ phase = "FailedRolledBack"
           /\ phase' = "Idle" /\ journal' = NoJournal
           /\ UNCHANGED records

\* No record changes any more once the rollback counts as complete.
Write == /\ phase # "FailedRolledBack"
         /\ records' \in [Rules -> Values]
         /\ UNCHANGED <<phase, journal>>

Next == \/ Begin \/ Commit \/ GoBack \/ Restored \/ Stop \/ Discard
        \/ Write

Spec == Init /\ [][Next]_<<phase, journal, records>>
=============================================================================

------------------------- MODULE RevisionAuthority -------------------------
(***************************************************************************)
(* What the panel promises to one node about configuration revisions: the  *)
(* authority is a log.  A revision number names one configuration for      *)
(* ever, numbers are handed out without gaps, and a new number is used     *)
(* only when the configuration differs from the newest one.                *)
(*                                                                         *)
(* ConfigRevision implements this log with two key-value namespaces and    *)
(* non-atomic writes; NodeReconciler takes it as the panel it talks to.    *)
(***************************************************************************)
EXTENDS Naturals

CONSTANTS Identities,   \* everything a snapshot is compared by
          MaxHeight     \* bound: u64::MAX in the code

VARIABLES height,       \* the newest revision in force, 0 before the first
          content       \* content[r]: the configuration revision r names

logVars == <<height, content>>

LogTypeOK == /\ height \in 0..MaxHeight
             /\ content \in [1..height -> Identities]

LogInit == /\ height = 0
           /\ content = [r \in 1..0 |-> 0]

Publish(id) == /\ height < MaxHeight
               /\ height > 0 => content[height] # id
               /\ height' = height + 1
               /\ content' = [r \in 1..height + 1 |->
                                IF r = height + 1 THEN id ELSE content[r]]

LogNext == \E id \in Identities : Publish(id)

LogSpec == LogInit /\ [][LogNext]_logVars
=============================================================================

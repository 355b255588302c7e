--------------------------- MODULE TrafficLedger ---------------------------
(***************************************************************************)
(* What strict traffic reporting promises for every unit of forwarded      *)
(* traffic: until it is durable on the node it may be lost, from then on   *)
(* it reaches the panel's books and stays there.                           *)
(*                                                                         *)
(* TrafficAccounting implements this with counters, an access log, a spool *)
(* of immutable batches and an idempotent panel transaction.               *)
(***************************************************************************)
EXTENDS Naturals

CONSTANT MaxUnits   \* bound: bytes are unbounded in the code

VARIABLE stage      \* stage[u]: where unit u is on its way to the books

LedgerStages == {"unseen", "volatile", "durable", "settled", "lost"}

LedgerTypeOK == stage \in [1..MaxUnits -> LedgerStages]

LedgerInit == stage = [u \in 1..MaxUnits |-> "unseen"]

Moves(from, to) ==
  \E S \in SUBSET {u \in 1..MaxUnits : stage[u] = from} :
    /\ S # {}
    /\ stage' = [u \in 1..MaxUnits |-> IF u \in S THEN to ELSE stage[u]]

LedgerNext == \/ Moves("unseen", "volatile")
              \/ Moves("volatile", "durable")
              \/ Moves("volatile", "lost")
              \/ Moves("durable", "settled")

LedgerSpec == LedgerInit /\ [][LedgerNext]_stage
=============================================================================

----------------------------- MODULE EventIngest -----------------------------
(***************************************************************************)
(* What the two event paths of Service.Ingest have in common.  The receipt *)
(* of an event is inserted in the transaction that applies it, and the     *)
(* retention job sweeps the receipts that are older than it keeps them.    *)
(***************************************************************************)
EXTENDS FiniteSets, Naturals

CONSTANTS
  Videos,
  None,       \* a NULL column or an absent field
  MaxBatch,   \* bound: events of one batch
  MaxPruned   \* bound: receipts that get old enough to be swept

ASSUME IngestAssumption == MaxBatch \in Nat \ {0} /\ MaxPruned \in Nat

\* PruneEventsInbox may take some of the receipts; an id is swept once.
MaySweep(ids, receipts, swept) ==
  /\ ids # {} /\ ids \subseteq receipts \ swept
  /\ Cardinality(swept \cup ids) <= MaxPruned
=============================================================================

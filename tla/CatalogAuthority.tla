-------------------------- MODULE CatalogAuthority --------------------------
(***************************************************************************)
(* What the canonical catalog receiver promises, with no mention of pages, *)
(* manifests, staging or expiry: the live local catalog is replaced by     *)
(* whole observations only, each under a fence (epoch, generation) that is *)
(* never used twice.  CatalogReceiver and CatalogTransactions implement it.*)
(***************************************************************************)
EXTENDS Naturals

CONSTANTS
  Epochs,       \* identities an operator may install as observation authority
  NoEpoch,      \* the scope is not initialised
  Generations,  \* positive observation generations a producer may emit
  FullDocuments \* canonical documents [id, meta] an observation may contain

VARIABLES
  used,   \* epochs that have ever been the authority
  fence,  \* [epoch, generation]: the authority a reader is told to name
  live    \* the local documents discovery may serve

abstractVars == <<used, fence, live>>

Init ==
  /\ used = {}
  /\ fence = [epoch |-> NoEpoch, generation |-> 0]
  /\ live = {}

\* Before initialisation the legacy event stream edits the catalog freely.
Curate ==
  /\ fence.epoch = NoEpoch
  /\ live' \in SUBSET FullDocuments
  /\ UNCHANGED <<used, fence>>

\* A new epoch starts without a completed generation; the live rows stay.
Open(e) ==
  /\ e \notin used
  /\ used' = used \cup {e}
  /\ fence' = [epoch |-> e, generation |-> 0]
  /\ UNCHANGED live

\* A whole observation replaces the catalog in the step that moves the fence.
Publish(g, full) ==
  /\ fence.epoch # NoEpoch
  /\ g > fence.generation
  /\ fence' = [fence EXCEPT !.generation = g]
  /\ live' = full
  /\ UNCHANGED used

Next ==
  \/ Curate
  \/ \E e \in Epochs : Open(e)
  \/ \E g \in Generations, full \in SUBSET FullDocuments : Publish(g, full)

Spec == Init /\ [][Next]_abstractVars
=============================================================================

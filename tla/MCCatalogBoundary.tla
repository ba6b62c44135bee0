-------------------------- MODULE MCCatalogBoundary --------------------------
(* The two boundaries of the receiver on one instance: fenced readers beside *)
(* its bare operations, and the transactions that run those operations under *)
(* the advisory lock. `side` says which of the two a behaviour looks at: two *)
(* epochs and two generations, so that a fence can be reset, advanced and    *)
(* (were it possible) come back.                                             *)
EXTENDS CatalogRead, CatalogTransactions

CONSTANTS v1, v2, m1

VARIABLES side

Doc(v, m) == [id |-> v, meta |-> m]

MCContents == {{Doc(v1, m1)}}

MCContentBytes == [c \in MCContents |-> 1]

Family(capture) ==
  [i \in PageIndexes |-> IF i < Len(capture) THEN capture[i + 1] ELSE {}]

ManifestOf(capture) ==
  LET docs == UNION {capture[i] : i \in DOMAIN capture}
  IN  [pageCount |-> Len(capture), documentCount |-> Cardinality(docs),
       membership |-> IdsOf(docs), pages |-> Family(capture)]

MCManifests == {ManifestOf(<<>>), ManifestOf(<<{Doc(v1, m1)}>>)}

\* Foreign rows, which publication leaves alone and a fenced read must not see.
MCLegacyRows == {[kind |-> "remote", meta |-> m1, eligible |-> TRUE]}
-----------------------------------------------------------------------------
readerVars == <<reader, cache, published>>

sessionVars == <<working, sub, holder, session>>

BoundaryInit == side \in {"reads", "transactions"} /\ ReadInit /\ TransactionInit

BoundaryNext ==
  /\ UNCHANGED side
  /\ \/ side = "reads" /\ ReadNext /\ UNCHANGED sessionVars
     \/ side = "transactions" /\ TransactionNext /\ UNCHANGED readerVars

(* Postgres grants the lock in the order it was asked for, and the request  *)
(* deadline ends every transaction.                                         *)
BoundaryFairness ==
  \A t \in Sessions :
    /\ SF_transactionVars(side = "transactions" /\ Lock(t))
    /\ WF_transactionVars(side = "transactions" /\ CheckLegacy(t))
    /\ WF_transactionVars(side = "transactions" /\ (Commit(t) \/ Rollback(t)))

BoundarySpec ==
  BoundaryInit /\ [][BoundaryNext]_<<side, readVars, sessionVars>> /\ BoundaryFairness
=============================================================================

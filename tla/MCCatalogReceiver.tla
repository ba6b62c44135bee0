------------------------- MODULE MCCatalogReceiver --------------------------
(* A small receiver for TLC: two epochs, two generations, two videos and    *)
(* page contents that overlap, contradict and repeat each other.            *)
EXTENDS CatalogReceiver, Sequences

CONSTANTS v1, v2, m1, m2

Doc(v, m) == [id |-> v, meta |-> m]

MCContents ==
  {{Doc(v1, m1)}, {Doc(v2, m1)}, {Doc(v1, m2)},
   {Doc(v1, m1), Doc(v2, m1)}, {Doc(v1, m1), Doc(v1, m2)}}

MCContentBytes == [c \in MCContents |-> IF Doc(v1, m2) \in c THEN 3 ELSE Cardinality(c)]

Family(capture) ==
  [i \in PageIndexes |-> IF i < Len(capture) THEN capture[i + 1] ELSE {}]

ManifestOf(capture) ==
  LET docs == UNION {capture[i] : i \in DOMAIN capture}
  IN  [pageCount |-> Len(capture), documentCount |-> Cardinality(docs),
       membership |-> IdsOf(docs), pages |-> Family(capture)]

\* Faithful manifests, and two that lie about their membership.
MCManifests ==
  {ManifestOf(<<>>),
   ManifestOf(<<{Doc(v1, m1)}, {Doc(v2, m1)}>>),
   ManifestOf(<<{Doc(v1, m2)}>>),
   ManifestOf(<<{Doc(v1, m1), Doc(v2, m1)}>>),
   [ManifestOf(<<{Doc(v2, m1)}>>) EXCEPT !.membership = {v1}],
   [ManifestOf(<<>>) EXCEPT !.membership = {v1}]}

MCLegacyRows ==
  {[kind |-> "local", meta |-> m1, eligible |-> TRUE],
   [kind |-> "local", meta |-> m2, eligible |-> FALSE],
   [kind |-> "remote", meta |-> m1, eligible |-> TRUE]}
=============================================================================

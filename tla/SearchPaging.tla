------------------------------ MODULE SearchPaging ------------------------------
(***************************************************************************)
(* A client that pages forward through the results of one query.  Simple    *)
(* mode pages in SQL; advanced mode recalls a window of the matching        *)
(* documents and ranks it again for every page, a window that grows by      *)
(* blocks up to a ceiling.  has_more drives the walk.                       *)
(***************************************************************************)
EXTENDS Integers, Sequences, FiniteSets, SequencesExt

CONSTANTS
  RecallLimit,     \* recallLimit
  MaxBlocks,       \* maxRecallLimit / recallLimit
  DefaultLimit, MaxLimit,
  Limits,          \* the limits clients ask for
  MaxCorpus        \* documents that may match

ASSUME PagingAssumption ==
  /\ {RecallLimit, MaxBlocks, DefaultLimit, MaxLimit} \subseteq Nat \ {0}
  /\ Limits \subseteq Int /\ MaxCorpus \in Nat

VARIABLES
  mode,       \* "simple" or "advanced"
  corpus,     \* how many documents match; documents are numbered in recall order
  rank,       \* the order in which the ranker puts each window
  offset,     \* where the next page starts
  shown,      \* the documents shown so far
  more        \* has_more of the last answer

pagingVars == <<mode, corpus, rank, offset, shown, more>>
-----------------------------------------------------------------------------
MaxRecall == MaxBlocks * RecallLimit

Smaller(m, n) == IF m <= n THEN m ELSE n

\* paging.Limit
Limit(v, def, max) == IF v <= 0 THEN def ELSE Smaller(v, max)

\* paging.Offset
Offset(v) == IF v < 0 THEN 0 ELSE v

\* The whole number of blocks that covers the page, up to the ceiling.
RecallWindow(off, limit) ==
  LET want == off + limit
      blocks == (want + RecallLimit - 1) \div RecallLimit
  IN IF want <= RecallLimit THEN RecallLimit
     ELSE IF want >= MaxRecall THEN MaxRecall ELSE blocks * RecallLimit

\* SearchSimple and SearchAdvancedRecall number the documents alike: ranking a
\* window twice gives one order, and another window may give any other.
PagingInit ==
  /\ mode \in {"simple", "advanced"}
  /\ corpus \in 0..MaxCorpus
  /\ LET recalled(k) == Smaller(corpus, k * RecallLimit)
     IN /\ rank \in [1..MaxBlocks -> UNION {SetToSeqs(1..recalled(k)) : k \in 1..MaxBlocks}]
        /\ \A k \in 1..MaxBlocks : Len(rank[k]) = recalled(k)
        /\ \A j, k \in 1..MaxBlocks : recalled(j) = recalled(k) => rank[j] = rank[k]
  /\ offset = 0
  /\ shown = <<>>
  /\ more = TRUE

\* The page of a sequence from an offset on
PageOf(results, off, limit) ==
  SubSeq(results, off + 1, Smaller(off + limit, Len(results)))

\* The client shows a page and asks for the one behind it.
Deliver(page, hasMore) ==
  /\ shown' = shown \o page
  /\ offset' = offset + Len(page)
  /\ more' = hasMore
  /\ UNCHANGED <<mode, corpus, rank>>

\* searchSimple: one row past the page is fetched, and its presence is has_more.
SearchSimple(asked) ==
  LET limit == Limit(asked, DefaultLimit, MaxLimit)
      off == Offset(offset)
      rows == PageOf([n \in 1..corpus |-> n], off, limit + 1)
  IN /\ mode = "simple" /\ more
     /\ Deliver(SubSeq(rows, 1, Smaller(limit, Len(rows))), Len(rows) > limit)

\* Mutation: a page ends the walk when it ends the window.
HasMoreInWindow(next, ranked, truncated, window) == next < Len(ranked)

\* There is more inside the window, or it was cut and can still grow.
HasMore(next, ranked, truncated, window) ==
  next < Len(ranked) \/ (truncated /\ window < MaxRecall)

\* searchAdvanced: a probe past the window tells whether the recall was cut.
SearchAdvanced(asked) ==
  LET limit == Limit(asked, DefaultLimit, MaxLimit)
      off == Offset(offset)
      window == RecallWindow(off, limit)
      truncated == corpus > window
      ranked == rank[window \div RecallLimit]
      page == PageOf(ranked, off, limit)
  IN /\ mode = "advanced" /\ more
     /\ Deliver(page, HasMore(off + Len(page), ranked, truncated, window))

PagingNext == \E asked \in Limits : SearchSimple(asked) \/ SearchAdvanced(asked)
-----------------------------------------------------------------------------
Reachable == IF mode = "simple" THEN corpus ELSE Smaller(corpus, MaxRecall)

(* has_more is exact: after any pages, of any sizes, it is true when and only *)
(* when a further page returns something, so that a walk which follows it     *)
(* shows as many results as this service can serve, and each of them once     *)
(* when they fit one recall block (the paging contract, service.go:104-130).  *)
WalkIsExact ==
  /\ offset > 0 => (more <=> Len(shown) < Reachable)
  /\ ~more => Len(shown) = Reachable
  /\ mode = "simple" \/ corpus <= RecallLimit => IsInjective(shown)
=============================================================================

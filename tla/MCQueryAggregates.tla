-------------------------- MODULE MCQueryAggregates --------------------------
(* An account, and a machine without one that rotates its session id.       *)
EXTENDS QueryAggregates

CONSTANTS q1, q2, u1, subject1, session1, session2

MCVisits ==
  {[user |-> u1, subject |-> NoVisitor, session |-> session1],
   [user |-> NoVisitor, subject |-> subject1, session |-> session1],
   [user |-> NoVisitor, subject |-> subject1, session |-> session2]}

\* The counterexamples need one visitor.
MCOneVisit == {[user |-> u1, subject |-> NoVisitor, session |-> session1]}
=============================================================================

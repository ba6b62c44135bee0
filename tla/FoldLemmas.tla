------------------------------ MODULE FoldLemmas ------------------------------
(***************************************************************************)
(* What the folds, filters and sorts of the models compute, in a form that *)
(* first-order provers can use.  A fold is a recursive function on sets;   *)
(* its step is given as a function H on pairs <<value, index>>, so that    *)
(* the lemmas need no operator as a parameter, and induction is over a set *)
(* of numbers, by the least number outside it.                             *)
(***************************************************************************)
EXTENDS Integers, Sequences, FiniteSets, SequencesExt, FiniteSetsExt, Listings,
        FiniteSetTheorems, WellFoundedInduction, TLAPS

\* Induction, for a set of numbers
LEMMA NatSetInduction ==
  ASSUME NEW T, 0 \in T, \A n \in Nat : n \in T => n + 1 \in T
  PROVE  \A n \in Nat : n \in T
<1> DEFINE Bad == {n \in Nat : n \notin T}
<1>1. SUFFICES ASSUME Bad # {} PROVE FALSE
  OBVIOUS
<1>2. PICK x \in Bad : \A y \in Bad : ~ (<<y, x>> \in OpToRel(<, Nat))
  BY <1>1, NatLessThanWellFounded, WFMin
<1>3. \A y \in Bad : ~ (y < x)
  BY <1>2 DEF OpToRel
<1>4. x # 0 /\ x \in Nat
  OBVIOUS
<1>5. x - 1 \in Nat /\ x - 1 \notin Bad
  BY <1>3, <1>4
<1>6. QED
  BY <1>4, <1>5

\* g computes the fold of its sets from base, one element at a time.
Folds(g, S, base, pick, H) ==
  \A s \in SUBSET S : g[s] = IF s = {} THEN base ELSE H[<<g[s \ {pick[s]}], pick[s]>>]

Picks(pick, S) == \A s \in SUBSET S : s # {} => pick[s] \in s

\* A subset without one of its members is smaller by one.
LEMMA SmallerByOne ==
  ASSUME NEW S, IsFiniteSet(S), NEW s \in SUBSET S, NEW x \in s
  PROVE  /\ IsFiniteSet(s) /\ s \ {x} \in SUBSET S
         /\ Cardinality(s \ {x}) \in Nat /\ Cardinality(s) = Cardinality(s \ {x}) + 1
BY FS_Subset, FS_RemoveElement, FS_CardinalityType

\* The recursion of a fold over the subsets of a finite set has a solution,
LEMMA FoldExists ==
  ASSUME NEW S, IsFiniteSet(S), NEW V, NEW base \in V, NEW pick, Picks(pick, S),
         NEW H, \A v \in V, x \in S : H[<<v, x>>] \in V
  PROVE  \E g \in [SUBSET S -> V] : Folds(g, S, base, pick, H)
<1> DEFINE Good(g, s) == g[s] = IF s = {} THEN base ELSE H[<<g[s \ {pick[s]}], pick[s]>>]
           T == {n \in Nat : \E g \in [SUBSET S -> V] :
                   \A s \in SUBSET S : Cardinality(s) =< n => Good(g, s)}
<1>1. \A s \in SUBSET S : IsFiniteSet(s) /\ Cardinality(s) \in Nat /\ (Cardinality(s) = 0 <=> s = {})
  BY FS_Subset, FS_CardinalityType, FS_EmptySet
<1>2. 0 \in T
  <2>1. [s \in SUBSET S |-> base] \in [SUBSET S -> V]
    OBVIOUS
  <2>2. \A s \in SUBSET S : Cardinality(s) =< 0 => Good([r \in SUBSET S |-> base], s)
    BY <1>1
  <2>3. QED
    BY <2>1, <2>2
<1>3. ASSUME NEW n \in Nat, n \in T PROVE n + 1 \in T
  <2>1. PICK g \in [SUBSET S -> V] : \A s \in SUBSET S : Cardinality(s) =< n => Good(g, s)
    BY <1>3
  <2> DEFINE h == [s \in SUBSET S |-> IF Cardinality(s) =< n THEN g[s]
                                      ELSE H[<<g[s \ {pick[s]}], pick[s]>>]]
  <2>2. ASSUME NEW s \in SUBSET S, s # {}
        PROVE  /\ pick[s] \in S /\ s \ {pick[s]} \in SUBSET S
               /\ Cardinality(s \ {pick[s]}) \in Nat
               /\ Cardinality(s) = Cardinality(s \ {pick[s]}) + 1
    BY <2>2, SmallerByOne DEF Picks
  <2>3. h \in [SUBSET S -> V]
    <3>1. ASSUME NEW s \in SUBSET S PROVE h[s] \in V
      <4>1. CASE Cardinality(s) =< n
        BY <4>1
      <4>2. CASE ~(Cardinality(s) =< n)
        <5>1. s # {}
          BY <4>2, <1>1
        <5>2. g[s \ {pick[s]}] \in V /\ pick[s] \in S
          BY <5>1, <2>2
        <5>3. QED
          BY <5>2, <4>2
      <4>3. QED
        BY <4>1, <4>2
    <3>2. QED
      BY <3>1
  <2>4. ASSUME NEW s \in SUBSET S, Cardinality(s) =< n + 1 PROVE Good(h, s)
    <3>1. CASE s = {}
      <4>1. Cardinality(s) =< n
        BY <3>1, <1>1
      <4>2. QED
        BY <4>1, <2>1, <3>1
    <3>2. CASE s # {}
      <4>1. h[s \ {pick[s]}] = g[s \ {pick[s]}]
        BY <2>2, <3>2, <2>4
      <4>2. h[s] = H[<<g[s \ {pick[s]}], pick[s]>>]
        BY <2>1, <3>2
      <4>3. QED
        BY <4>1, <4>2, <3>2
    <3>3. QED
      BY <3>1, <3>2
  <2>5. \E f \in [SUBSET S -> V] :
          \A s \in SUBSET S : Cardinality(s) =< n + 1 => Good(f, s)
    <3> HIDE DEF h
    <3> QED
      BY <2>3, <2>4
  <2>6. QED
    BY <2>5
<1>4. Cardinality(S) \in T
  <2>1. \A n \in Nat : n \in T
    <3> HIDE DEF T
    <3> QED
      BY <1>2, <1>3, NatSetInduction
  <2>2. QED
    BY <2>1, FS_CardinalityType
<1>5. PICK g \in [SUBSET S -> V] : \A s \in SUBSET S : Cardinality(s) =< Cardinality(S) => Good(g, s)
  BY <1>4
<1>6. \A s \in SUBSET S : Good(g, s)
  BY <1>5, FS_Subset
<1>7. QED
  BY <1>6 DEF Folds

\* and no other.
LEMMA FoldIsUnique ==
  ASSUME NEW S, IsFiniteSet(S), NEW base, NEW pick, Picks(pick, S), NEW H,
         NEW g, Folds(g, S, base, pick, H), NEW h, Folds(h, S, base, pick, H)
  PROVE  \A s \in SUBSET S : g[s] = h[s]
<1> DEFINE T == {n \in Nat : \A s \in SUBSET S : Cardinality(s) = n => g[s] = h[s]}
<1>1. \A s \in SUBSET S : IsFiniteSet(s) /\ Cardinality(s) \in Nat /\ (Cardinality(s) = 0 <=> s = {})
  BY FS_Subset, FS_CardinalityType, FS_EmptySet
<1>2. 0 \in T
  BY <1>1 DEF Folds
<1>3. ASSUME NEW n \in Nat, n \in T PROVE n + 1 \in T
  <2>1. ASSUME NEW s \in SUBSET S, Cardinality(s) = n + 1 PROVE g[s] = h[s]
    <3>1. s # {}
      BY <2>1, <1>1
    <3>2. s \ {pick[s]} \in SUBSET S /\ Cardinality(s \ {pick[s]}) = n
      BY <2>1, <3>1, SmallerByOne DEF Picks
    <3>3. g[s \ {pick[s]}] = h[s \ {pick[s]}]
      BY <3>2, <1>3
    <3>4. QED
      BY <3>1, <3>3 DEF Folds
  <2>2. QED
    BY <2>1
<1>4. \A n \in Nat : n \in T
  <2> HIDE DEF T
  <2> QED
    BY <1>2, <1>3, NatSetInduction
<1>5. QED
  BY <1>4, <1>1

\* A fold of a sequence picks the largest index.
LEMMA LargestOf ==
  ASSUME NEW n \in Nat, NEW s \in SUBSET (1..n), s # {}
  PROVE  Max(s) \in s /\ \A y \in s : y =< Max(s)
<1> DEFINE U == {n - y : y \in s}
<1>1. U \subseteq Nat /\ U # {}
  <2>1. \A y \in s : n - y \in Nat
    OBVIOUS
  <2>2. U # {}
    OBVIOUS
  <2>3. QED
    BY <2>1, <2>2
<1>2. PICK u \in U : \A w \in U : ~ (<<w, u>> \in OpToRel(<, Nat))
  BY <1>1, NatLessThanWellFounded, WFMin
<1>3. \A w \in U : ~ (w < u)
  BY <1>1, <1>2 DEF OpToRel
<1>4. PICK x \in s : u = n - x
  OBVIOUS
<1>5. \A y \in s : x >= y
  BY <1>3, <1>4
<1>6. \E z \in s : \A y \in s : z >= y
  BY <1>5
<1>7. QED
  BY <1>6 DEF Max

\* The segments 1..k are what it leaves behind.
LEMMA LargestOfSegment ==
  ASSUME NEW n \in Nat
  PROVE  /\ 1..n+1 # {} /\ Max(1..n+1) = n + 1 /\ (1..n+1) \ {Max(1..n+1)} = 1..n
         /\ 1..0 = {}
<1>1. Max(1..n+1) \in 1..n+1 /\ \A y \in 1..n+1 : y =< Max(1..n+1)
  <2> DEFINE m == n + 1
  <2>1. m \in Nat /\ 1..m \in SUBSET (1..m) /\ 1..m # {}
    OBVIOUS
  <2> HIDE DEF m
  <2>2. Max(1..m) \in 1..m /\ \A y \in 1..m : y =< Max(1..m)
    BY <2>1, LargestOf
  <2>3. QED
    BY <2>2 DEF m
<1>2. Max(1..n+1) = n + 1
  BY <1>1
<1>3. QED
  BY <1>2

\* H is a step on V for every index up to n.
StepsIn(H, V, n) == \A v \in V, i \in 1..n : H[<<v, i>>] \in V

\* A fold of a sequence takes its largest index last.
LeftFolds(g, n, base, H) ==
  \A s \in SUBSET (1..n) :
    g[s] = IF s = {} THEN base ELSE H[<<g[s \ {Max(s)}], Max(s)>>]

\* The recursion of a fold of a sequence has a solution.
LEMMA LeftFoldExists ==
  ASSUME NEW n \in Nat, NEW V, NEW base \in V, NEW H, StepsIn(H, V, n)
  PROVE  \E g \in [SUBSET (1..n) -> V] : LeftFolds(g, n, base, H)
<1> DEFINE pick == [s \in SUBSET (1..n) |-> Max(s)]
<1>1. Picks(pick, 1..n) /\ IsFiniteSet(1..n)
  <2>1. IsFiniteSet(1..n)
    BY FS_Interval
  <2>2. \A s \in SUBSET (1..n) : s # {} => Max(s) \in s
    BY LargestOf
  <2>3. QED
    BY <2>1, <2>2 DEF Picks
<1>2. PICK g \in [SUBSET (1..n) -> V] : Folds(g, 1..n, base, pick, H)
  BY <1>1, FoldExists DEF StepsIn
<1>3. LeftFolds(g, n, base, H)
  BY <1>2 DEF Folds, LeftFolds
<1>4. QED
  BY <1>3

\* h folds the segments 1..k as H says, as long as it stays in V.
FoldsSegments(h, n, V, base, H) ==
  /\ h[1..0] = base
  /\ \A k \in 0..n-1 : h[1..k] \in V => h[1..k+1] = H[<<h[1..k], k+1>>]

\* r takes one step of H for each index, from base to value.
IsRun(r, n, base, H, value) ==
  /\ r[0] = base /\ value = r[n]
  /\ \A k \in 0..n-1 : r[k+1] = H[<<r[k], k+1>>]

\* What the segments of such a fold compute, in order.
LEMMA LeftFoldSteps ==
  ASSUME NEW n \in Nat, NEW V, NEW base \in V, NEW H,
         StepsIn(H, V, n), NEW h, FoldsSegments(h, n, V, base, H)
  PROVE  \E r \in [0..n -> V] : IsRun(r, n, base, H, h[1..n])
<1> DEFINE G(k) == h[1..k]
           r == [k \in 0..n |-> G(k)]
           T == {k \in Nat : k =< n => r[k] \in V}
<1>1. \A k \in 0..n : r[k] = G(k)
  OBVIOUS
<1>2. G(0) = base /\ \A k \in 0..n-1 : G(k) \in V => G(k+1) = H[<<G(k), k+1>>]
  BY DEF FoldsSegments
<1>3. r = [k \in 0..n |-> r[k]]
  OBVIOUS
<1> HIDE DEF G, r
<1>4. 0 \in T
  BY <1>1, <1>2
<1>5. ASSUME NEW k \in Nat, k \in T PROVE k + 1 \in T
  <2>1. CASE k + 1 =< n
    <3>1. k \in 0..n-1 /\ k \in 0..n /\ k + 1 \in 0..n /\ k + 1 \in 1..n /\ r[k] \in V
      BY <2>1, <1>5
    <3>2. r[k+1] = H[<<r[k], k+1>>]
      BY <3>1, <1>1, <1>2
    <3>3. r[k+1] \in V
      BY <3>1, <3>2 DEF StepsIn
    <3>4. QED
      BY <3>3
  <2>2. QED
    BY <2>1
<1>6. \A k \in Nat : k \in T
  <2> HIDE DEF T
  <2> QED
    BY <1>4, <1>5, NatSetInduction
<1>7. \A k \in 0..n : r[k] \in V
  BY <1>6
<1>8. r \in [0..n -> V]
  BY <1>3, <1>7
<1>9. \A k \in 0..n-1 : r[k+1] = H[<<r[k], k+1>>]
  BY <1>1, <1>2, <1>7
<1>10. h[1..n] = r[n] /\ r[0] = base
  BY <1>1, <1>2 DEF G
<1>11. QED
  BY <1>8, <1>9, <1>10 DEF IsRun

\* The segments of a fold of indices, from its equation.
LEMMA SegmentsOfFold ==
  ASSUME NEW n \in Nat, NEW k \in 0..n-1
  PROVE  /\ 1..k+1 \in SUBSET (1..n) /\ 1..k+1 # {}
         /\ Max(1..k+1) = k + 1 /\ (1..k+1) \ {Max(1..k+1)} = 1..k
         /\ 1..0 = {} /\ {} \in SUBSET (1..n)
<1>1. k \in Nat /\ 1..k+1 \in SUBSET (1..n)
  OBVIOUS
<1>2. QED
  BY <1>1, LargestOfSegment

\* A value is reached by a run when every solution of the fold's equation
\* gives one whose segments lead to it.
FoldsIn(h, value, n, V, base, H) ==
  /\ value = h[1..n] /\ h[{}] = base
  /\ \A s \in SUBSET (1..n) : s # {} /\ h[s \ {Max(s)}] \in V
       => h[s] = H[<<h[s \ {Max(s)}], Max(s)>>]

FoldsTo(value, n, V, base, H) ==
  \A g \in [SUBSET (1..n) -> V] :
    LeftFolds(g, n, base, H) => \E h : FoldsIn(h, value, n, V, base, H)

\* What a fold of a sequence computes, one index at a time
LEMMA LeftFoldRun ==
  ASSUME NEW n \in Nat, NEW V, NEW base \in V, NEW H, NEW value,
         StepsIn(H, V, n), FoldsTo(value, n, V, base, H)
  PROVE  \E r \in [0..n -> V] : IsRun(r, n, base, H, value)
<1>1. PICK g \in [SUBSET (1..n) -> V] : LeftFolds(g, n, base, H)
  BY LeftFoldExists
<1>2. PICK h : /\ value = h[1..n] /\ h[{}] = base
               /\ \A s \in SUBSET (1..n) : s # {} /\ h[s \ {Max(s)}] \in V
                    => h[s] = H[<<h[s \ {Max(s)}], Max(s)>>]
  BY <1>1 DEF FoldsTo, FoldsIn
<1>3. h[1..0] = base
  <2>1. 1..0 = {}
    OBVIOUS
  <2>2. QED
    BY <1>2, <2>1
<1>4. ASSUME NEW k \in 0..n-1, h[1..k] \in V
      PROVE  h[1..k+1] = H[<<h[1..k], k+1>>]
  <2> DEFINE s == 1..k+1
  <2>1. s \in SUBSET (1..n) /\ s # {} /\ Max(s) = k + 1 /\ s \ {Max(s)} = 1..k
    BY SegmentsOfFold
  <2>2. h[s] = H[<<h[s \ {Max(s)}], Max(s)>>]
    <3> HIDE DEF s
    <3> QED
      BY <2>1, <1>2, <1>4
  <2> HIDE DEF s
  <2>3. h[s] = H[<<h[1..k], k + 1>>]
    BY <2>1, <2>2
  <2>4. QED
    BY <2>3 DEF s
<1>5. FoldsSegments(h, n, V, base, H)
  BY <1>3, <1>4 DEF FoldsSegments
<1>6. QED
  BY <1>2, <1>5, LeftFoldSteps

\* Two runs that start alike and step alike end alike.
LEMMA RunsAgree ==
  ASSUME NEW n \in Nat, NEW r, NEW q, r[0] = q[0],
         \A k \in 0..n-1 : r[k] = q[k] => r[k+1] = q[k+1]
  PROVE  r[n] = q[n]
<1> DEFINE T == {k \in Nat : k =< n => r[k] = q[k]}
<1>1. 0 \in T
  OBVIOUS
<1>2. ASSUME NEW k \in Nat, k \in T PROVE k + 1 \in T
  BY <1>2
<1>3. \A k \in Nat : k \in T
  <2> HIDE DEF T
  <2> QED
    BY <1>1, <1>2, NatSetInduction
<1>4. QED
  BY <1>3

\* A relation that each step keeps holds at the end.
LEMMA RunsRelated ==
  ASSUME NEW n \in Nat, NEW r, NEW q, NEW Rel, <<r[0], q[0]>> \in Rel,
         \A k \in 0..n-1 : <<r[k], q[k]>> \in Rel => <<r[k+1], q[k+1]>> \in Rel
  PROVE  <<r[n], q[n]>> \in Rel
<1> DEFINE T == {k \in Nat : k =< n => <<r[k], q[k]>> \in Rel}
<1>1. 0 \in T
  OBVIOUS
<1>2. ASSUME NEW k \in Nat, k \in T PROVE k + 1 \in T
  BY <1>2
<1>3. \A k \in Nat : k \in T
  <2> HIDE DEF T
  <2> QED
    BY <1>1, <1>2, NatSetInduction
<1>4. QED
  BY <1>3
-----------------------------------------------------------------------------
(* Sets in sequences *)

\* The sequence of a finite set lists each member once.
LEMMA SetToSeqLists ==
  ASSUME NEW S, IsFiniteSet(S)
  PROVE  /\ SetToSeq(S) \in [1..Cardinality(S) -> S]
         /\ \A i, j \in 1..Cardinality(S) : SetToSeq(S)[i] = SetToSeq(S)[j] => i = j
         /\ \A x \in S : \E i \in 1..Cardinality(S) : SetToSeq(S)[i] = x
         /\ SetToSeq(S) \in Seq(S) /\ Len(SetToSeq(S)) = Cardinality(S)
<1>1. Cardinality(S) \in Nat /\ ExistsBijection(1..Cardinality(S), S)
  BY FS_CardinalityType
<1>2. \E f \in [1..Cardinality(S) -> S] : \A a, b \in DOMAIN f : f[a] = f[b] => a = b
  BY <1>1 DEF ExistsBijection, Bijection, Injection, IsInjective
<1>3. /\ SetToSeq(S) \in [1..Cardinality(S) -> S]
      /\ \A i, j \in 1..Cardinality(S) : SetToSeq(S)[i] = SetToSeq(S)[j] => i = j
  BY <1>2 DEF SetToSeq, IsInjective
<1> DEFINE f == SetToSeq(S)
<1>4. f \in Surjection(1..Cardinality(S), S)
  <2>1. f \in Injection(1..Cardinality(S), S)
    BY <1>3 DEF Injection, IsInjective
  <2>2. IsFiniteSet(1..Cardinality(S)) /\ Cardinality(1..Cardinality(S)) = Cardinality(S)
    BY <1>1, FS_Interval
  <2>3. QED
    BY <2>1, <2>2, FS_Injection
<1>5. QED
  BY <1>1, <1>3, <1>4 DEF Surjection

\* R orders S strictly and totally.
StrictOrder(R, S) ==
  /\ \A x \in S : <<x, x>> \notin R
  /\ \A x, y, z \in S : <<x, y>> \in R /\ <<y, z>> \in R => <<x, z>> \in R
  /\ \A x, y \in S : x = y \/ <<x, y>> \in R \/ <<y, x>> \in R

\* f puts an element where the number of elements below it says.
Numbers(f, S, R) ==
  /\ DOMAIN f = 1..Cardinality(S) /\ f = [n \in DOMAIN f |-> f[n]]
  /\ \A n \in 1..Cardinality(S) :
       (\E x \in S : Cardinality({y \in S : <<y, x>> \in R}) = n - 1)
         => f[n] \in S /\ Cardinality({y \in S : <<y, f[n]>> \in R}) = n - 1

\* Such an f lists the set in order, each member once.
LEMMA InOrderLists ==
  ASSUME NEW S, IsFiniteSet(S), NEW R, StrictOrder(R, S), NEW f, Numbers(f, S, R)
  PROVE  /\ f \in [1..Cardinality(S) -> S] /\ Cardinality(S) \in Nat
         /\ \A x \in S : \E i \in 1..Cardinality(S) : f[i] = x
         /\ \A i, j \in 1..Cardinality(S) : i < j => <<f[i], f[j]>> \in R
         /\ \A i, j \in 1..Cardinality(S) : f[i] = f[j] => i = j
<1> DEFINE Below(x) == {y \in S : <<y, x>> \in R}
           rank == [x \in S |-> Cardinality(Below(x)) + 1]
           n == Cardinality(S)
<1>1. ASSUME NEW x \in S
      PROVE  IsFiniteSet(Below(x)) /\ Cardinality(Below(x)) \in 0..n-1
  <2>1. IsFiniteSet(Below(x)) /\ Cardinality(Below(x)) =< n
    BY FS_Subset
  <2>2. Cardinality(Below(x)) \in Nat /\ n \in Nat
    BY <2>1, FS_CardinalityType
  <2>3. Cardinality(Below(x)) # n
    <3>1. x \notin Below(x)
      BY DEF StrictOrder
    <3>2. QED
      BY <3>1, FS_Subset
  <2>4. QED
    BY <2>1, <2>2, <2>3
<1>2. ASSUME NEW x \in S, NEW y \in S, <<x, y>> \in R PROVE rank[x] < rank[y]
  <2>1. Below(x) \in SUBSET Below(y) /\ x \in Below(y) /\ x \notin Below(x)
    BY <1>2 DEF StrictOrder
  <2>2. Cardinality(Below(x)) =< Cardinality(Below(y))
        /\ (Cardinality(Below(x)) = Cardinality(Below(y)) => Below(x) = Below(y))
    <3> HIDE DEF Below
    <3> QED
      BY <2>1, <1>1, FS_Subset
  <2>3. Cardinality(Below(x)) # Cardinality(Below(y))
    BY <2>1, <2>2
  <2> HIDE DEF Below
  <2>4. QED
    BY <2>2, <2>3, <1>1
<1>3. n \in Nat /\ IsFiniteSet(1..n) /\ Cardinality(1..n) = n
  <2>1. n \in Nat
    BY FS_CardinalityType
  <2> HIDE DEF n
  <2>2. QED
    BY <2>1, FS_Interval
<1>4. rank \in [S -> 1..n]
  <2> HIDE DEF Below, n
  <2> QED
    BY <1>1, <1>3
<1>5. \A x \in S : rank[x] = Cardinality(Below(x)) + 1
  OBVIOUS
<1> HIDE DEF rank
<1>6. \A x, y \in S : rank[x] = rank[y] => x = y
  <2>1. SUFFICES ASSUME NEW x \in S, NEW y \in S, rank[x] = rank[y], x # y PROVE FALSE
    OBVIOUS
  <2>2. rank[x] \in Nat /\ rank[y] \in Nat
    BY <1>4
  <2>3. <<x, y>> \in R \/ <<y, x>> \in R
    BY <2>1 DEF StrictOrder
  <2>4. QED
    BY <2>1, <2>2, <2>3, <1>2
<1>7. rank \in Surjection(S, 1..n)
  <2>1. rank \in Injection(S, 1..n)
    BY <1>4, <1>6 DEF Injection, IsInjective
  <2>2. QED
    BY <2>1, <1>3, FS_Injection
<1>8. \A i \in 1..n : \E x \in S : rank[x] = i
  BY <1>7 DEF Surjection
<1>9. ASSUME NEW i \in 1..n PROVE f[i] \in S /\ rank[f[i]] = i
  <2>1. PICK x \in S : Cardinality(Below(x)) = i - 1
    <3> HIDE DEF Below, n
    <3>1. PICK x \in S : rank[x] = i
      BY <1>8
    <3>2. Cardinality(Below(x)) + 1 = i /\ Cardinality(Below(x)) \in Int
      BY <3>1, <1>5, <1>1
    <3>3. QED
      BY <3>2
  <2>2. f[i] \in S /\ Cardinality(Below(f[i])) = i - 1
    BY <2>1 DEF Numbers
  <2> HIDE DEF Below, n
  <2>3. QED
    BY <2>2, <1>5
<1>10. f \in [1..n -> S]
  BY <1>9 DEF Numbers
<1>11. ASSUME NEW x \in S PROVE \E i \in 1..n : f[i] = x
  <2>1. rank[x] \in 1..n
    BY <1>4
  <2>2. f[rank[x]] = x
    BY <2>1, <1>9, <1>6
  <2>3. QED
    BY <2>1, <2>2
<1>12. ASSUME NEW i \in 1..n, NEW j \in 1..n, i < j PROVE <<f[i], f[j]>> \in R
  <2>1. f[i] \in S /\ f[j] \in S /\ rank[f[i]] = i /\ rank[f[j]] = j
    BY <1>9
  <2>2. f[i] # f[j]
    BY <2>1, <1>12
  <2>3. <<f[j], f[i]>> \in R => FALSE
    BY <2>1, <1>2, <1>12
  <2>4. QED
    BY <2>1, <2>2, <2>3 DEF StrictOrder
<1>13. \A i, j \in 1..n : f[i] = f[j] => i = j
  BY <1>9
<1>14. QED
  BY <1>3, <1>10, <1>11, <1>12, <1>13

\* Numbers in ascending order
LEMMA InOrderByNumber ==
  ASSUME NEW S, S \subseteq Nat, IsFiniteSet(S)
  PROVE  /\ InOrder(S, <) \in [1..Cardinality(S) -> S] /\ Cardinality(S) \in Nat
         /\ \A x \in S : \E i \in 1..Cardinality(S) : InOrder(S, <)[i] = x
         /\ \A i, j \in 1..Cardinality(S) : InOrder(S, <)[i] = InOrder(S, <)[j] => i = j
<1> DEFINE R == {w \in S \X S : w[1] < w[2]}
           f == [n \in 1..Cardinality(S) |->
                   CHOOSE x \in S : Cardinality({y \in S : y < x}) = n - 1]
<1>1. StrictOrder(R, S)
  BY DEF StrictOrder
<1>2. \A x \in S : {y \in S : <<y, x>> \in R} = {y \in S : y < x}
  OBVIOUS
<1>3. \A n \in 1..Cardinality(S) :
        (\E x \in S : Cardinality({y \in S : y < x}) = n - 1)
          => f[n] \in S /\ Cardinality({y \in S : y < f[n]}) = n - 1
  OBVIOUS
<1>4. \A n \in 1..Cardinality(S) :
        (\E x \in S : Cardinality({y \in S : <<y, x>> \in R}) = n - 1)
          => f[n] \in S /\ Cardinality({y \in S : <<y, f[n]>> \in R}) = n - 1
  <2> HIDE DEF R, f
  <2> QED
    BY <1>2, <1>3
<1>5. Numbers(f, S, R)
  <2>1. DOMAIN f = 1..Cardinality(S) /\ f = [n \in DOMAIN f |-> f[n]]
    <3> DEFINE At(n) == CHOOSE x \in S : Cardinality({y \in S : y < x}) = n - 1
    <3>1. f = [n \in 1..Cardinality(S) |-> At(n)]
      OBVIOUS
    <3> HIDE DEF f, At
    <3> QED
      BY <3>1
  <2> HIDE DEF R, f
  <2>2. QED
    BY <2>1, <1>4 DEF Numbers
<1>6. f = InOrder(S, <)
  BY DEF InOrder
<1> HIDE DEF f, R
<1>7. /\ f \in [1..Cardinality(S) -> S] /\ Cardinality(S) \in Nat
      /\ \A x \in S : \E i \in 1..Cardinality(S) : f[i] = x
      /\ \A i, j \in 1..Cardinality(S) : f[i] = f[j] => i = j
  BY <1>1, <1>5, InOrderLists
<1>8. QED
  BY <1>6, <1>7
-----------------------------------------------------------------------------
(* Filters *)

\* What a filter keeps was in the list, and in the set.
LEMMA WithinLists ==
  ASSUME NEW T, NEW list \in Seq(T), NEW S
  PROVE  Within(list, S) \in Seq(S \cap T)
<1> DEFINE n == Len(list)
           V == Seq(S \cap T)
           Keep(kept, x) == IF x \in S THEN Append(kept, x) ELSE kept
           H == [p \in V \X (1..n) |-> Keep(p[1], list[p[2]])]
<1>1. n \in Nat /\ DOMAIN list = 1..n /\ \A i \in 1..n : list[i] \in T
  OBVIOUS
<1>2. <<>> \in V
  OBVIOUS
<1>3. \A d \in V, x \in T : Keep(d, x) \in V
  OBVIOUS
<1> HIDE DEF n, V
<1>4. \A d \in V, i \in 1..n : H[<<d, i>>] = Keep(d, list[i])
  OBVIOUS
<1> HIDE DEF H
<1>5. StepsIn(H, V, n)
  <2> HIDE DEF Keep
  <2> QED BY <1>1, <1>3, <1>4 DEF StepsIn
<1>6. FoldsTo(Within(list, S), n, V, <<>>, H)
  <2>1. SUFFICES ASSUME NEW g \in [SUBSET (1..n) -> V], LeftFolds(g, n, <<>>, H)
        PROVE  \E h : FoldsIn(h, Within(list, S), n, V, <<>>, H)
    BY DEF FoldsTo
  <2>2. \A s \in SUBSET (1..n) : s # {} => Max(s) \in 1..n /\ g[s \ {Max(s)}] \in V
    BY <1>1, LargestOf
  <2>3. g = [s \in SUBSET DOMAIN list |->
               IF s = {} THEN <<>> ELSE Keep(g[s \ {Max(s)}], list[Max(s)])]
    <3> HIDE DEF Keep
    <3> QED BY <1>1, <1>4, <2>1, <2>2 DEF LeftFolds
  <2>4. PICK h : /\ h = [s \in SUBSET DOMAIN list |->
                           IF s = {} THEN <<>> ELSE Keep(h[s \ {Max(s)}], list[Max(s)])]
                 /\ Within(list, S) = h[DOMAIN list]
    BY <2>3 DEF Within, FoldLeft, MapThenFoldSet
  <2> HIDE DEF Keep
  <2>5. \A s \in SUBSET (1..n) :
          h[s] = IF s = {} THEN <<>> ELSE Keep(h[s \ {Max(s)}], list[Max(s)])
    BY <1>1, <2>4
  <2>6. h[{}] = <<>> /\ Within(list, S) = h[1..n]
    BY <1>1, <2>4, <2>5
  <2>7. ASSUME NEW s \in SUBSET (1..n), s # {}, h[s \ {Max(s)}] \in V
        PROVE  h[s] = H[<<h[s \ {Max(s)}], Max(s)>>]
    BY <1>4, <2>2, <2>5, <2>7
  <2> QED BY <2>6, <2>7 DEF FoldsIn
<1>7. PICK r \in [0..n -> V] : IsRun(r, n, <<>>, H, Within(list, S))
  BY <1>1, <1>2, <1>5, <1>6, LeftFoldRun
<1>8. n \in 0..n
  BY <1>1
<1> QED BY <1>7, <1>8 DEF IsRun, V
-----------------------------------------------------------------------------
(* Sums over finite sets (MapThenSumSet) *)

AnyOf(s) == CHOOSE x \in s : TRUE

\* h adds up f over the subsets of S.
Adds(h, f, S) ==
  \A s \in SUBSET S : h[s] = IF s = {} THEN 0 ELSE f[AnyOf(s)] + h[s \ {AnyOf(s)}]

SumsTo(value, f, S) == \E h : value = h[S] /\ Adds(h, f, S)

LEMMA AnyIsMember ==
  ASSUME NEW s, s # {} PROVE AnyOf(s) \in s
BY DEF AnyOf

\* Every sum of numbers is a number, and the order does not matter: any member
\* may be taken out first.
LEMMA SumTakesOneOut ==
  ASSUME NEW S, IsFiniteSet(S), NEW f, \A x \in S : f[x] \in Nat, NEW h, Adds(h, f, S)
  PROVE  \A s \in SUBSET S : h[s] \in Nat /\ \A x \in s : h[s] = f[x] + h[s \ {x}]
<1> DEFINE Taken(s) == AnyOf(s)
           T == {n \in Nat : \A s \in SUBSET S : Cardinality(s) =< n =>
                   h[s] \in Nat /\ \A x \in s : h[s] = f[x] + h[s \ {x}]}
<1>1. \A s \in SUBSET S : IsFiniteSet(s) /\ Cardinality(s) \in Nat /\ (Cardinality(s) = 0 <=> s = {})
  BY FS_Subset, FS_CardinalityType, FS_EmptySet
<1>2. \A s \in SUBSET S : s # {} => Taken(s) \in s /\ h[s] = f[Taken(s)] + h[s \ {Taken(s)}]
  BY AnyIsMember DEF Adds
<1>3. h[{}] = 0
  BY DEF Adds
<1> HIDE DEF Taken
<1>4. 0 \in T
  BY <1>1, <1>3
<1>5. ASSUME NEW n \in Nat, n \in T PROVE n + 1 \in T
  <2>1. \A s \in SUBSET S : Cardinality(s) =< n =>
          h[s] \in Nat /\ \A x \in s : h[s] = f[x] + h[s \ {x}]
    BY <1>5
  <2>2. ASSUME NEW s \in SUBSET S, Cardinality(s) =< n + 1, s # {}
        PROVE  h[s] \in Nat /\ \A x \in s : h[s] = f[x] + h[s \ {x}]
    <3> DEFINE p == Taken(s)
               rest == s \ {p}
    <3>1. p \in s /\ p \in S /\ h[s] = f[p] + h[rest] /\ f[p] \in Nat
      BY <1>2, <2>2
    <3>2. rest \in SUBSET S /\ Cardinality(rest) =< n
      BY <1>1, <2>2, <3>1, SmallerByOne
    <3> HIDE DEF p, rest
    <3>3. h[rest] \in Nat /\ \A x \in rest : h[rest] = f[x] + h[rest \ {x}]
      BY <2>1, <3>2
    <3>4. ASSUME NEW x \in s PROVE h[s] = f[x] + h[s \ {x}]
      <4>1. CASE x = p
        BY <3>1, <4>1 DEF rest
      <4>2. CASE x # p
        <5> DEFINE both == rest \ {x}
        <5>1. x \in rest /\ h[rest] = f[x] + h[both] /\ f[x] \in Nat
          BY <3>3, <4>2 DEF rest
        <5>2. s \ {x} \in SUBSET S /\ p \in s \ {x} /\ (s \ {x}) \ {p} = both
          BY <3>1, <4>2 DEF rest
        <5>3. Cardinality(s \ {x}) =< n
          BY <1>1, <2>2, <5>2, SmallerByOne
        <5>4. h[s \ {x}] = f[p] + h[both]
          <6> DEFINE less == s \ {x}
          <6>1. less \in SUBSET S /\ p \in less /\ less \ {p} = both /\ Cardinality(less) =< n
            BY <5>2, <5>3
          <6> HIDE DEF less, both
          <6>2. h[less] = f[p] + h[less \ {p}]
            BY <2>1, <6>1
          <6> QED BY <6>1, <6>2 DEF less
        <5>5. h[both] \in Nat
          <6>1. both \in SUBSET S /\ Cardinality(both) =< n
            BY <1>1, <3>2, <5>1, SmallerByOne
          <6> QED BY <2>1, <6>1
        <5> HIDE DEF both
        <5> QED BY <3>1, <5>1, <5>4, <5>5
      <4> QED BY <4>1, <4>2
    <3>5. h[s] \in Nat
      BY <3>1, <3>3
    <3> QED BY <3>4, <3>5
  <2>3. ASSUME NEW s \in SUBSET S, s = {}
        PROVE  h[s] \in Nat /\ \A x \in s : h[s] = f[x] + h[s \ {x}]
    BY <1>3, <2>3
  <2> QED BY <2>2, <2>3
<1>6. \A n \in Nat : n \in T
  <2> HIDE DEF T
  <2> QED BY <1>4, <1>5, NatSetInduction
<1>7. SUFFICES ASSUME NEW s \in SUBSET S
               PROVE  h[s] \in Nat /\ \A x \in s : h[s] = f[x] + h[s \ {x}]
  OBVIOUS
<1> DEFINE n == Cardinality(s)
<1>8. n \in Nat /\ n =< n
  BY <1>1
<1>9. n \in T
  <2> HIDE DEF T, n
  <2> QED BY <1>6, <1>8
<1> QED BY <1>8, <1>9

\* Two sums of the same numbers are the same on the sets they share.
LEMMA SumsAgree ==
  ASSUME NEW S, IsFiniteSet(S), NEW R, IsFiniteSet(R), R \subseteq S,
         NEW f, NEW g, \A x \in S : f[x] \in Nat, \A x \in R : g[x] = f[x],
         NEW h, Adds(h, f, S), NEW k, Adds(k, g, R)
  PROVE  \A s \in SUBSET R : k[s] = h[s]
<1> DEFINE pick == [s \in SUBSET R |-> AnyOf(s)]
           H == [p \in Nat \X R |-> f[p[2]] + p[1]]
<1>1. Picks(pick, R)
  BY AnyIsMember DEF Picks
<1>2. \A s \in SUBSET R : h[s] \in Nat /\ k[s] \in Nat
  <2>1. \A s \in SUBSET S : h[s] \in Nat
    BY SumTakesOneOut
  <2>2. \A x \in R : g[x] \in Nat
    OBVIOUS
  <2>3. \A s \in SUBSET R : k[s] \in Nat
    BY <2>2, SumTakesOneOut
  <2> QED BY <2>1, <2>3
<1>3. ASSUME NEW s \in SUBSET R
      PROVE  /\ k[s] = IF s = {} THEN 0 ELSE H[<<k[s \ {pick[s]}], pick[s]>>]
             /\ h[s] = IF s = {} THEN 0 ELSE H[<<h[s \ {pick[s]}], pick[s]>>]
  <2>1. CASE s = {}
    BY <2>1 DEF Adds
  <2>2. CASE s # {}
    <3> DEFINE p == AnyOf(s)
               rest == s \ {p}
    <3>1. p \in R /\ pick[s] = p /\ rest \in SUBSET R
      BY <2>2, AnyIsMember
    <3>2. k[s] = g[p] + k[rest] /\ h[s] = f[p] + h[rest] /\ g[p] = f[p]
      BY <2>2, <3>1 DEF Adds
    <3> HIDE DEF p, rest, pick
    <3>3. k[rest] \in Nat /\ h[rest] \in Nat
      BY <1>2, <3>1
    <3>4. H[<<k[rest], p>>] = f[p] + k[rest] /\ H[<<h[rest], p>>] = f[p] + h[rest]
      BY <3>1, <3>3
    <3> HIDE DEF H
    <3>5. k[s] = H[<<k[rest], p>>] /\ h[s] = H[<<h[rest], p>>]
      BY <3>2, <3>4
    <3> QED BY <2>2, <3>1, <3>5 DEF rest
  <2> QED BY <2>1, <2>2
<1> HIDE DEF H, pick
<1>4. Folds(k, R, 0, pick, H)
  BY <1>3 DEF Folds
<1>5. Folds(h, R, 0, pick, H)
  BY <1>3 DEF Folds
<1> QED BY <1>1, <1>4, <1>5, FoldIsUnique

\* The sum over no member is 0, and one more member adds its number.
LEMMA SumOfOneMore ==
  ASSUME NEW S, IsFiniteSet(S), NEW x, x \notin S, NEW f, NEW g, f[x] \in Nat,
         \A y \in S : f[y] \in Nat /\ g[y] = f[y],
         NEW a, SumsTo(a, f, S \cup {x}), NEW b, SumsTo(b, g, S)
  PROVE  a \in Nat /\ b \in Nat /\ a = f[x] + b
<1>1. PICK h : a = h[S \cup {x}] /\ Adds(h, f, S \cup {x})
  BY DEF SumsTo
<1>2. PICK k : b = k[S] /\ Adds(k, g, S)
  BY DEF SumsTo
<1>3. IsFiniteSet(S \cup {x}) /\ (S \cup {x}) \ {x} = S /\ x \in S \cup {x}
  BY FS_AddElement
<1>4. \A y \in S \cup {x} : f[y] \in Nat
  OBVIOUS
<1>5. h[S \cup {x}] = f[x] + h[S] /\ h[S] \in Nat
  <2>1. \A s \in SUBSET (S \cup {x}) : h[s] \in Nat /\ \A y \in s : h[s] = f[y] + h[s \ {y}]
    BY <1>1, <1>3, <1>4, SumTakesOneOut
  <2>2. S \in SUBSET (S \cup {x}) /\ S \cup {x} \in SUBSET (S \cup {x})
    OBVIOUS
  <2> QED BY <1>3, <2>1, <2>2
<1>6. k[S] = h[S]
  BY <1>1, <1>2, <1>3, <1>4, SumsAgree
<1> QED BY <1>1, <1>2, <1>5, <1>6

LEMMA SumIsUnique ==
  ASSUME NEW S, IsFiniteSet(S), NEW f, NEW g, \A x \in S : f[x] \in Nat /\ g[x] = f[x],
         NEW a, SumsTo(a, f, S), NEW b, SumsTo(b, g, S)
  PROVE  a = b /\ a \in Nat
<1>1. PICK h : a = h[S] /\ Adds(h, f, S)
  BY DEF SumsTo
<1>2. PICK k : b = k[S] /\ Adds(k, g, S)
  BY DEF SumsTo
<1>3. k[S] = h[S]
  BY <1>1, <1>2, SumsAgree
<1>4. h[S] \in Nat
  BY <1>1, SumTakesOneOut
<1> QED BY <1>1, <1>2, <1>3, <1>4

\* There is a sum.
LEMMA SumExists ==
  ASSUME NEW S, IsFiniteSet(S), NEW f, \A x \in S : f[x] \in Nat
  PROVE  \E h \in [SUBSET S -> Nat] : Adds(h, f, S)
<1> DEFINE pick == [s \in SUBSET S |-> AnyOf(s)]
           H == [p \in Nat \X S |-> f[p[2]] + p[1]]
<1>1. Picks(pick, S)
  BY AnyIsMember DEF Picks
<1>2. \A v \in Nat, x \in S : H[<<v, x>>] = f[x] + v
  OBVIOUS
<1>3. ASSUME NEW v \in Nat, NEW x \in S PROVE H[<<v, x>>] \in Nat
  <2> DEFINE y == f[x]
  <2>1. y \in Nat /\ H[<<v, x>>] = y + v
    BY <1>2
  <2> HIDE DEF H, y
  <2> QED BY <2>1
<1>4. \A s \in SUBSET S : pick[s] = AnyOf(s)
  OBVIOUS
<1>5. \A s \in SUBSET S : s # {} => AnyOf(s) \in S
  BY AnyIsMember
<1> HIDE DEF pick, H
<1>6. PICK h \in [SUBSET S -> Nat] : Folds(h, S, 0, pick, H)
  BY <1>1, <1>3, FoldExists
<1>7. ASSUME NEW s \in SUBSET S
      PROVE  h[s] = IF s = {} THEN 0 ELSE f[AnyOf(s)] + h[s \ {AnyOf(s)}]
  <2>1. h[s] = IF s = {} THEN 0 ELSE H[<<h[s \ {pick[s]}], pick[s]>>]
    BY <1>6 DEF Folds
  <2>2. CASE s # {}
    <3>1. AnyOf(s) \in S /\ pick[s] = AnyOf(s) /\ h[s \ {AnyOf(s)}] \in Nat
      BY <1>4, <1>5, <1>6, <2>2
    <3> QED BY <1>2, <2>1, <2>2, <3>1
  <2> QED BY <2>1, <2>2
<1> QED BY <1>7 DEF Adds
=============================================================================

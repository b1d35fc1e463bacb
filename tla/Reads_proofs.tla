---------------------------- MODULE Reads_proofs ----------------------------
(***************************************************************************)
(* What a reader gets who reads in several statements: the pages of a walk *)
(* and the loads from snapshots, for any number of transactions, streams,  *)
(* positions and page sizes, any event types and any definitions.          *)
(*                                                                         *)
(* A walk joins two arguments.  The boundary: whatever commits after the   *)
(* capture was in progress then or got its id later, so that the events a  *)
(* page query may match never change.  The two limits: the first rows of   *)
(* the first rows of each stream are the first rows of all, and one row    *)
(* more than is shown tells whether there is a next page.                  *)
(*                                                                         *)
(* Replaying from a faithful state is replaying from the beginning,        *)
(* because the sources up to a version and the ones after it are, one      *)
(* after the other, all sources.  A snapshot stays faithful because the    *)
(* stream only grows, and because it is no source itself.                  *)
(***************************************************************************)
EXTENDS ReadPages, Snapshots, FiniteSetTheorems, SequenceTheorems,
        WellFoundedInduction, TLAPS

-----------------------------------------------------------------------------
(* Numbers.                                                                *)

LEMMA Smallest ==
  ASSUME NEW S \in SUBSET Nat, S # {}
  PROVE  \E p \in S : \A q \in S : p <= q
<1>1. PICK p \in S : \A q \in S : ~(<<q, p>> \in OpToRel(<, Nat))
  BY NatLessThanWellFounded, WFMin
<1>2. ASSUME NEW q \in S PROVE p <= q
  <2>1. ~(q < p)
    BY <1>1 DEF OpToRel
  <2>. QED BY <2>1
<1>. QED BY <1>2

LEMMA Largest ==
  ASSUME NEW S \in SUBSET Nat, S # {}, NEW n \in Nat, \A q \in S : q <= n
  PROVE  \E p \in S : \A q \in S : q <= p
<1> DEFINE Below == {m \in Nat : m <= n /\ n - m \in S}
<1>1. Below \in SUBSET Nat /\ Below # {}
  <2>1. PICK q \in S : TRUE
    OBVIOUS
  <2>2. n - q \in Nat /\ n - q <= n /\ n - (n - q) = q
    BY <2>1
  <2>. QED BY <2>1, <2>2
<1> HIDE DEF Below
<1>2. PICK m \in Below : \A k \in Below : m <= k
  BY <1>1, Smallest
<1>3. m \in Nat /\ m <= n /\ n - m \in S
  BY DEF Below
<1>4. ASSUME NEW q \in S PROVE q <= n - m
  <2>1. n - q \in Nat /\ n - q <= n /\ n - (n - q) = q
    OBVIOUS
  <2>2. m <= n - q
    BY <1>2, <2>1 DEF Below
  <2>. QED BY <1>3, <2>1, <2>2
<1>. QED BY <1>3, <1>4

LEMMA MaxIsLargest ==
  ASSUME NEW S \in SUBSET Nat, S # {}, NEW n \in Nat, \A q \in S : q <= n
  PROVE  Max(S) \in S /\ \A q \in S : q <= Max(S)
<1>1. PICK p \in S : \A q \in S : p >= q
  BY Largest
<1>. QED BY <1>1 DEF Max

LEMMA LargestUpTo ==
  ASSUME NEW n \in Nat, NEW S \in SUBSET (0..n), S # {}
  PROVE  \E p \in S : \A q \in S : q <= p
<1>1. S \in SUBSET Nat /\ \A q \in S : q <= n
  OBVIOUS
<1>. QED BY <1>1, Largest

LEMMA MaxUpTo ==
  ASSUME NEW n \in Nat, NEW S \in SUBSET (0..n), S # {}
  PROVE  Max(S) \in S /\ \A q \in S : q <= Max(S)
<1>1. S \in SUBSET Nat /\ \A q \in S : q <= n
  OBVIOUS
<1>. QED BY <1>1, MaxIsLargest

LEMMA MinIsElement ==
  ASSUME NEW S \in SUBSET Nat, S # {}
  PROVE  Min(S) \in S
<1>1. PICK p \in S : \A q \in S : p <= q
  BY Smallest
<1>. QED BY <1>1 DEF Min

-----------------------------------------------------------------------------
(* Numbers in the order of a walk.                                         *)

LEMMA BeforeIsTotal ==
  ASSUME NEW p \in Nat, NEW q \in Nat, NEW order
  PROVE  /\ ~Before(p, p, order)
         /\ p # q => Before(p, q, order) \/ Before(q, p, order)
         /\ ~(Before(p, q, order) /\ Before(q, p, order))
BY DEF Before

LEMMA BeforeIsTransitive ==
  ASSUME NEW p \in Nat, NEW q \in Nat, NEW r \in Nat, NEW order,
         Before(p, q, order), Before(q, r, order)
  PROVE  Before(p, r, order)
BY DEF Before

LEMMA FirstExists ==
  ASSUME NEW n \in Nat, NEW S \in SUBSET (1..n), S # {}, NEW order
  PROVE  \E p \in S : \A q \in S \ {p} : Before(p, q, order)
<1>1. S \in SUBSET Nat /\ \A q \in S : q <= n
  OBVIOUS
<1>2. CASE order = "asc"
  <2>1. PICK p \in S : \A q \in S : p <= q
    BY <1>1, Smallest
  <2>2. \A q \in S \ {p} : p < q
    BY <1>1, <2>1
  <2>. QED BY <1>2, <2>2 DEF Before
<1>3. CASE order # "asc"
  <2>1. PICK p \in S : \A q \in S : q <= p
    BY <1>1, Largest
  <2>2. \A q \in S \ {p} : q < p
    BY <1>1, <2>1
  <2>. QED BY <1>3, <2>2 DEF Before
<1>. QED BY <1>2, <1>3

LEMMA LastIsLast ==
  ASSUME NEW n \in Nat, NEW S \in SUBSET (1..n), S # {}, NEW order
  PROVE  /\ LastRow(S, order) \in S
         /\ \A q \in S \ {LastRow(S, order)} : Before(q, LastRow(S, order), order)
<1>1. \E p \in S : \A q \in S \ {p} : Before(q, p, order)
  <2>1. PICK p \in S : \A q \in S \ {p} : Before(p, q, IF order = "asc" THEN "desc" ELSE "asc")
    BY FirstExists
  <2>2. \A q \in S \ {p} : Before(q, p, order)
    BY <2>1 DEF Before
  <2>. QED BY <2>2
<1>. QED BY <1>1 DEF LastRow

-----------------------------------------------------------------------------
(* ORDER BY ... LIMIT n.                                                   *)

LEMMA BeforeFinite ==
  ASSUME NEW n \in Nat, NEW S \in SUBSET (1..n), NEW p, NEW order
  PROVE  /\ IsFiniteSet(S)
         /\ Cardinality(S) \in Nat
         /\ IsFiniteSet({q \in S : Before(q, p, order)})
         /\ Cardinality({q \in S : Before(q, p, order)}) \in Nat
<1>1. IsFiniteSet(1..n)
  BY FS_Interval
<1>2. IsFiniteSet(S) /\ {q \in S : Before(q, p, order)} \in SUBSET S
  BY <1>1, FS_Subset
<1>3. IsFiniteSet({q \in S : Before(q, p, order)})
  BY <1>2, FS_Subset
<1>. QED BY <1>2, <1>3, FS_CardinalityType

\* With a row, all the rows before it are among the first ones.
LEMMA FirstRowsClosed ==
  ASSUME NEW n \in Nat, NEW S \in SUBSET (1..n), NEW order, NEW limit \in Nat,
         NEW p \in FirstRows(S, order, limit), NEW q \in S, Before(q, p, order)
  PROVE  q \in FirstRows(S, order, limit)
<1> DEFINE B(r) == {x \in S : Before(x, r, order)}
<1>1. p \in S /\ Cardinality(B(p)) < limit
  BY DEF FirstRows
<1>2. B(q) \subseteq B(p)
  <2>1. ASSUME NEW x \in S, Before(x, q, order) PROVE Before(x, p, order)
    BY <1>1, <2>1, BeforeIsTransitive
  <2>. QED BY <2>1
<1>3. IsFiniteSet(B(p)) /\ Cardinality(B(p)) \in Nat /\ Cardinality(B(q)) \in Nat
  BY BeforeFinite
<1>4. Cardinality(B(q)) <= Cardinality(B(p))
  BY <1>2, <1>3, FS_Subset
<1>5. Cardinality(B(q)) < limit
  BY <1>1, <1>3, <1>4
<1>. QED BY <1>5 DEF FirstRows

\* A row that is among the first of a set is among the first of a smaller one.
LEMMA FirstRowsOfSubset ==
  ASSUME NEW n \in Nat, NEW T \in SUBSET (1..n), NEW S \in SUBSET T, NEW order,
         NEW limit \in Nat, NEW p \in S, p \in FirstRows(T, order, limit)
  PROVE  p \in FirstRows(S, order, limit)
<1> DEFINE B(X) == {x \in X : Before(x, p, order)}
<1>1. B(S) \subseteq B(T)
  OBVIOUS
<1>2. IsFiniteSet(B(T)) /\ Cardinality(B(T)) \in Nat
  BY BeforeFinite
<1>3. Cardinality(B(S)) \in Nat
  BY BeforeFinite
<1>4. Cardinality(B(S)) <= Cardinality(B(T))
  BY <1>1, <1>2, FS_Subset
<1>5. Cardinality(B(T)) < limit
  BY DEF FirstRows
<1>6. Cardinality(B(S)) < limit
  BY <1>2, <1>3, <1>4, <1>5
<1>. QED BY <1>6 DEF FirstRows

\* The first rows of the first rows of each part are the first rows of all.
LEMMA FirstRowsOfParts ==
  ASSUME NEW n \in Nat, NEW I, NEW Of \in [I -> SUBSET (1..n)], NEW order, NEW limit \in Nat
  PROVE  FirstRows(UNION {FirstRows(Of[i], order, limit) : i \in I}, order, limit)
           = FirstRows(UNION {Of[i] : i \in I}, order, limit)
<1> DEFINE T == UNION {Of[i] : i \in I}
           P == UNION {FirstRows(Of[i], order, limit) : i \in I}
           B(X, p) == {x \in X : Before(x, p, order)}
<1>1. T \in SUBSET (1..n) /\ P \in SUBSET T /\ \A i \in I : Of[i] \in SUBSET T
  BY DEF FirstRows
<1>2. ASSUME NEW p \in FirstRows(T, order, limit) PROVE p \in P
  <2>1. p \in T
    BY DEF FirstRows
  <2>2. PICK i \in I : p \in Of[i]
    BY <2>1
  <2>3. p \in FirstRows(Of[i], order, limit)
    BY <1>1, <2>2, FirstRowsOfSubset
  <2>. QED BY <2>3
<1>3. ASSUME NEW p \in FirstRows(T, order, limit) PROVE p \in FirstRows(P, order, limit)
  BY <1>1, <1>2, <1>3, FirstRowsOfSubset
<1>4. ASSUME NEW p \in FirstRows(P, order, limit) PROVE p \in FirstRows(T, order, limit)
  <2>1. p \in P /\ p \in T /\ Cardinality(B(P, p)) < limit
    BY <1>1, <1>4 DEF FirstRows
  <2>2. SUFFICES B(T, p) \subseteq P
    <3>1. B(T, p) = B(P, p)
      BY <1>1, <2>2
    <3>. QED BY <2>1, <3>1 DEF FirstRows
  <2>3. SUFFICES ASSUME B(T, p) \ P # {} PROVE FALSE
    OBVIOUS
  <2>4. PICK q \in B(T, p) \ P : \A x \in (B(T, p) \ P) \ {q} : Before(q, x, order)
    <3> HIDE DEF T, P
    <3>1. B(T, p) \ P \in SUBSET (1..n)
      BY <1>1
    <3> HIDE DEF B
    <3>. QED BY <2>3, <3>1, FirstExists
  <2>5. PICK i \in I : q \in Of[i]
    OBVIOUS
  <2>6. B(Of[i], q) \subseteq B(P, p)
    <3>1. ASSUME NEW x \in Of[i], Before(x, q, order) PROVE x \in P /\ Before(x, p, order)
      <4>1. x \in Nat /\ q \in Nat /\ p \in Nat /\ x \in T /\ Before(q, p, order)
        BY <1>1, <2>1, <2>4, <3>1
      <4>2. Before(x, p, order) /\ ~Before(q, x, order) /\ x # q
        <5> HIDE DEF T, P
        <5>. QED BY <3>1, <4>1, BeforeIsTransitive, BeforeIsTotal
      <4>. QED BY <2>4, <4>1, <4>2
    <3>. QED BY <3>1
  <2>7. /\ IsFiniteSet(B(P, p)) /\ Cardinality(B(P, p)) \in Nat
        /\ Cardinality(B(Of[i], q)) \in Nat
    <3>1. P \in SUBSET (1..n) /\ Of[i] \in SUBSET (1..n)
      BY <1>1
    <3> HIDE DEF T, P
    <3>. QED BY <3>1, BeforeFinite
  <2>8. Cardinality(B(Of[i], q)) <= Cardinality(B(P, p))
    <3> HIDE DEF B
    <3>. QED BY <2>6, <2>7, FS_Subset
  <2>9. Cardinality(B(Of[i], q)) < limit
    <3> HIDE DEF P, B
    <3>. QED BY <2>1, <2>7, <2>8
  <2>10. q \in FirstRows(Of[i], order, limit)
    BY <2>5, <2>9 DEF FirstRows
  <2>. QED BY <2>4, <2>10
<1>5. FirstRows(P, order, limit) \subseteq FirstRows(T, order, limit)
  BY <1>4
<1>6. FirstRows(T, order, limit) \subseteq FirstRows(P, order, limit)
  BY <1>3
<1>. QED BY <1>5, <1>6

\* One row more than is shown, of which the first ones are shown.
LEMMA FirstRowsOfLookahead ==
  ASSUME NEW n \in Nat, NEW S \in SUBSET (1..n), NEW order, NEW limit \in Nat
  PROVE  FirstRows(FirstRows(S, order, limit + 1), order, limit) = FirstRows(S, order, limit)
<1> DEFINE R == FirstRows(S, order, limit + 1)
           B(X, p) == {x \in X : Before(x, p, order)}
<1>1. R \in SUBSET S
  BY DEF FirstRows
<1>2. ASSUME NEW p \in R PROVE B(R, p) = B(S, p)
  <2>0. limit + 1 \in Nat
    OBVIOUS
  <2>1. ASSUME NEW q \in S, Before(q, p, order) PROVE q \in R
    BY <1>2, <2>0, <2>1, FirstRowsClosed
  <2>. QED BY <1>1, <2>1
<1>3. ASSUME NEW p \in FirstRows(S, order, limit) PROVE p \in R
  <2>1. p \in S /\ Cardinality(B(S, p)) < limit /\ Cardinality(B(S, p)) \in Nat
    BY <1>3, BeforeFinite DEF FirstRows
  <2>2. Cardinality(B(S, p)) < limit + 1
    BY <2>1
  <2>. QED BY <2>1, <2>2 DEF FirstRows
<1>4. FirstRows(S, order, limit) \subseteq FirstRows(R, order, limit)
  <2>1. ASSUME NEW p \in FirstRows(S, order, limit) PROVE p \in FirstRows(R, order, limit)
    BY <1>1, <1>3, <2>1, FirstRowsOfSubset
  <2>. QED BY <2>1
<1>5. FirstRows(R, order, limit) \subseteq FirstRows(S, order, limit)
  <2>1. ASSUME NEW p \in FirstRows(R, order, limit) PROVE p \in FirstRows(S, order, limit)
    <3>1. p \in R /\ p \in S /\ Cardinality(B(R, p)) < limit
      BY <1>1, <2>1 DEF FirstRows
    <3>2. Cardinality(B(S, p)) < limit
      BY <1>2, <3>1
    <3>. QED BY <3>1, <3>2 DEF FirstRows
  <2>. QED BY <2>1
<1>. QED BY <1>4, <1>5

\* If there is no row more, the ones that are shown are all.
LEMMA NoNextPage ==
  ASSUME NEW n \in Nat, NEW S \in SUBSET (1..n), NEW order, NEW limit \in Nat,
         ~(Cardinality(FirstRows(S, order, limit + 1)) > limit)
  PROVE  FirstRows(S, order, limit) = S
<1> DEFINE F == FirstRows(S, order, limit)
           R == FirstRows(S, order, limit + 1)
           B(p) == {x \in S : Before(x, p, order)}
<1>1. F \in SUBSET S /\ R \in SUBSET S
  BY DEF FirstRows
<1>2. SUFFICES ASSUME S \ F # {} PROVE FALSE
  BY <1>1
<1>3. PICK q \in S \ F : \A x \in (S \ F) \ {q} : Before(q, x, order)
  <2> HIDE DEF F
  <2>. QED BY <1>2, FirstExists
<1>4. IsFiniteSet(B(q)) /\ Cardinality(B(q)) \in Nat /\ IsFiniteSet(R) /\ Cardinality(R) \in Nat
  <2>1. R \in SUBSET (1..n)
    BY <1>1
  <2> HIDE DEF R
  <2>. QED BY <2>1, BeforeFinite
<1>5. Cardinality(B(q)) >= limit
  BY <1>3, <1>4 DEF FirstRows
<1>6. B(q) \subseteq F
  <2>1. ASSUME NEW x \in S, Before(x, q, order), x \notin F PROVE FALSE
    <3>1. x # q /\ Before(q, x, order)
      BY <1>3, <2>1, BeforeIsTotal
    <3>. QED BY <2>1, <3>1, BeforeIsTotal
  <2>. QED BY <2>1
<1>7. F \subseteq R
  <2>1. F = FirstRows(R, order, limit)
    BY FirstRowsOfLookahead
  <2> HIDE DEF F, R
  <2>. QED BY <2>1 DEF FirstRows
<1>8. Cardinality(R) <= limit
  <2>1. ~(Cardinality(R) > limit)
    OBVIOUS
  <2> HIDE DEF R
  <2>. QED BY <1>4, <2>1
<1>9. Cardinality(B(q)) <= Cardinality(R)
  <2>1. B(q) \in SUBSET R
    BY <1>6, <1>7
  <2> HIDE DEF B, R
  <2>. QED BY <1>4, <2>1, FS_Subset
<1>10. Cardinality(B(q)) = limit /\ Cardinality(R) = limit
  <2> HIDE DEF B, R
  <2>. QED BY <1>4, <1>5, <1>8, <1>9
<1>11. q \in R
  BY <1>3, <1>10 DEF FirstRows
<1>12. B(q) = R
  <2>1. B(q) \in SUBSET R
    BY <1>6, <1>7
  <2> HIDE DEF B, R
  <2>. QED BY <1>4, <1>10, <2>1, FS_Subset
<1>. QED BY <1>6, <1>3, <1>11, <1>12
-----------------------------------------------------------------------------
(* The inductive invariant of ReadPages.                                   *)

WTypeOK ==
  /\ events \in Seq([stream : Streams, tx : Transactions])
  /\ xid \in [Transactions -> Nat]
  /\ status \in [Transactions -> {"running", "committed", "rolledBack"}]
  /\ phase \in {"new", "captured", "between", "done"}
  /\ request \in Requests
  /\ boundary \in [watermark : Nat, xmax : Nat, inProgress : SUBSET Nat]
  /\ cursor \in Nat
  /\ pages \in Seq([cursor : Nat, limit : Limits, rows : SUBSET Nat])
  /\ expected \in SUBSET Nat

\* Ids are given out once, in ascending order, before anything is written.
XidInv ==
  /\ \E n \in Nat : \A t \in Transactions : xid[t] <= n
  /\ \A t, u \in Transactions : (xid[t] = xid[u] /\ xid[t] # 0) => t = u
  /\ \A t \in Transactions : status[t] # "running" => xid[t] # 0
  /\ \A p \in Positions : xid[events[p].tx] # 0

\* A transaction that is still running is not visible in the boundary, and none
\* that starts later will be.
BoundaryInv ==
  /\ boundary.xmax = 1 \/ \E t \in Transactions : xid[t] = boundary.xmax - 1
  /\ \A t \in Transactions : (status[t] = "running" /\ xid[t] # 0) =>
       xid[t] >= boundary.xmax \/ xid[t] \in boundary.inProgress

\* What the page query may match is what was there at the capture.
MatchInv == expected = UNION {Matching(s) : s \in request.streams}

\* What has been read are the events up to the cursor.
Passed == {p \in expected : p = cursor \/ Before(p, cursor, request.order)}

WalkInv ==
  /\ phase \in {"new", "captured"} => pages = <<>> /\ cursor = 0
  /\ phase = "between" => cursor \in expected /\ Walked = Passed
  /\ phase = "done" => Walked = expected
  /\ \A i, j \in DOMAIN pages : i < j =>
       \A p \in pages[i].rows : \A q \in pages[j].rows : Before(p, q, request.order)

WIInv == WTypeOK /\ XidInv /\ BoundaryInv /\ MatchInv /\ WalkInv /\ CursorsRepeat
-----------------------------------------------------------------------------
LEMMA WInitIInv == WInit => WIInv
<1> SUFFICES ASSUME WInit PROVE WIInv
  OBVIOUS
<1> USE DEF WInit
<1>1. Positions = {} /\ Committed = {}
  BY DEF Positions, Committed
<1>2. WTypeOK
  BY DEF WTypeOK
<1>3. XidInv /\ BoundaryInv
  BY <1>1 DEF XidInv, BoundaryInv
<1>4. \A s : Matching(s) = {}
  BY <1>1 DEF Matching
<1>5. MatchInv
  BY <1>4 DEF MatchInv
<1>6. DOMAIN pages = {}
  OBVIOUS
<1>7. WalkInv /\ CursorsRepeat
  BY <1>6 DEF WalkInv, CursorsRepeat, Walked
<1>. QED BY <1>2, <1>3, <1>5, <1>7 DEF WIInv

LEMMA WritersAreTransactions ==
  ASSUME WTypeOK
  PROVE  \A p \in Positions : events[p].tx \in Transactions
<1>1. events \in Seq([stream : Streams, tx : Transactions])
  BY DEF WTypeOK
<1>2. \A p \in 1..Len(events) : events[p] \in [stream : Streams, tx : Transactions]
  BY <1>1, ElementOfSeq
<1>. QED BY <1>2 DEF Positions

LEMMA MatchingFinite ==
  ASSUME WTypeOK, MatchInv
  PROVE  /\ Len(events) \in Nat
         /\ \A s : Matching(s) \in SUBSET (1..Len(events))
         /\ expected \in SUBSET (1..Len(events))
<1>1. Len(events) \in Nat
  BY DEF WTypeOK
<1>2. \A s : Matching(s) \in SUBSET (1..Len(events))
  BY DEF Matching, Committed, Positions
<1>. QED BY <1>1, <1>2 DEF MatchInv

\* The page query, with its two limits, returns the first matching rows after
\* the cursor.
LEMMA PageIsFirstRows ==
  ASSUME WTypeOK, MatchInv, NEW c \in Nat, NEW limit \in Nat
  PROVE  LET Rest == {p \in expected : After(p, c)}
         IN  /\ PageRows(c, limit) = FirstRows(Rest, request.order, limit + 1)
             /\ PageShown(c, limit) = FirstRows(Rest, request.order, limit)
<1> DEFINE Of == [s \in request.streams |-> {p \in Matching(s) : After(p, c)}]
           Rest == {p \in expected : After(p, c)}
           n == Len(events)
<1>1. n \in Nat /\ Of \in [request.streams -> SUBSET (1..n)] /\ Rest \in SUBSET (1..n)
  BY MatchingFinite
<1>2. UNION {Of[s] : s \in request.streams} = Rest
  <2>1. ASSUME NEW s \in request.streams PROVE Of[s] = {p \in Matching(s) : After(p, c)}
    OBVIOUS
  <2> HIDE DEF Of
  <2>2. UNION {Of[s] : s \in request.streams} \subseteq Rest
    BY <2>1 DEF MatchInv
  <2>3. ASSUME NEW p \in Rest PROVE p \in UNION {Of[s] : s \in request.streams}
    <3>1. PICK s \in request.streams : p \in Matching(s)
      BY DEF MatchInv
    <3>. QED BY <2>1, <3>1
  <2>. QED BY <2>2, <2>3
<1>3. PageRows(c, limit)
        = FirstRows(UNION {FirstRows(Of[s], request.order, limit + 1) : s \in request.streams},
                    request.order, limit + 1)
  BY DEF PageRows, Lookahead
<1>4. PageRows(c, limit) = FirstRows(Rest, request.order, limit + 1)
  <2>1. limit + 1 \in Nat
    OBVIOUS
  <2> HIDE DEF Of, Rest, n
  <2>. QED BY <1>1, <1>2, <1>3, <2>1, FirstRowsOfParts
<1>5. PageShown(c, limit) = FirstRows(Rest, request.order, limit)
  <2> HIDE DEF Rest, n
  <2>1. FirstRows(FirstRows(Rest, request.order, limit + 1), request.order, limit)
          = FirstRows(Rest, request.order, limit)
    BY <1>1, FirstRowsOfLookahead
  <2>. QED BY <1>4, <2>1 DEF PageShown
<1>. QED BY <1>4, <1>5

-----------------------------------------------------------------------------
(* Appends change nothing of what a walk matches.                          *)

LEMMA SameMatching ==
  ASSUME Committed' = Committed, boundary' = boundary,
         \A p \in Committed : /\ events'[p] = events[p]
                              /\ xid'[events[p].tx] = xid[events[p].tx],
         NEW s
  PROVE  Matching(s)' = Matching(s)
BY DEF Matching, VisibleInBoundary

LEMMA AssignXidKeeps ==
  ASSUME WIInv, NEW t \in Transactions, AssignXid(t)
  PROVE  WTypeOK' /\ XidInv' /\ BoundaryInv' /\ \A s : Matching(s)' = Matching(s)
<1> DEFINE ids == {xid[u] : u \in Transactions}
           new == 1 + Max(ids)
<1>1. /\ xid \in [Transactions -> Nat] /\ status[t] = "running" /\ xid[t] = 0
      /\ xid' = [xid EXCEPT ![t] = new]
      /\ UNCHANGED <<events, status, walk>>
  BY DEF AssignXid, WIInv, WTypeOK
<1>2. Max(ids) \in ids /\ \A n \in ids : n <= Max(ids)
  <2>1. PICK n \in Nat : \A u \in Transactions : xid[u] <= n
    BY DEF WIInv, XidInv
  <2>2. ids \in SUBSET Nat /\ ids # {} /\ \A m \in ids : m <= n
    BY <1>1, <2>1
  <2> HIDE DEF ids
  <2>. QED BY <2>2, MaxIsLargest
<1>3. new \in Nat \ {0} /\ \A u \in Transactions : xid[u] < new
  <2>1. \A u \in Transactions : xid[u] <= Max(ids)
    BY <1>2
  <2>2. Max(ids) \in Nat
    BY <1>1, <1>2
  <2> HIDE DEF ids
  <2>. QED BY <1>1, <2>1, <2>2
<1> HIDE DEF new, ids
<1>4. /\ xid' \in [Transactions -> Nat] /\ xid'[t] = new
      /\ \A u \in Transactions \ {t} : xid'[u] = xid[u]
  BY <1>1, <1>3
<1>5. WTypeOK'
  BY <1>1, <1>4 DEF WIInv, WTypeOK, walk
<1>6. \A p \in Positions : events[p].tx \in Transactions
  BY WritersAreTransactions DEF WIInv
<1>7. XidInv'
  <2>1. \A u \in Transactions : xid'[u] <= new
    BY <1>3, <1>4
  <2>2. \A u, v \in Transactions : (xid'[u] = xid'[v] /\ xid'[u] # 0) => u = v
    BY <1>3, <1>4 DEF WIInv, XidInv
  <2>3. \A u \in Transactions : xid[u] # 0 => xid'[u] # 0
    BY <1>3, <1>4
  <2>4. \A u \in Transactions : status'[u] # "running" => xid'[u] # 0
    BY <1>1, <2>3 DEF WIInv, XidInv
  <2>5. \A p \in Positions' : xid'[events'[p].tx] # 0
    BY <1>1, <1>6, <2>3 DEF WIInv, XidInv, Positions
  <2>. QED BY <1>3, <2>1, <2>2, <2>4, <2>5 DEF XidInv
<1>8. BoundaryInv'
  <2>1. boundary' = boundary /\ boundary.xmax \in Nat
    BY <1>1 DEF walk, WIInv, WTypeOK
  <2>2. \A u \in Transactions : xid[u] # 0 => xid'[u] = xid[u]
    BY <1>1, <1>4
  <2>3. boundary.xmax = 1 \/ \E u \in Transactions : xid[u] = boundary.xmax - 1
    BY DEF WIInv, BoundaryInv
  <2>4. boundary.xmax = 1 \/ \E u \in Transactions : xid'[u] = boundary.xmax - 1
    <3>1. CASE boundary.xmax = 1
      BY <3>1
    <3>2. ASSUME NEW u \in Transactions, xid[u] = boundary.xmax - 1, boundary.xmax # 1
          PROVE  xid'[u] = boundary.xmax - 1
      BY <2>1, <2>2, <3>2
    <3>. QED BY <2>3, <3>1, <3>2
  <2>5. new >= boundary.xmax
    BY <1>1, <1>3, <2>1, <2>3
  <2>6. \A u \in Transactions : (status'[u] = "running" /\ xid'[u] # 0) =>
          xid'[u] >= boundary.xmax \/ xid'[u] \in boundary.inProgress
    BY <1>1, <1>4, <2>5 DEF WIInv, BoundaryInv
  <2>. QED BY <2>1, <2>4, <2>6 DEF BoundaryInv
<1>9. ASSUME NEW s PROVE Matching(s)' = Matching(s)
  <2>1. Committed' = Committed /\ boundary' = boundary /\ events' = events
    BY <1>1 DEF Committed, Positions, walk
  <2>2. \A p \in Committed : xid'[events[p].tx] = xid[events[p].tx]
    BY <1>1, <1>4, <1>6 DEF Committed
  <2>. QED BY <2>1, <2>2, SameMatching
<1>. QED BY <1>5, <1>7, <1>8, <1>9

LEMMA InsertKeeps ==
  ASSUME WIInv, NEW t \in Transactions, NEW name \in Streams, Insert(t, name)
  PROVE  WTypeOK' /\ XidInv' /\ BoundaryInv' /\ \A s : Matching(s)' = Matching(s)
<1> DEFINE new == [stream |-> name, tx |-> t]
<1>1. /\ status[t] = "running" /\ xid[t] # 0
      /\ events' = Append(events, new)
      /\ UNCHANGED <<xid, status, walk>>
  BY DEF Insert
<1>2. /\ events \in Seq([stream : Streams, tx : Transactions])
      /\ new \in [stream : Streams, tx : Transactions]
  BY DEF WIInv, WTypeOK
<1>3. /\ events' \in Seq([stream : Streams, tx : Transactions])
      /\ Len(events) \in Nat /\ Len(events') = Len(events) + 1
      /\ \A p \in 1..Len(events) : events'[p] = events[p]
      /\ events'[Len(events) + 1].tx = t
  <2> HIDE DEF new
  <2>1. events'[Len(events) + 1] = new
    BY <1>1, <1>2
  <2>. QED BY <1>1, <1>2, <2>1 DEF new
<1>4. WTypeOK'
  BY <1>1, <1>3 DEF WIInv, WTypeOK, walk
<1>5. Positions' = Positions \cup {Len(events) + 1} /\ Len(events) + 1 \notin Positions
  BY <1>3 DEF Positions
<1>6. XidInv'
  <2>1. \A p \in Positions' : xid'[events'[p].tx] # 0
    BY <1>1, <1>3, <1>5 DEF WIInv, XidInv, Positions
  <2>. QED BY <1>1, <2>1 DEF WIInv, XidInv
<1>7. BoundaryInv'
  BY <1>1 DEF WIInv, BoundaryInv, walk
<1>8. ASSUME NEW s PROVE Matching(s)' = Matching(s)
  <2>1. Committed' = Committed
    BY <1>1, <1>3, <1>5 DEF Committed, Positions
  <2>2. \A p \in Committed : events'[p] = events[p]
    BY <1>3 DEF Committed, Positions
  <2>. QED BY <1>1, <2>1, <2>2, SameMatching DEF walk
<1>. QED BY <1>4, <1>6, <1>7, <1>8

LEMMA EndTransactionKeeps ==
  ASSUME WIInv, NEW t \in Transactions, EndTransaction(t)
  PROVE  WTypeOK' /\ XidInv' /\ BoundaryInv' /\ \A s : Matching(s)' = Matching(s)
<1>1. /\ status[t] = "running" /\ xid[t] # 0
      /\ UNCHANGED <<events, xid, walk>>
      /\ boundary' = boundary
  BY DEF EndTransaction, walk
<1>2. /\ status' \in [Transactions -> {"running", "committed", "rolledBack"}]
      /\ status'[t] # "running"
      /\ \A u \in Transactions \ {t} : status'[u] = status[u]
  BY DEF EndTransaction, WIInv, WTypeOK
<1>3. WTypeOK'
  BY <1>1, <1>2 DEF WIInv, WTypeOK, walk
<1>4. XidInv'
  BY <1>1, <1>2 DEF WIInv, XidInv, Positions
<1>5. BoundaryInv'
  BY <1>1, <1>2 DEF WIInv, BoundaryInv
<1>6. ASSUME NEW s PROVE Matching(s)' = Matching(s)
  <2>1. \A p \in Positions : events[p].tx \in Transactions
    BY WritersAreTransactions DEF WIInv
  <2>2. ASSUME NEW p \in Positions, events[p].tx = t
        PROVE  p \notin Matching(s) /\ p \notin Matching(s)'
    <3>1. xid[t] >= boundary.xmax \/ xid[t] \in boundary.inProgress
      BY <1>1 DEF WIInv, BoundaryInv
    <3>2. xid[t] \in Nat /\ boundary.xmax \in Nat
      BY DEF WIInv, WTypeOK
    <3>3. ~VisibleInBoundary(p) /\ ~VisibleInBoundary(p)'
      BY <1>1, <2>2, <3>1, <3>2 DEF VisibleInBoundary
    <3>. QED BY <3>3 DEF Matching
  <2>3. ASSUME NEW p \in Positions, events[p].tx # t
        PROVE  p \in Matching(s)' <=> p \in Matching(s)
    <3>1. p \in Committed' <=> p \in Committed
      BY <1>1, <1>2, <2>1, <2>3 DEF Committed, Positions
    <3>. QED BY <1>1, <3>1 DEF Matching, VisibleInBoundary
  <2>4. Matching(s) \subseteq Positions /\ Matching(s)' \subseteq Positions
    BY <1>1 DEF Matching, Committed, Positions
  <2>. QED BY <2>2, <2>3, <2>4
<1>. QED BY <1>3, <1>4, <1>5, <1>6

LEMMA AppendIInv ==
  ASSUME WIInv, UNCHANGED walk, WTypeOK' /\ XidInv' /\ BoundaryInv',
         \A s : Matching(s)' = Matching(s)
  PROVE  WIInv'
<1>1. /\ phase' = phase /\ request' = request /\ cursor' = cursor /\ pages' = pages
      /\ expected' = expected
  BY DEF walk
<1>2. MatchInv'
  BY <1>1 DEF WIInv, MatchInv
<1>3. WalkInv'
  BY <1>1 DEF WIInv, WalkInv, Walked, Passed
<1>4. ASSUME NEW c, NEW limit PROVE PageShown(c, limit)' = PageShown(c, limit)
  <2>1. PageRows(c, limit)' = PageRows(c, limit)
    BY <1>1 DEF PageRows, After
  <2>. QED BY <1>1, <2>1 DEF PageShown
<1>5. CursorsRepeat'
  BY <1>1, <1>4 DEF WIInv, CursorsRepeat
<1>. QED BY <1>2, <1>3, <1>5 DEF WIInv
-----------------------------------------------------------------------------
(* The walk.                                                               *)

LEMMA StartEmptyIInv ==
  ASSUME WIInv, StartEmpty
  PROVE  WIInv'
<1>1. /\ phase = "new" /\ request.streams = {} /\ phase' = "done"
      /\ UNCHANGED <<events, xid, status, request, boundary, cursor, pages, expected>>
  BY DEF StartEmpty
<1>2. WTypeOK' /\ XidInv' /\ BoundaryInv'
  BY <1>1 DEF WIInv, WTypeOK, XidInv, BoundaryInv, Positions
<1>3. expected = {} /\ Walked = {} /\ MatchInv'
  <2>1. pages = <<>> /\ expected = {}
    BY <1>1 DEF WIInv, WalkInv, MatchInv
  <2>. QED BY <1>1, <2>1 DEF Walked, MatchInv
<1>4. WalkInv'
  BY <1>1, <1>3 DEF WIInv, WalkInv, Walked
<1>5. CursorsRepeat'
  <2>1. pages = <<>>
    BY <1>1 DEF WIInv, WalkInv
  <2>. QED BY <1>1, <2>1 DEF CursorsRepeat
<1>. QED BY <1>2, <1>3, <1>4, <1>5 DEF WIInv

LEMMA CaptureIInv ==
  ASSUME WIInv, CaptureBoundary
  PROVE  WIInv'
<1> DEFINE ended == {xid[t] : t \in {u \in Transactions : status[u] # "running"}}
           last == LastEnded
           running == InProgress
           mark == Max({0} \cup Committed)
<1>1. /\ phase = "new" /\ phase' = "captured"
      /\ boundary' = [watermark |-> mark, xmax |-> 1 + last, inProgress |-> running]
      /\ expected' = {p \in Committed : events[p].stream \in request.streams}
      /\ UNCHANGED <<events, xid, status, request, cursor, pages>>
  BY DEF CaptureBoundary, CurrentBoundary
<1>2. xid \in [Transactions -> Nat] /\ \A p \in Positions : events[p].tx \in Transactions
  BY WritersAreTransactions DEF WIInv, WTypeOK
<1>3. last \in {0} \cup ended /\ \A n \in ended : n <= last
  <2>1. PICK n \in Nat : \A u \in Transactions : xid[u] <= n
    BY DEF WIInv, XidInv
  <2>2. {0} \cup ended \in SUBSET Nat /\ \A m \in {0} \cup ended : m <= n
    BY <1>2, <2>1
  <2> HIDE DEF ended
  <2>3. LastEnded = Max({0} \cup ended)
    BY DEF LastEnded, ended
  <2>. QED BY <2>2, <2>3, MaxIsLargest
<1>4. mark \in Nat /\ \A p \in Committed : p <= mark
  <2>1. Len(events) \in Nat
    BY DEF WIInv, WTypeOK
  <2>2. {0} \cup Committed \in SUBSET Nat /\ \A p \in {0} \cup Committed : p <= Len(events)
    BY <2>1 DEF Committed, Positions
  <2>. QED BY <2>1, <2>2, MaxIsLargest
<1>5. last \in Nat /\ running \in SUBSET Nat
  BY <1>2, <1>3 DEF InProgress
<1>6. WTypeOK'
  <2>1. boundary' \in [watermark : Nat, xmax : Nat, inProgress : SUBSET Nat]
    <3> HIDE DEF mark
    <3>. QED BY <1>1, <1>4, <1>5
  <2>2. expected' \in SUBSET Nat
    BY <1>1 DEF Committed, Positions
  <2> HIDE DEF mark
  <2>. QED BY <1>1, <2>1, <2>2 DEF WIInv, WTypeOK
<1>7. boundary'.watermark = mark /\ boundary'.xmax = 1 + last /\ boundary'.inProgress = running
  BY <1>1
<1>8. BoundaryInv'
  <2>1. boundary'.xmax = 1 \/ \E t \in Transactions : xid'[t] = boundary'.xmax - 1
    <3>1. CASE last = 0
      BY <1>7, <3>1
    <3>2. CASE last # 0
      <4>1. PICK t \in Transactions : xid[t] = last
        BY <1>3, <3>2
      <4>2. xid' = xid /\ (1 + last) - 1 = last
        BY <1>1, <1>5
      <4>. QED BY <1>7, <4>1, <4>2
    <3>. QED BY <3>1, <3>2
  <2>2. ASSUME NEW t \in Transactions, status[t] = "running", xid[t] # 0, xid[t] < 1 + last
        PROVE  xid[t] \in running
    <3>1. xid[t] \in 1..last
      BY <1>2, <1>5, <2>2
    <3>. QED BY <2>2, <3>1 DEF InProgress
  <2>3. \A t \in Transactions : xid[t] < 1 + last \/ xid[t] >= 1 + last
    BY <1>2, <1>5
  <2>. QED BY <1>1, <1>7, <2>1, <2>2, <2>3 DEF BoundaryInv
<1>9. ASSUME NEW p \in Committed PROVE p <= boundary'.watermark /\ VisibleInBoundary(p)'
  <2> DEFINE t == events[p].tx
  <2>1. p \in Positions /\ t \in Transactions /\ status[t] = "committed" /\ xid[t] \in Nat
    BY <1>2, <1>9 DEF Committed
  <2>2. xid[t] <= last /\ xid[t] # 0
    BY <1>3, <2>1 DEF WIInv, XidInv
  <2>3. xid[t] \notin running
    BY <2>1, <2>2 DEF WIInv, XidInv, InProgress
  <2>4. xid[t] < 1 + last
    BY <1>5, <2>1, <2>2
  <2>. QED BY <1>1, <1>4, <1>7, <2>3, <2>4 DEF VisibleInBoundary
<1>10. MatchInv'
  <2>1. Committed' = Committed
    BY <1>1 DEF Committed, Positions
  <2>2. ASSUME NEW s PROVE Matching(s)' = {p \in Committed : events[p].stream = s}
    BY <1>1, <1>9, <2>1 DEF Matching
  <2>. QED BY <1>1, <2>2 DEF MatchInv
<1>11. XidInv'
  BY <1>1 DEF WIInv, XidInv, Positions
<1>12. pages = <<>> /\ cursor = 0
  BY <1>1 DEF WIInv, WalkInv
<1>13. WalkInv' /\ CursorsRepeat'
  BY <1>1, <1>12 DEF WalkInv, CursorsRepeat
<1>. QED BY <1>6, <1>8, <1>10, <1>11, <1>13 DEF WIInv

LEMMA ReturnPageIInv ==
  ASSUME WIInv, NEW limit \in Limits, ReturnPage(limit), phase \in {"captured", "between"},
         UNCHANGED <<events, xid, status, request, boundary, expected>>
  PROVE  WIInv'
<1> DEFINE order == request.order
           Rest == {p \in expected : After(p, cursor)}
           shown == FirstRows(Rest, order, limit)
           n == Len(events)
           page == [cursor |-> cursor, limit |-> limit, rows |-> shown]
<1> HIDE DEF Rest, shown, n, page
<1>1. WTypeOK /\ MatchInv /\ limit \in Nat \ {0} /\ cursor \in Nat /\ n \in Nat
  BY ReadPagesAssumption DEF WIInv, WTypeOK, n
<1>2. /\ PageRows(cursor, limit) = FirstRows(Rest, order, limit + 1)
      /\ PageShown(cursor, limit) = shown
  BY <1>1, PageIsFirstRows DEF Rest, shown
<1>3. expected \in SUBSET (1..n) /\ Rest \in SUBSET (1..n) /\ shown \in SUBSET Rest
  BY <1>1, MatchingFinite DEF n, Rest, shown, FirstRows
<1>4. pages' = Append(pages, page)
  BY <1>2 DEF ReturnPage, page
<1>5. \/ /\ Cardinality(FirstRows(Rest, order, limit + 1)) > limit
         /\ phase' = "between" /\ cursor' = LastRow(shown, order)
      \/ /\ ~(Cardinality(FirstRows(Rest, order, limit + 1)) > limit)
         /\ phase' = "done" /\ cursor' = cursor
  BY <1>2 DEF ReturnPage
<1>6. /\ pages' \in Seq([cursor : Nat, limit : Limits, rows : SUBSET Nat])
      /\ Len(pages) \in Nat /\ Len(pages') = Len(pages) + 1
      /\ \A i \in 1..Len(pages) : pages'[i] = pages[i]
      /\ pages'[Len(pages) + 1] = page
  <2>1. pages \in Seq([cursor : Nat, limit : Limits, rows : SUBSET Nat])
    BY DEF WIInv, WTypeOK
  <2>2. page \in [cursor : Nat, limit : Limits, rows : SUBSET Nat]
    BY <1>1, <1>3 DEF page
  <2>. QED BY <1>4, <2>1, <2>2, AppendProperties
<1>7. /\ DOMAIN pages = 1..Len(pages) /\ DOMAIN pages' = 1..(Len(pages) + 1)
      /\ DOMAIN pages' = DOMAIN pages \cup {Len(pages) + 1}
  BY <1>6 DEF WIInv, WTypeOK
<1>8. page.rows = shown /\ page.cursor = cursor /\ page.limit = limit
  BY DEF page
<1>9. Walked' = Walked \cup shown
  BY <1>6, <1>7, <1>8 DEF Walked
\* What has been read is all before what is still to read.
<1>10. /\ Walked = expected \ Rest
       /\ \A p \in Walked : \A q \in Rest : Before(p, q, order)
  <2>1. CASE phase = "captured"
    <3>1. pages = <<>> /\ cursor = 0
      BY <2>1 DEF WIInv, WalkInv
    <3>. QED BY <3>1 DEF Walked, Rest, After
  <2>2. CASE phase = "between"
    <3>1. /\ cursor \in expected /\ cursor # 0
          /\ Walked = {p \in expected : p = cursor \/ Before(p, cursor, order)}
      BY <1>3, <2>2 DEF WIInv, WalkInv, Passed
    <3>2. Rest = {p \in expected : Before(cursor, p, order)}
      BY <3>1 DEF Rest, After
    <3>3. \A p \in expected : p \in Nat
      BY <1>3
    <3>4. ASSUME NEW p \in expected PROVE p \in Rest <=> p \notin Walked
      BY <1>1, <3>1, <3>2, <3>3, <3>4, BeforeIsTotal
    <3>5. ASSUME NEW p \in Walked, NEW q \in Rest PROVE Before(p, q, order)
      <4>1. p \in Nat /\ q \in Nat /\ Before(cursor, q, order)
        BY <3>1, <3>2, <3>3, <3>5
      <4>2. p = cursor \/ Before(p, cursor, order)
        BY <3>1, <3>5
      <4>. QED BY <1>1, <4>1, <4>2, BeforeIsTransitive
    <3>. QED BY <3>1, <3>2, <3>4, <3>5
  <2>. QED BY <2>1, <2>2
<1>11. ASSUME Cardinality(FirstRows(Rest, order, limit + 1)) > limit,
              phase' = "between", cursor' = LastRow(shown, order)
       PROVE  /\ cursor' \in expected
              /\ Walked' = {p \in expected : p = cursor' \/ Before(p, cursor', order)}
  <2>1. Rest # {}
    <3>1. SUFFICES ASSUME Rest = {} PROVE FALSE
      OBVIOUS
    <3>2. FirstRows(Rest, order, limit + 1) = {}
      BY <3>1 DEF FirstRows
    <3>. QED BY <1>1, <1>11, <3>2, FS_EmptySet
  <2>2. shown # {}
    <3>1. PICK p \in Rest : \A q \in Rest \ {p} : Before(p, q, order)
      BY <1>1, <1>3, <2>1, FirstExists
    <3>2. {q \in Rest : Before(q, p, order)} = {}
      <4>1. ASSUME NEW q \in Rest, Before(q, p, order) PROVE FALSE
        <5>1. p \in Nat /\ q \in Nat
          BY <1>1, <1>3
        <5>. QED BY <3>1, <4>1, <5>1, BeforeIsTotal
      <4>. QED BY <4>1
    <3>. QED BY <1>1, <3>2, FS_EmptySet DEF shown, FirstRows
  <2>3. /\ cursor' \in shown
        /\ \A q \in shown \ {cursor'} : Before(q, cursor', order)
    BY <1>1, <1>3, <1>11, <2>2, LastIsLast
  <2>4. ASSUME NEW p \in Walked' PROVE p \in expected /\ (p = cursor' \/ Before(p, cursor', order))
    <3>1. CASE p \in Walked
      BY <1>3, <1>10, <2>3, <3>1
    <3>2. CASE p \in shown
      BY <1>3, <2>3, <3>2 DEF Rest
    <3>. QED BY <1>9, <2>4, <3>1, <3>2
  <2>5. ASSUME NEW p \in expected, p = cursor' \/ Before(p, cursor', order) PROVE p \in Walked'
    <3>1. CASE p \notin Rest
      BY <1>9, <1>10, <3>1
    <3>2. CASE p = cursor'
      BY <1>9, <2>3, <3>2
    <3>3. CASE p \in Rest /\ Before(p, cursor', order)
      <4>1. limit \in Nat /\ cursor' \in FirstRows(Rest, order, limit)
        BY <1>1, <2>3 DEF shown
      <4>2. p \in FirstRows(Rest, order, limit)
        BY <1>1, <1>3, <3>3, <4>1, FirstRowsClosed
      <4>. QED BY <1>9, <4>2 DEF shown
    <3>. QED BY <2>5, <3>1, <3>2, <3>3
  <2>6. cursor' \in expected
    BY <1>3, <2>3 DEF Rest
  <2>. QED BY <2>4, <2>5, <2>6
<1>12. ASSUME ~(Cardinality(FirstRows(Rest, order, limit + 1)) > limit), phase' = "done"
       PROVE  Walked' = expected
  <2>1. shown = Rest
    BY <1>1, <1>3, <1>12, NoNextPage DEF shown
  <2>. QED BY <1>3, <1>9, <1>10, <2>1 DEF Rest
<1>13. ASSUME NEW i \in DOMAIN pages', NEW j \in DOMAIN pages', i < j,
              NEW p \in pages'[i].rows, NEW q \in pages'[j].rows
       PROVE  Before(p, q, order)
  <2>1. CASE j \in DOMAIN pages
    <3>1. i \in DOMAIN pages /\ pages'[i] = pages[i] /\ pages'[j] = pages[j]
      BY <1>6, <1>7, <1>13, <2>1
    <3>. QED BY <1>13, <2>1, <3>1 DEF WIInv, WalkInv
  <2>2. CASE j = Len(pages) + 1
    <3>1. i \in DOMAIN pages /\ pages'[i] = pages[i] /\ pages'[j] = page
      BY <1>6, <1>7, <1>13, <2>2
    <3>2. p \in Walked /\ q \in Rest
      BY <1>3, <1>8, <1>13, <3>1 DEF Walked
    <3>. QED BY <1>10, <3>2
  <2>. QED BY <1>7, <1>13, <2>1, <2>2
<1>14. request' = request /\ expected' = expected
  OBVIOUS
<1>15. WalkInv'
  <2>1. phase' \in {"between", "done"}
    BY <1>5
  <2>2. phase' = "between" => cursor' \in expected' /\ Walked' = Passed'
    BY <1>5, <1>11, <1>14 DEF Passed
  <2>3. phase' = "done" => Walked' = expected'
    BY <1>5, <1>12, <1>14
  <2>. QED BY <1>13, <1>14, <2>1, <2>2, <2>3 DEF WalkInv
<1>16. cursor' \in Nat /\ phase' \in {"between", "done"}
  <2>1. CASE phase' = "between"
    <3>1. cursor' \in expected
      BY <1>5, <1>11, <2>1
    <3>. QED BY <1>1, <1>3, <2>1, <3>1
  <2>2. CASE phase' # "between"
    BY <1>1, <1>5, <2>2
  <2>. QED BY <2>1, <2>2
<1>17. WTypeOK'
  BY <1>6, <1>16 DEF WIInv, WTypeOK
<1>18. \A s : Matching(s)' = Matching(s)
  BY DEF Matching, Committed, Positions, VisibleInBoundary
<1>19. XidInv' /\ BoundaryInv' /\ MatchInv'
  BY <1>14, <1>18 DEF WIInv, XidInv, BoundaryInv, MatchInv, Positions
<1>20. ASSUME NEW c, NEW l PROVE PageShown(c, l)' = PageShown(c, l)
  <2>1. PageRows(c, l)' = PageRows(c, l)
    BY <1>14, <1>18 DEF PageRows, After
  <2>. QED BY <1>14, <2>1 DEF PageShown
<1>21. CursorsRepeat'
  <2>1. ASSUME NEW i \in DOMAIN pages'
        PROVE  PageShown(pages'[i].cursor, pages'[i].limit) = pages'[i].rows
    <3>1. CASE i \in DOMAIN pages
      BY <1>6, <1>7, <3>1 DEF WIInv, CursorsRepeat
    <3>2. CASE i = Len(pages) + 1
      BY <1>2, <1>6, <1>8, <3>2
    <3>. QED BY <1>7, <2>1, <3>1, <3>2
  <2>. QED BY <1>20, <2>1 DEF CursorsRepeat
<1>. QED BY <1>15, <1>17, <1>19, <1>21 DEF WIInv

-----------------------------------------------------------------------------
(* The theorems about walks.                                               *)

LEMMA WStepIInv == WIInv /\ [WNext]_wvars => WIInv'
<1> SUFFICES ASSUME WIInv, [WNext]_wvars PROVE WIInv'
  OBVIOUS
<1>1. CASE UNCHANGED wvars
  <2>1. \A s : Matching(s)' = Matching(s)
    BY <1>1 DEF wvars, walk, Matching, Committed, Positions, VisibleInBoundary
  <2>2. UNCHANGED walk /\ WTypeOK' /\ XidInv' /\ BoundaryInv'
    BY <1>1 DEF wvars, walk, WIInv, WTypeOK, XidInv, BoundaryInv, Positions
  <2>. QED BY <2>1, <2>2, AppendIInv
<1>2. ASSUME NEW t \in Transactions,
             AssignXid(t) \/ (\E s \in Streams : Insert(t, s)) \/ EndTransaction(t)
      PROVE  WIInv'
  <2>1. UNCHANGED walk
    BY <1>2 DEF AssignXid, Insert, EndTransaction
  <2>2. WTypeOK' /\ XidInv' /\ BoundaryInv' /\ \A s : Matching(s)' = Matching(s)
    BY <1>2, AssignXidKeeps, InsertKeeps, EndTransactionKeeps
  <2>. QED BY <2>1, <2>2, AppendIInv
<1>3. CASE StartEmpty \/ CaptureBoundary
  BY <1>3, StartEmptyIInv, CaptureIInv
<1>4. ASSUME NEW limit \in Limits,
             FirstPage(limit) \/ \E asked \in Requests : NextPage(asked, limit)
      PROVE  WIInv'
  <2>1. /\ ReturnPage(limit) /\ phase \in {"captured", "between"}
        /\ UNCHANGED <<events, xid, status, request, boundary, expected>>
    BY <1>4 DEF FirstPage, NextPage, Accepts
  <2>. QED BY <2>1, ReturnPageIInv
<1>. QED BY <1>1, <1>2, <1>3, <1>4 DEF WNext

LEMMA WInvariance == WSpec => []WIInv
BY WInitIInv, WStepIInv, PTL DEF WSpec

\* All state stays within its types.
THEOREM WTypeCorrect == WSpec => []WTypeOK
<1>1. WIInv => WTypeOK
  BY DEF WIInv
<1>. QED BY <1>1, WInvariance, PTL

\* The pages of a walk are what was committed when it began, in order, each event
\* once, and all of it at the end.
THEOREM ReadsTheBoundary == WSpec => []WalkReadsTheBoundary
<1>1. WIInv => WalkReadsTheBoundary
  <2> SUFFICES ASSUME WIInv PROVE WalkReadsTheBoundary
    OBVIOUS
  <2>1. /\ Walked \subseteq expected
        /\ \A p \in Walked : \A q \in expected : Before(q, p, request.order) => q \in Walked
    <3>1. CASE phase \in {"new", "captured"}
      BY <3>1 DEF WIInv, WalkInv, Walked
    <3>2. CASE phase = "between"
      <4>1. cursor \in expected /\ Walked = Passed /\ \A p \in expected : p \in Nat
        BY <3>2 DEF WIInv, WTypeOK, WalkInv
      <4>2. ASSUME NEW p \in Walked, NEW q \in expected, Before(q, p, request.order)
            PROVE  q \in Walked
        <5>1. p \in expected /\ (p = cursor \/ Before(p, cursor, request.order))
          BY <4>1 DEF Passed
        <5>2. q = cursor \/ Before(q, cursor, request.order)
          BY <4>1, <4>2, <5>1, BeforeIsTransitive
        <5>. QED BY <4>1, <5>2 DEF Passed
      <4>. QED BY <4>1, <4>2 DEF Passed
    <3>3. CASE phase = "done"
      BY <3>3 DEF WIInv, WalkInv
    <3>. QED BY <3>1, <3>2, <3>3 DEF WIInv, WTypeOK
  <2>. QED BY <2>1 DEF WIInv, WalkInv, WalkReadsTheBoundary
<1>. QED BY <1>1, WInvariance, PTL

\* A cursor that is passed again gives the page it gave before.
THEOREM StableCursors == WSpec => []CursorsRepeat
<1>1. WIInv => CursorsRepeat
  BY DEF WIInv
<1>. QED BY <1>1, WInvariance, PTL

-----------------------------------------------------------------------------
(* Ascending(V) lists V in ascending order.                                *)

UpTo(V, v) == {u \in V : u <= v}

LEMMA UpToFinite ==
  ASSUME NEW n \in Nat, NEW V \in SUBSET (1..n), NEW v
  PROVE  /\ IsFiniteSet(V) /\ Cardinality(V) \in Nat
         /\ IsFiniteSet(UpTo(V, v)) /\ Cardinality(UpTo(V, v)) \in Nat
         /\ Cardinality(UpTo(V, v)) <= Cardinality(V)
<1>1. IsFiniteSet(1..n)
  BY FS_Interval
<1>2. IsFiniteSet(V) /\ UpTo(V, v) \in SUBSET V
  BY <1>1, FS_Subset DEF UpTo
<1>3. IsFiniteSet(UpTo(V, v)) /\ Cardinality(UpTo(V, v)) <= Cardinality(V)
  BY <1>2, FS_Subset
<1>. QED BY <1>2, <1>3, FS_CardinalityType

\* Greater elements have greater ranks.
LEMMA RankIncreases ==
  ASSUME NEW n \in Nat, NEW V \in SUBSET (1..n), NEW u \in V, NEW v \in V, u < v
  PROVE  Cardinality(UpTo(V, u)) < Cardinality(UpTo(V, v))
<1>1. /\ IsFiniteSet(UpTo(V, v))
      /\ Cardinality(UpTo(V, u)) \in Nat /\ Cardinality(UpTo(V, v)) \in Nat
  BY UpToFinite
<1>0. V \in SUBSET Nat
  OBVIOUS
<1>2. UpTo(V, u) \in SUBSET UpTo(V, v)
  <2>1. \A x \in V : x <= u => x <= v
    BY <1>0
  <2>. QED BY <2>1 DEF UpTo
<1>3. v \in UpTo(V, v) /\ v \notin UpTo(V, u)
  BY <1>0 DEF UpTo
<1>4. /\ Cardinality(UpTo(V, u)) <= Cardinality(UpTo(V, v))
      /\ Cardinality(UpTo(V, u)) # Cardinality(UpTo(V, v))
  BY <1>1, <1>2, <1>3, FS_Subset
<1>. QED BY <1>1, <1>4

LEMMA RankExists ==
  ASSUME NEW n \in Nat, NEW V \in SUBSET (1..n), NEW i \in 1..Cardinality(V)
  PROVE  \E v \in V : Cardinality(UpTo(V, v)) = i
<1> DEFINE W == {v \in V : Cardinality(UpTo(V, v)) >= i}
<1>0. V \in SUBSET Nat
  OBVIOUS
<1>1. Cardinality(V) \in Nat /\ V # {} /\ V \in SUBSET (0..n)
  <2>1. Cardinality(V) \in Nat
    BY UpToFinite
  <2>2. Cardinality(V) # 0
    BY <2>1
  <2>. QED BY <2>1, <2>2, FS_EmptySet
<1>2. W # {}
  <2>1. PICK m \in V : \A q \in V : q <= m
    BY <1>1, LargestUpTo
  <2>2. UpTo(V, m) = V
    BY <2>1 DEF UpTo
  <2>. QED BY <1>1, <2>2
<1>3. PICK v \in W : \A w \in W : v <= w
  <2>1. W \in SUBSET Nat
    BY <1>0
  <2> HIDE DEF W
  <2>. QED BY <1>2, <2>1, Smallest
<1> DEFINE L == {u \in V : u < v}
<1>4. v \in V /\ Cardinality(UpTo(V, v)) >= i /\ Cardinality(UpTo(V, v)) \in Nat
  BY UpToFinite
<1>5. L = UpTo(V, v) \ {v} /\ v \in UpTo(V, v)
  <2>1. v <= v /\ \A u \in V : u < v <=> (u <= v /\ u # v)
    BY <1>0, <1>4
  <2>. QED BY <1>4, <2>1 DEF UpTo
<1>6. Cardinality(L) = Cardinality(UpTo(V, v)) - 1
  <2>1. IsFiniteSet(UpTo(V, v))
    BY UpToFinite
  <2>. QED BY <1>5, <2>1, FS_RemoveElement
<1>7. SUFFICES ASSUME Cardinality(UpTo(V, v)) # i PROVE FALSE
  BY <1>4
<1>8. Cardinality(L) >= i /\ Cardinality(L) \in Nat
  <2> HIDE DEF L
  <2>. QED BY <1>4, <1>6, <1>7
<1>9. L # {}
  <2> HIDE DEF L
  <2>. QED BY <1>8, FS_EmptySet
<1>10. PICK w \in L : \A q \in L : q <= w
  <2>1. L \in SUBSET (0..n)
    BY <1>1
  <2> HIDE DEF L
  <2>. QED BY <1>9, <2>1, LargestUpTo
<1>11. UpTo(V, w) = L
  <2>1. w \in V /\ w < v
    OBVIOUS
  <2>2. \A u \in V : u <= w => u < v
    BY <1>0, <1>4, <2>1
  <2>. QED BY <1>10, <2>2 DEF UpTo
<1>12. w \in W /\ w < v
  BY <1>8, <1>11
<1>. QED BY <1>3, <1>4, <1>12

LEMMA AscendingLists ==
  ASSUME NEW n \in Nat, NEW V \in SUBSET (1..n)
  PROVE  /\ Ascending(V) \in Seq(V)
         /\ Len(Ascending(V)) = Cardinality(V)
         /\ \A i, j \in 1..Cardinality(V) : i < j => Ascending(V)[i] < Ascending(V)[j]
         /\ \A v \in V : \E i \in 1..Cardinality(V) : Ascending(V)[i] = v
<1> DEFINE k == Cardinality(V)
           Ranked(i) == {v \in V : Cardinality(UpTo(V, v)) = i}
<1>1. k \in Nat
  BY UpToFinite
<1>2. Ascending(V) = [i \in 1..k |-> Only(Ranked(i))]
  BY DEF Ascending, UpTo
<1>3. ASSUME NEW i \in 1..k
      PROVE  /\ Only(Ranked(i)) \in V
             /\ Cardinality(UpTo(V, Only(Ranked(i)))) = i
  <2>1. Ranked(i) # {}
    BY <1>3, RankExists
  <2>2. Only(Ranked(i)) \in Ranked(i)
    BY <2>1 DEF Only
  <2>. QED BY <2>2
<1> HIDE DEF k, Ranked
<1>4. Ascending(V) \in [1..k -> V]
  BY <1>2, <1>3
<1>5. Ascending(V) \in Seq(V) /\ Len(Ascending(V)) = k
  BY <1>1, <1>4, SeqDef
<1>6. ASSUME NEW i \in 1..k
      PROVE  Ascending(V)[i] \in V /\ Cardinality(UpTo(V, Ascending(V)[i])) = i
  BY <1>2, <1>3, <1>6
<1>7. ASSUME NEW i \in 1..k, NEW j \in 1..k, i < j
      PROVE  Ascending(V)[i] < Ascending(V)[j]
  <2> DEFINE a == Ascending(V)[i]
             b == Ascending(V)[j]
  <2>1. a \in V /\ b \in V /\ Cardinality(UpTo(V, a)) = i /\ Cardinality(UpTo(V, b)) = j
    BY <1>6
  <2> HIDE DEF a, b
  <2>2. a \in Nat /\ b \in Nat /\ i \in Nat /\ j \in Nat
    <3>1. V \in SUBSET Nat
      OBVIOUS
    <3>. QED BY <1>1, <2>1, <3>1
  <2>3. b < a => j < i
    BY <2>1, RankIncreases
  <2>4. b = a => j = i
    BY <2>1
  <2>5. a < b
    BY <1>7, <2>2, <2>3, <2>4
  <2>. QED BY <2>5 DEF a, b
<1>8. ASSUME NEW v \in V PROVE \E i \in 1..k : Ascending(V)[i] = v
  <2> DEFINE i == Cardinality(UpTo(V, v))
  <2>1. i \in 1..k
    <3>1. i \in Nat /\ i <= k /\ IsFiniteSet(UpTo(V, v))
      BY UpToFinite DEF k
    <3>2. v \in UpTo(V, v)
      BY DEF UpTo
    <3>3. i # 0
      BY <3>1, <3>2, FS_EmptySet
    <3> HIDE DEF i
    <3>. QED BY <1>1, <3>1, <3>3
  <2> DEFINE a == Ascending(V)[i]
  <2>2. a \in V /\ Cardinality(UpTo(V, a)) = i
    BY <1>6, <2>1
  <2> HIDE DEF a
  <2>3. ~(a < v) /\ ~(v < a)
    <3>1. i \in Nat
      BY <1>1, <2>1
    <3>2. a < v => Cardinality(UpTo(V, a)) < i
      BY <2>2, RankIncreases
    <3>3. v < a => i < Cardinality(UpTo(V, a))
      BY <2>2, RankIncreases
    <3> HIDE DEF i
    <3>. QED BY <2>2, <3>1, <3>2, <3>3
  <2>4. a = v
    BY <2>2, <2>3
  <2>. QED BY <2>1, <2>4 DEF a
<1>. QED BY <1>5, <1>7, <1>8 DEF k

LEMMA AscendingOfNone == Ascending({}) = <<>>
<1>1. Cardinality({}) = 0
  BY FS_EmptySet
<1>2. DOMAIN Ascending({}) = {}
  BY <1>1 DEF Ascending
<1>3. Ascending({}) \in Seq({}) /\ Len(Ascending({})) = 0
  BY <1>1, AscendingLists, 0 \in Nat
<1>. QED BY <1>3, EmptySeq

\* What comes first and what comes after it are, one after the other, all.
LEMMA AscendingOfParts ==
  ASSUME NEW m \in Nat, NEW n \in Nat, m <= n,
         NEW A \in SUBSET (1..m), NEW B \in SUBSET ((m + 1)..n)
  PROVE  Ascending(A \cup B) = Ascending(A) \o Ascending(B)
<1> DEFINE V == A \cup B
           k == Cardinality(A)
           l == Cardinality(B)
           R(S, i) == {v \in S : Cardinality(UpTo(S, v)) = i}
<1>1. A \in SUBSET (1..n) /\ B \in SUBSET (1..n) /\ V \in SUBSET (1..n)
  OBVIOUS
<1>2. /\ IsFiniteSet(A) /\ IsFiniteSet(B) /\ k \in Nat /\ l \in Nat
      /\ Cardinality(V) \in Nat
  BY <1>1, UpToFinite
<1>3. Cardinality(V) = k + l
  <2>1. A \cap B = {}
    <3>1. \A x \in A : x <= m /\ x \in Nat
      OBVIOUS
    <3>2. \A x \in B : ~(x <= m)
      OBVIOUS
    <3>. QED BY <3>1, <3>2
  <2>2. Cardinality(A \cap B) = 0
    BY <2>1, FS_EmptySet
  <2>3. Cardinality(V) = k + l - Cardinality(A \cap B)
    BY <1>2, FS_Union
  <2> HIDE DEF V, k, l
  <2>. QED BY <1>2, <2>2, <2>3
<1>4. ASSUME NEW v \in A PROVE UpTo(V, v) = UpTo(A, v)
  <2>1. v \in Nat /\ v <= m
    OBVIOUS
  <2>2. \A x \in B : ~(x <= v)
    BY <2>1
  <2>. QED BY <2>2 DEF UpTo
<1>5. ASSUME NEW v \in B
      PROVE  /\ Cardinality(UpTo(V, v)) = k + Cardinality(UpTo(B, v))
             /\ Cardinality(UpTo(B, v)) \in Nat \ {0}
  <2>1. UpTo(V, v) = A \cup UpTo(B, v) /\ A \cap UpTo(B, v) = {} /\ v \in UpTo(B, v)
    <3>1. v \in Nat /\ v >= m + 1
      OBVIOUS
    <3>2. \A x \in A : x \in Nat /\ x <= v
      BY <3>1
    <3>3. \A x \in B : ~(x <= m)
      OBVIOUS
    <3>4. \A x \in A : x <= m
      OBVIOUS
    <3>5. \A x \in A : x \notin B
      BY <3>3, <3>4
    <3>6. A \cap UpTo(B, v) = {}
      BY <3>5 DEF UpTo
    <3>7. v \in UpTo(B, v)
      BY <3>1 DEF UpTo
    <3>8. UpTo(V, v) = A \cup UpTo(B, v)
      BY <3>2 DEF UpTo
    <3>. QED BY <3>6, <3>7, <3>8
  <2>2. IsFiniteSet(UpTo(B, v)) /\ Cardinality(UpTo(B, v)) \in Nat
    BY <1>1, UpToFinite
  <2>3. Cardinality(UpTo(B, v)) # 0
    BY <2>1, <2>2, FS_EmptySet
  <2>4. Cardinality(A \cap UpTo(B, v)) = 0
    BY <2>1, FS_EmptySet
  <2>5. Cardinality(UpTo(V, v)) = k + Cardinality(UpTo(B, v)) - Cardinality(A \cap UpTo(B, v))
    BY <1>2, <2>1, <2>2, FS_Union
  <2> HIDE DEF V, k, l
  <2>. QED BY <1>2, <2>2, <2>3, <2>4, <2>5
<1>6. ASSUME NEW i \in 1..k PROVE R(V, i) = R(A, i)
  <2>1. \A v \in B : Cardinality(UpTo(V, v)) # i
    <3> HIDE DEF V, k
    <3>. QED BY <1>2, <1>5
  <2>. QED BY <1>4, <2>1
<1>7. ASSUME NEW i \in 1..l PROVE R(V, k + i) = R(B, i)
  <2>1. \A v \in A : Cardinality(UpTo(V, v)) # k + i
    <3>1. \A v \in A : Cardinality(UpTo(A, v)) \in Nat /\ Cardinality(UpTo(A, v)) <= k
      BY UpToFinite
    <3> HIDE DEF V, k, l
    <3>. QED BY <1>2, <1>4, <3>1
  <2>2. \A v \in B : Cardinality(UpTo(V, v)) = k + i <=> Cardinality(UpTo(B, v)) = i
    <3> HIDE DEF V, k, l
    <3>. QED BY <1>2, <1>5
  <2>. QED BY <2>1, <2>2
<1>8. /\ Ascending(V) = [i \in 1..(k + l) |-> Only(R(V, i))]
      /\ Ascending(A) = [i \in 1..k |-> Only(R(A, i))]
      /\ Ascending(B) = [i \in 1..l |-> Only(R(B, i))]
  BY <1>3 DEF Ascending, UpTo
<1>9. /\ Ascending(V) \in Seq(1..n) /\ Len(Ascending(V)) = k + l
      /\ Ascending(A) \in Seq(1..n) /\ Len(Ascending(A)) = k
      /\ Ascending(B) \in Seq(1..n) /\ Len(Ascending(B)) = l
  <2>1. /\ Ascending(V) \in Seq(V) /\ Ascending(A) \in Seq(A) /\ Ascending(B) \in Seq(B)
        /\ Len(Ascending(V)) = k + l /\ Len(Ascending(A)) = k /\ Len(Ascending(B)) = l
    BY <1>1, <1>3, AscendingLists
  <2>. QED BY <1>1, <2>1, SeqMonotonic
<1> HIDE DEF V, k, l, R
<1>10. /\ Ascending(A) \o Ascending(B) \in Seq(1..n)
       /\ Len(Ascending(A) \o Ascending(B)) = k + l
       /\ \A i \in 1..(k + l) : (Ascending(A) \o Ascending(B))[i]
            = IF i <= k THEN Ascending(A)[i] ELSE Ascending(B)[i - k]
  BY <1>9, ConcatProperties
<1>11. ASSUME NEW i \in 1..(k + l)
       PROVE  Ascending(V)[i] = (Ascending(A) \o Ascending(B))[i]
  <2>1. CASE i <= k
    <3>1. i \in 1..k
      BY <1>2, <2>1
    <3>. QED BY <1>6, <1>8, <1>10, <2>1, <3>1
  <2>2. CASE ~(i <= k)
    <3>1. i - k \in 1..l /\ k + (i - k) = i
      BY <1>2, <2>2
    <3>2. R(V, i) = R(B, i - k)
      BY <1>7, <3>1
    <3>3. (Ascending(A) \o Ascending(B))[i] = Ascending(B)[i - k]
      BY <1>10, <2>2
    <3>4. Ascending(B)[i - k] = Only(R(B, i - k))
      BY <1>8, <3>1
    <3>5. Ascending(V)[i] = Only(R(V, i))
      BY <1>8
    <3>. QED BY <3>2, <3>3, <3>4, <3>5
  <2>. QED BY <2>1, <2>2
<1>12. Ascending(V) = Ascending(A) \o Ascending(B)
  BY <1>9, <1>10, <1>11, SeqEqual
<1>. QED BY <1>12 DEF V

-----------------------------------------------------------------------------
(* The inductive invariant of Snapshots.                                   *)

Event == [type : SourceTypes \cup Definitions, state : Seq(Nat)]
Base == [state : Seq(Nat), version : Nat]
Read == [state : Seq(Nat), version : Nat, replayed : Nat]
Result == [definition : Definitions, state : Seq(Nat), version : Nat]

\* The state space of the variables.
TypeOK ==
  /\ stream \in Seq(Event) /\ written \in Seq(Event)
  /\ keyRevoked \in BOOLEAN /\ keyLocked \in BOOLEAN
  /\ step \in {"idle", "latest", "events", "write", "commit"}
  /\ todo \in SUBSET Definitions
  /\ found \in Read
  /\ loading \in Definitions \cup {0} /\ base \in Base
  /\ loaded \in Result \cup {<<>>}

Faithful(s) ==
  \A v \in DOMAIN s : s[v].type \in Definitions => s[v].state = History(s, s[v].type, v - 1)

\* from is a state of the history of d in s.
Reached(s, d, from) ==
  from.version \in 0..Len(s) /\ from.state = History(s, d, from.version)

\* What a load has read, or returned, the stream still says.
LoadInv ==
  /\ loading # 0 => Reached(stream, loading, base)
  /\ loaded # <<>> => Reached(stream, loaded.definition, loaded)

\* The latest snapshot of d, and the sources it leaves to a replay.
BaseVersion(s, d) ==
  LET versions == {v \in DOMAIN s : s[v].type = d}
  IN  IF versions = {} THEN 0 ELSE Max(versions)
Rest(s, d) == Cardinality(Sources(s, d, BaseVersion(s, d) + 1))

Exempt(d) == (d \in Encrypted /\ keyRevoked) \/ Every[d] <= 0
Bounded(s, d) == Exempt(d) \/ Rest(s, d) < Every[d]

\* The append: what it read is a state of its own stream, and the latest one
\* before it replays.
AppendInv ==
  /\ step = "idle" => written = <<>>
  /\ step \in {"idle", "commit"} <=> todo = {}
  /\ \A d \in todo : Every[d] > 0
  /\ step \in {"events", "write"} => Reached(Own, Min(todo), found)
  /\ step = "events" =>
       Exempt(Min(todo)) \/ found.version = BaseVersion(Own, Min(todo))
  /\ step = "write" => found.version = Len(Own)

\* Only the definitions still to maintain may have too much to replay.
BoundInv ==
  /\ \A d \in Definitions : Bounded(stream, d)
  /\ \A d \in Definitions \ todo : Bounded(Own, d)

IInv == TypeOK /\ Faithful(Own) /\ LoadInv /\ AppendInv /\ BoundInv

-----------------------------------------------------------------------------
(* Histories.                                                              *)

LEMMA Grown ==
  ASSUME NEW s \in Seq(Event), NEW t \in Seq(Event)
  PROVE  /\ s \o t \in Seq(Event) /\ Len(s) \in Nat /\ Len(t) \in Nat
         /\ Len(s \o t) = Len(s) + Len(t)
         /\ DOMAIN s = 1..Len(s) /\ DOMAIN t = 1..Len(t)
         /\ DOMAIN (s \o t) = 1..(Len(s) + Len(t))
         /\ \A v \in 1..Len(s) : (s \o t)[v] = s[v]
         /\ \A i \in 1..Len(t) : (s \o t)[Len(s) + i] = t[i]
<1>1. /\ s \o t \in Seq(Event) /\ Len(s) \in Nat /\ Len(t) \in Nat
      /\ Len(s \o t) = Len(s) + Len(t)
      /\ \A i \in 1..(Len(s) + Len(t)) :
           (s \o t)[i] = IF i <= Len(s) THEN s[i] ELSE t[i - Len(s)]
  BY ConcatProperties, LenProperties
<1>2. /\ DOMAIN s = 1..Len(s) /\ DOMAIN t = 1..Len(t)
      /\ DOMAIN (s \o t) = 1..(Len(s) + Len(t))
  BY <1>1, LenProperties
<1>3. ASSUME NEW v \in 1..Len(s) PROVE (s \o t)[v] = s[v]
  <2>1. v \in 1..(Len(s) + Len(t)) /\ v <= Len(s)
    BY <1>1
  <2>. QED BY <1>1, <2>1
<1>4. ASSUME NEW i \in 1..Len(t) PROVE (s \o t)[Len(s) + i] = t[i]
  <2>1. /\ Len(s) + i \in 1..(Len(s) + Len(t)) /\ ~(Len(s) + i <= Len(s))
        /\ (Len(s) + i) - Len(s) = i
    BY <1>1
  <2>. QED BY <1>1, <2>1
<1>. QED BY <1>1, <1>2, <1>3, <1>4

LEMMA SourcesType ==
  ASSUME NEW s \in Seq(Event), NEW d \in Definitions, NEW first \in Nat
  PROVE  /\ Len(s) \in Nat
         /\ Sources(s, d, first) \in SUBSET (1..Len(s))
         /\ IsFiniteSet(Sources(s, d, first))
         /\ Cardinality(Sources(s, d, first)) \in Nat
<1>1. Len(s) \in Nat /\ DOMAIN s = 1..Len(s)
  BY LenProperties
<1>2. Sources(s, d, first) \in SUBSET (1..Len(s))
  BY <1>1 DEF Sources
<1>. QED BY <1>1, <1>2, UpToFinite

LEMMA AscendingType ==
  ASSUME NEW n \in Nat, NEW V \in SUBSET (1..n)
  PROVE  Ascending(V) \in Seq(Nat)
<1>1. Ascending(V) \in Seq(V)
  BY AscendingLists
<1>2. V \in SUBSET Nat
  OBVIOUS
<1>. QED BY <1>1, <1>2, SeqMonotonic

LEMMA HistoryType ==
  ASSUME NEW s \in Seq(Event), NEW d \in Definitions, NEW n \in Nat
  PROVE  History(s, d, n) \in Seq(Nat)
<1>1. Sources(s, d, 1) \in SUBSET (1..Len(s)) /\ Len(s) \in Nat
  BY SourcesType
<1>2. {v \in Sources(s, d, 1) : v <= n} \in SUBSET (1..Len(s))
  BY <1>1
<1>. QED BY <1>1, <1>2, AscendingType DEF History

\* A history is the part up to a version and the sources after it.
LEMMA HistoryInParts ==
  ASSUME NEW s \in Seq(Event), NEW d \in Definitions, NEW m \in 0..Len(s)
  PROVE  History(s, d, Len(s)) = History(s, d, m) \o Ascending(Sources(s, d, m + 1))
<1> DEFINE A == {v \in Sources(s, d, 1) : v <= m}
           B == Sources(s, d, m + 1)
<1>1. Len(s) \in Nat /\ DOMAIN s = 1..Len(s)
  BY LenProperties
<1>2. m \in Nat /\ m <= Len(s)
  BY <1>1
<1>3. A \in SUBSET (1..m)
  BY <1>1, <1>2 DEF Sources
<1>4. B \in SUBSET ((m + 1)..Len(s))
  BY <1>1, <1>2 DEF Sources
<1>5. {v \in Sources(s, d, 1) : v <= Len(s)} = A \cup B
  <2>1. \A v \in 1..Len(s) : v >= 1 /\ v <= Len(s) /\ (v <= m \/ v >= m + 1)
    BY <1>1, <1>2
  <2>2. \A v \in 1..Len(s) : v >= m + 1 => v >= 1
    BY <1>1, <1>2
  <2>. QED BY <1>1, <2>1, <2>2 DEF Sources
<1> HIDE DEF A, B
<1>6. Ascending(A \cup B) = Ascending(A) \o Ascending(B)
  <2>1. m \in Nat /\ Len(s) \in Nat /\ m <= Len(s)
    BY <1>1, <1>2
  <2>2. \A a \in SUBSET (1..m), b \in SUBSET ((m + 1)..Len(s)) :
          Ascending(a \cup b) = Ascending(a) \o Ascending(b)
    BY <2>1, AscendingOfParts
  <2>. QED BY <1>3, <1>4, <2>2
<1>. QED BY <1>5, <1>6 DEF History, A, B

\* Nothing that is added changes a history.
LEMMA HistoryStays ==
  ASSUME NEW s \in Seq(Event), NEW t \in Seq(Event), NEW d \in Definitions,
         NEW n \in Nat, n <= Len(s)
  PROVE  History(s \o t, d, n) = History(s, d, n)
<1>1. /\ Len(s) \in Nat /\ Len(t) \in Nat
      /\ DOMAIN s = 1..Len(s) /\ DOMAIN (s \o t) = 1..(Len(s) + Len(t))
      /\ \A v \in 1..Len(s) : (s \o t)[v] = s[v]
  BY Grown
<1>2. \A v \in 1..(Len(s) + Len(t)) : v <= n => v \in 1..Len(s)
  BY <1>1
<1>3. \A v \in 1..Len(s) : v \in 1..(Len(s) + Len(t))
  BY <1>1
<1>4. {v \in Sources(s \o t, d, 1) : v <= n} = {v \in Sources(s, d, 1) : v <= n}
  BY <1>1, <1>2, <1>3 DEF Sources
<1>. QED BY <1>4 DEF History

LEMMA ReachedStays ==
  ASSUME NEW s \in Seq(Event), NEW t \in Seq(Event), NEW d \in Definitions,
         NEW from, Reached(s, d, from)
  PROVE  Reached(s \o t, d, from)
<1>1. Len(s) \in Nat /\ Len(t) \in Nat /\ Len(s \o t) = Len(s) + Len(t)
  BY Grown
<1>2. from.version \in Nat /\ from.version <= Len(s)
  BY <1>1 DEF Reached
<1>3. from.version \in 0..Len(s \o t)
  BY <1>1, <1>2
<1>4. History(s \o t, d, from.version) = History(s, d, from.version)
  BY <1>2, HistoryStays
<1>. QED BY <1>3, <1>4 DEF Reached

LEMMA FaithfulPart ==
  ASSUME NEW s \in Seq(Event), NEW t \in Seq(Event), Faithful(s \o t)
  PROVE  Faithful(s)
<1>1. /\ Len(s) \in Nat /\ Len(t) \in Nat
      /\ DOMAIN s = 1..Len(s) /\ DOMAIN (s \o t) = 1..(Len(s) + Len(t))
      /\ \A v \in 1..Len(s) : (s \o t)[v] = s[v]
  BY Grown
<1>2. ASSUME NEW v \in 1..Len(s), s[v].type \in Definitions
      PROVE  s[v].state = History(s, s[v].type, v - 1)
  <2>1. v \in 1..(Len(s) + Len(t)) /\ v - 1 \in Nat /\ v - 1 <= Len(s)
    BY <1>1
  <2>2. (s \o t)[v].state = History(s \o t, s[v].type, v - 1)
    BY <1>1, <1>2, <2>1 DEF Faithful
  <2>3. History(s \o t, s[v].type, v - 1) = History(s, s[v].type, v - 1)
    BY <1>2, <2>1, HistoryStays
  <2>. QED BY <1>1, <2>2, <2>3
<1>. QED BY <1>1, <1>2 DEF Faithful

LEMMA FaithfulGrown ==
  ASSUME NEW s \in Seq(Event), NEW t \in Seq(Event), Faithful(s),
         \A i \in 1..Len(t) : t[i].type \in Definitions =>
           t[i].state = History(s \o t, t[i].type, Len(s) + i - 1)
  PROVE  Faithful(s \o t)
<1>1. /\ Len(s) \in Nat /\ Len(t) \in Nat
      /\ DOMAIN s = 1..Len(s) /\ DOMAIN (s \o t) = 1..(Len(s) + Len(t))
      /\ \A v \in 1..Len(s) : (s \o t)[v] = s[v]
      /\ \A i \in 1..Len(t) : (s \o t)[Len(s) + i] = t[i]
  BY Grown
<1>2. ASSUME NEW v \in 1..(Len(s) + Len(t)), (s \o t)[v].type \in Definitions
      PROVE  (s \o t)[v].state = History(s \o t, (s \o t)[v].type, v - 1)
  <2>1. CASE v <= Len(s)
    <3>1. v \in 1..Len(s) /\ v - 1 \in Nat /\ v - 1 <= Len(s)
      BY <1>1, <2>1
    <3>2. (s \o t)[v] = s[v]
      BY <1>1, <3>1
    <3>3. s[v].state = History(s, s[v].type, v - 1)
      BY <1>1, <1>2, <3>1, <3>2 DEF Faithful
    <3>4. History(s \o t, s[v].type, v - 1) = History(s, s[v].type, v - 1)
      BY <1>2, <3>1, <3>2, HistoryStays
    <3>. QED BY <3>2, <3>3, <3>4
  <2>2. CASE ~(v <= Len(s))
    <3> DEFINE i == v - Len(s)
    <3>1. i \in 1..Len(t) /\ Len(s) + i = v
      BY <1>1, <2>2
    <3> HIDE DEF i
    <3>2. (s \o t)[v] = t[i]
      BY <1>1, <3>1
    <3>. QED BY <1>2, <3>1, <3>2
  <2>. QED BY <2>1, <2>2
<1>. QED BY <1>1, <1>2 DEF Faithful

-----------------------------------------------------------------------------
(* What is read.                                                           *)

LEMMA BaseVersionType ==
  ASSUME NEW s \in Seq(Event), NEW d \in Definitions
  PROVE  /\ BaseVersion(s, d) \in 0..Len(s)
         /\ \A v \in 1..Len(s) : s[v].type = d =>
              /\ v <= BaseVersion(s, d)
              /\ BaseVersion(s, d) \in 1..Len(s)
              /\ s[BaseVersion(s, d)].type = d
<1> DEFINE versions == {v \in DOMAIN s : s[v].type = d}
<1>1. Len(s) \in Nat /\ DOMAIN s = 1..Len(s)
  BY LenProperties
<1>2. versions \in SUBSET (0..Len(s))
  BY <1>1
<1>3. BaseVersion(s, d) = IF versions = {} THEN 0 ELSE Max(versions)
  BY DEF BaseVersion
<1>4. versions # {} => Max(versions) \in versions /\ \A v \in versions : v <= Max(versions)
  <2> HIDE DEF versions
  <2>. QED BY <1>1, <1>2, MaxUpTo
<1>5. BaseVersion(s, d) \in 0..Len(s)
  <2>1. CASE versions = {}
    BY <1>1, <1>3, <2>1
  <2>2. CASE versions # {}
    <3> HIDE DEF versions
    <3>1. Max(versions) \in 0..Len(s)
      BY <1>2, <1>4, <2>2
    <3>. QED BY <1>3, <2>2, <3>1
  <2>. QED BY <2>1, <2>2
<1>6. ASSUME NEW v \in 1..Len(s), s[v].type = d
      PROVE  /\ v <= BaseVersion(s, d)
             /\ BaseVersion(s, d) \in 1..Len(s)
             /\ s[BaseVersion(s, d)].type = d
  <2>1. v \in versions
    BY <1>1, <1>6
  <2>2. BaseVersion(s, d) \in versions /\ v <= BaseVersion(s, d)
    <3> HIDE DEF versions
    <3>. QED BY <1>3, <1>4, <2>1
  <2>. QED BY <1>1, <2>2
<1>. QED BY <1>5, <1>6

\* The latest snapshot is a base, and so is none.
LEMMA BaseReached ==
  ASSUME SnapshotsAssumption, NEW s \in Seq(Event), NEW d \in Definitions, Faithful(s)
  PROVE  /\ SnapshotBase(s, d) \in Base
         /\ Reached(s, d, SnapshotBase(s, d))
         /\ Exempt(d) \/ SnapshotBase(s, d).version = BaseVersion(s, d)
<1> DEFINE versions == {v \in DOMAIN s : s[v].type = d}
           m == BaseVersion(s, d)
<1>1. Len(s) \in Nat /\ DOMAIN s = 1..Len(s)
  BY LenProperties
<1>2. CASE versions = {} \/ (d \in Encrypted /\ keyRevoked)
  <2>1. SnapshotBase(s, d) = [state |-> <<>>, version |-> 0]
    BY <1>2 DEF SnapshotBase, NoState
  <2>2. History(s, d, 0) = <<>>
    <3>1. {v \in Sources(s, d, 1) : v <= 0} = {}
      BY <1>1 DEF Sources
    <3>. QED BY <3>1, AscendingOfNone DEF History
  <2>3. <<>> \in Seq(Nat) /\ 0 \in 0..Len(s)
    BY <1>1
  <2>4. Exempt(d) \/ 0 = BaseVersion(s, d)
    BY <1>2 DEF Exempt, BaseVersion
  <2>. QED BY <2>1, <2>2, <2>3, <2>4 DEF Base, Reached
<1>3. CASE ~(versions = {} \/ (d \in Encrypted /\ keyRevoked))
  <2>1. SnapshotBase(s, d) = [state |-> s[m].state, version |-> m]
    BY <1>3 DEF SnapshotBase, BaseVersion
  <2>2. PICK w \in 1..Len(s) : s[w].type = d
    BY <1>1, <1>3
  <2>3. m \in 1..Len(s) /\ s[m].type = d
    BY <2>2, BaseVersionType
  <2> HIDE DEF m, versions
  <2>4. m \in Nat /\ m - 1 \in Nat /\ m <= Len(s) /\ m \in 0..Len(s) /\ m >= 1
    BY <1>1, <2>3
  <2>5. s[m].state = History(s, d, m - 1)
    BY <1>1, <2>3 DEF Faithful
  <2>6. History(s, d, m - 1) = History(s, d, m)
    <3>1. d \notin Handles[d]
      BY SnapshotsAssumption DEF SnapshotsAssumption
    <3>2. m \notin Sources(s, d, 1)
      BY <2>3, <3>1 DEF Sources
    <3>3. \A v \in 1..Len(s) : v # m => (v <= m - 1 <=> v <= m)
      BY <1>1, <2>4
    <3>4. \A v \in 1..Len(s) : v <= m - 1 => v # m
      BY <1>1, <2>4
    <3>5. Sources(s, d, 1) \in SUBSET (1..Len(s))
      BY <1>1 DEF Sources
    <3>6. {v \in Sources(s, d, 1) : v <= m - 1} = {v \in Sources(s, d, 1) : v <= m}
      BY <3>2, <3>3, <3>4, <3>5
    <3>. QED BY <3>6 DEF History
  <2>7. s[m].state \in Seq(Nat)
    <3>1. s[m] \in Event
      BY <2>3, LenProperties
    <3>. QED BY <3>1 DEF Event
  <2>. QED BY <2>1, <2>4, <2>5, <2>6, <2>7 DEF Base, Reached, m
<1>. QED BY <1>2, <1>3

\* A replay from a state of the history ends in the state of all of it.
LEMMA ReplayReached ==
  ASSUME NEW s \in Seq(Event), NEW d \in Definitions, NEW from,
         from.state \in Seq(Nat), Reached(s, d, from)
  PROVE  /\ Replay(s, d, from) \in Read
         /\ Replay(s, d, from).version = Len(s)
         /\ Replay(s, d, from).replayed = Cardinality(Sources(s, d, from.version + 1))
         /\ Reached(s, d, Replay(s, d, from))
<1> DEFINE m == from.version
           rows == Sources(s, d, m + 1)
<1>1. Len(s) \in Nat /\ m \in Nat /\ m <= Len(s) /\ m + 1 \in Nat /\ m \in 0..Len(s)
  <2>1. Len(s) \in Nat
    BY LenProperties
  <2>. QED BY <2>1 DEF Reached
<1>2. rows \in SUBSET (1..Len(s)) /\ Cardinality(rows) \in Nat
  <2> HIDE DEF m
  <2>. QED BY <1>1, SourcesType
<1>3. Max({Len(s), m}) = Len(s)
  <2>1. {Len(s), m} \in SUBSET (0..Len(s)) /\ {Len(s), m} # {}
    BY <1>1
  <2> HIDE DEF m
  <2>2. Max({Len(s), m}) \in {Len(s), m} /\ Len(s) <= Max({Len(s), m})
    BY <1>1, <2>1, MaxUpTo
  <2>. QED BY <1>1, <2>2
<1>4. Replay(s, d, from) =
        [state |-> from.state \o Ascending(rows), version |-> Len(s),
         replayed |-> Cardinality(rows)]
  BY <1>3 DEF Replay, ReplayFrom
<1>5. from.state \o Ascending(rows) = History(s, d, Len(s))
  <2>1. History(s, d, Len(s)) = History(s, d, m) \o Ascending(rows)
    BY <1>1, HistoryInParts
  <2>. QED BY <2>1 DEF Reached
<1>6. History(s, d, Len(s)) \in Seq(Nat)
  BY <1>1, HistoryType
<1>7. Len(s) \in 0..Len(s)
  BY <1>1
<1>8. /\ Replay(s, d, from).state = History(s, d, Len(s))
      /\ Replay(s, d, from).version = Len(s)
      /\ Replay(s, d, from).replayed = Cardinality(rows)
  <2> HIDE DEF rows
  <2>. QED BY <1>4, <1>5
<1>9. Replay(s, d, from) \in Read
  <2> HIDE DEF rows
  <2>. QED BY <1>1, <1>2, <1>4, <1>5, <1>6 DEF Read
<1>. QED BY <1>7, <1>8, <1>9 DEF Reached

LEMMA RestType ==
  ASSUME NEW s \in Seq(Event), NEW d \in Definitions
  PROVE  BaseVersion(s, d) \in Nat /\ Rest(s, d) \in Nat
<1>1. BaseVersion(s, d) \in Nat
  <2>1. Len(s) \in Nat
    BY LenProperties
  <2>. QED BY <2>1, BaseVersionType
<1>2. BaseVersion(s, d) + 1 \in Nat
  BY <1>1
<1>. QED BY <1>1, <1>2, SourcesType DEF Rest

\* Events of other types leave d as much to replay as there was.
LEMMA RestStays ==
  ASSUME NEW s \in Seq(Event), NEW t \in Seq(Event), NEW d \in Definitions,
         \A i \in 1..Len(t) : t[i].type # d /\ t[i].type \notin Handles[d]
  PROVE  Rest(s \o t, d) = Rest(s, d)
<1>1. /\ Len(s) \in Nat /\ Len(t) \in Nat
      /\ DOMAIN s = 1..Len(s) /\ DOMAIN (s \o t) = 1..(Len(s) + Len(t))
      /\ \A v \in 1..Len(s) : (s \o t)[v] = s[v]
      /\ \A i \in 1..Len(t) : (s \o t)[Len(s) + i] = t[i]
  BY Grown
<1>2. \A v \in 1..Len(s) : v \in 1..(Len(s) + Len(t))
  BY <1>1
<1>3. ASSUME NEW v \in 1..(Len(s) + Len(t)), v \notin 1..Len(s)
      PROVE  (s \o t)[v].type # d /\ (s \o t)[v].type \notin Handles[d]
  <2> DEFINE i == v - Len(s)
  <2>1. i \in 1..Len(t) /\ Len(s) + i = v
    BY <1>1, <1>3
  <2> HIDE DEF i
  <2>. QED BY <1>1, <2>1
<1>4. {v \in DOMAIN (s \o t) : (s \o t)[v].type = d} = {v \in DOMAIN s : s[v].type = d}
  BY <1>1, <1>2, <1>3
<1>5. BaseVersion(s \o t, d) = BaseVersion(s, d)
  BY <1>4 DEF BaseVersion
<1> DEFINE m == BaseVersion(s, d) + 1
<1>6. Sources(s \o t, d, m) = Sources(s, d, m)
  <2> HIDE DEF m
  <2>. QED BY <1>1, <1>2, <1>3 DEF Sources
<1>. QED BY <1>5, <1>6 DEF Rest

\* A snapshot leaves nothing to replay.
LEMMA RestAfterSnapshot ==
  ASSUME SnapshotsAssumption, NEW s \in Seq(Event), NEW e \in Event,
         NEW d \in Definitions, e.type = d
  PROVE  Rest(s \o <<e>>, d) = 0
<1> DEFINE r == s \o <<e>>
<1>1. <<e>> \in Seq(Event) /\ Len(<<e>>) = 1 /\ <<e>>[1] = e
  OBVIOUS
<1>2. /\ r \in Seq(Event) /\ Len(s) \in Nat /\ Len(r) = Len(s) + 1
      /\ DOMAIN r = 1..(Len(s) + 1)
  BY <1>1, Grown
<1>3. r[Len(s) + 1] = e
  BY <1>1, Grown, 1 \in 1..1
<1> HIDE DEF r
<1>4. Len(s) + 1 \in 1..Len(r)
  BY <1>2
<1>5. BaseVersion(r, d) \in 0..Len(r) /\ Len(s) + 1 <= BaseVersion(r, d)
  BY <1>2, <1>3, <1>4, BaseVersionType
<1>6. \A v \in DOMAIN r : ~(v >= BaseVersion(r, d) + 1)
  BY <1>2, <1>5
<1>7. Sources(r, d, BaseVersion(r, d) + 1) = {}
  BY <1>6 DEF Sources
<1>. QED BY <1>7, FS_EmptySet DEF Rest, r

-----------------------------------------------------------------------------
(* The steps.                                                              *)

LEMMA InitIInv ==
  ASSUME SnapshotsAssumption, Init PROVE IInv
<1>1. <<>> \in Seq(Event) /\ <<>> \in Seq(Nat) /\ Len(<<>>) = 0 /\ DOMAIN <<>> = {}
  OBVIOUS
<1>2. TypeOK
  BY <1>1 DEF Init, TypeOK, Base, Read, NoState
<1>3. Own = <<>>
  BY DEF Init, Own
<1>4. Faithful(Own)
  BY <1>1, <1>3 DEF Faithful
<1>5. LoadInv /\ AppendInv
  BY DEF Init, LoadInv, AppendInv
<1>6. ASSUME NEW d \in Definitions PROVE Bounded(<<>>, d)
  <2>1. Sources(<<>>, d, BaseVersion(<<>>, d) + 1) = {}
    BY <1>1 DEF Sources
  <2>2. Rest(<<>>, d) = 0
    BY <2>1, FS_EmptySet DEF Rest
  <2>3. Every[d] \in Int
    BY SnapshotsAssumption DEF SnapshotsAssumption
  <2>. QED BY <2>2, <2>3 DEF Bounded, Exempt
<1>7. BoundInv
  BY <1>3, <1>6 DEF Init, BoundInv
<1>. QED BY <1>2, <1>4, <1>5, <1>7 DEF IInv

\* What every step starts from.
LEMMA OwnStream ==
  ASSUME IInv
  PROVE  /\ Own \in Seq(Event) /\ stream \in Seq(Event) /\ Faithful(stream)
         /\ step = "idle" => Own = stream
<1>1. stream \in Seq(Event) /\ written \in Seq(Event)
  BY DEF IInv, TypeOK
<1>2. Own \in Seq(Event)
  BY <1>1, Grown DEF Own
<1>3. Faithful(stream)
  BY <1>1, FaithfulPart DEF IInv, Own
<1>4. step = "idle" => Own = stream
  BY <1>1, ConcatEmptySeq DEF IInv, AppendInv, Own
<1>. QED BY <1>1, <1>2, <1>3, <1>4

\* The definition that is maintained next.
LEMMA NextDefinition ==
  ASSUME SnapshotsAssumption, IInv, step \notin {"idle", "commit"}
  PROVE  Min(todo) \in todo /\ Min(todo) \in Definitions
<1>1. todo # {} /\ todo \in SUBSET Definitions
  BY DEF IInv, AppendInv, TypeOK
<1>2. todo \in SUBSET Nat
  BY <1>1 DEF SnapshotsAssumption
<1>3. Min(todo) \in todo
  BY <1>1, <1>2, MinIsElement
<1>. QED BY <1>1, <1>3

LEMMA StartLoadIInv ==
  ASSUME SnapshotsAssumption, IInv, NEW d \in Definitions, StartLoad(d) PROVE IInv'
<1> USE DEF StartLoad, appendVars
<1>1. SnapshotBase(stream, d) \in Base /\ Reached(stream, d, SnapshotBase(stream, d))
  BY OwnStream, BaseReached
<1>2. TypeOK'
  BY <1>1 DEF IInv, TypeOK
<1>3. LoadInv'
  BY <1>1 DEF IInv, LoadInv
<1>4. Faithful(Own)'
  BY DEF IInv, Own
<1>5. AppendInv'
  BY DEF IInv, AppendInv, Own, Exempt
<1>6. BoundInv'
  BY DEF IInv, BoundInv, Bounded, Exempt, Own
<1>. QED BY <1>2, <1>3, <1>4, <1>5, <1>6 DEF IInv

LEMMA FinishLoadIInv ==
  ASSUME SnapshotsAssumption, IInv, FinishLoad PROVE IInv'
<1> USE DEF FinishLoad, appendVars
<1> DEFINE r == Replay(stream, loading, base)
<1>1. loading \in Definitions /\ base.state \in Seq(Nat) /\ Reached(stream, loading, base)
  BY DEF IInv, TypeOK, LoadInv, Base
<1>2. r \in Read /\ Reached(stream, loading, r)
  BY <1>1, OwnStream, ReplayReached
<1> HIDE DEF r
<1>3. loaded' = [definition |-> loading, state |-> r.state, version |-> r.version]
  BY DEF r
<1>4. TypeOK'
  <2>1. loaded' \in Result
    BY <1>1, <1>2, <1>3 DEF Read, Result
  <2>2. base' \in Base
    BY DEF Base, NoState
  <2>. QED BY <2>1, <2>2 DEF IInv, TypeOK
<1>5. LoadInv'
  <2>1. Reached(stream, loaded'.definition, loaded')
    BY <1>2, <1>3 DEF Reached
  <2>. QED BY <2>1 DEF LoadInv, Reached
<1>6. Faithful(Own)'
  BY DEF IInv, Own
<1>7. AppendInv'
  BY DEF IInv, AppendInv, Own, Exempt
<1>8. BoundInv'
  BY DEF IInv, BoundInv, Bounded, Exempt, Own
<1>. QED BY <1>4, <1>5, <1>6, <1>7, <1>8 DEF IInv

LEMMA StartAppendIInv ==
  ASSUME SnapshotsAssumption, IInv, NEW n \in 1..MaxBatch,
         NEW types \in [1..n -> SourceTypes], StartAppend(types)
  PROVE  IInv'
<1> USE DEF StartAppend, loadVars
<1>1. Own = stream /\ stream \in Seq(Event) /\ Faithful(stream)
  BY OwnStream
<1>2. n \in Nat /\ DOMAIN types = 1..n
  BY DEF SnapshotsAssumption
<1>3. /\ written' \in Seq(Event) /\ Len(written') = n
      /\ \A i \in 1..n : written'[i].type = types[i] /\ types[i] \in SourceTypes
  <2>1. \A i \in 1..n : [type |-> types[i], state |-> NoState] \in Event
    <3>1. <<>> \in Seq(Nat)
      OBVIOUS
    <3>. QED BY <1>2, <3>1 DEF Event, NoState
  <2>2. written' = [i \in 1..n |-> [type |-> types[i], state |-> NoState]]
    BY <1>2
  <2>3. written' \in [1..n -> Event]
    BY <2>1, <2>2
  <2>4. written' \in Seq(Event) /\ Len(written') = n
    BY <1>2, <2>3, SeqDef
  <2>. QED BY <1>2, <2>2, <2>4
<1>4. \A i \in 1..n : written'[i].type \notin Definitions
  BY <1>3 DEF SnapshotsAssumption
<1>5. Own' = stream \o written'
  BY DEF Own
<1>6. /\ todo' = Concerned(types) /\ step' \in {"latest", "commit"}
      /\ step' = "commit" <=> todo' = {}
  BY DEF Continue
<1>7. TypeOK'
  BY <1>3, <1>6 DEF IInv, TypeOK, Concerned
<1>8. Faithful(Own)'
  <2>1. Faithful(stream \o written')
    BY <1>1, <1>3, <1>4, FaithfulGrown
  <2>. QED BY <1>5, <2>1 DEF Faithful
<1>9. LoadInv'
  BY DEF IInv, LoadInv
<1>10. AppendInv'
  BY <1>6 DEF AppendInv, Concerned
<1>11. BoundInv'
  <2>1. ASSUME NEW d \in Definitions PROVE Bounded(stream, d)'
    BY DEF IInv, BoundInv, Bounded, Exempt
  <2>2. ASSUME NEW d \in Definitions \ todo' PROVE Bounded(Own, d)'
    <3>1. CASE Every[d] <= 0
      BY <3>1 DEF Bounded, Exempt
    <3>2. CASE ~(Every[d] <= 0)
      <4>1. Every[d] > 0
        BY <3>2 DEF SnapshotsAssumption
      <4>2. \A i \in 1..n : types[i] \notin Handles[d]
        BY <1>2, <1>6, <4>1 DEF Concerned
      <4>3. \A i \in 1..Len(written') :
               written'[i].type # d /\ written'[i].type \notin Handles[d]
        BY <1>3, <1>4, <4>2
      <4>4. Rest(stream \o written', d) = Rest(stream, d)
        <5>1. \A t \in Seq(Event) :
                 (\A i \in 1..Len(t) : t[i].type # d /\ t[i].type \notin Handles[d]) =>
                   Rest(stream \o t, d) = Rest(stream, d)
          BY <1>1, RestStays
        <5>. QED BY <1>3, <4>3, <5>1
      <4>5. Bounded(stream, d)
        BY DEF IInv, BoundInv
      <4>. QED BY <1>5, <4>4, <4>5 DEF Bounded, Exempt
    <3>. QED BY <3>1, <3>2
  <2>. QED BY <2>1, <2>2 DEF BoundInv
<1>. QED BY <1>7, <1>8, <1>9, <1>10, <1>11 DEF IInv

LEMMA ReadLatestIInv ==
  ASSUME SnapshotsAssumption, IInv, ReadLatest PROVE IInv'
<1> USE DEF ReadLatest, loadVars
<1> DEFINE d == Min(todo)
           from == SnapshotBase(Own, d)
<1>1. d \in todo /\ d \in Definitions
  BY NextDefinition
<1>2. /\ from \in Base /\ Reached(Own, d, from)
      /\ Exempt(d) \/ from.version = BaseVersion(Own, d)
  <2> HIDE DEF d
  <2>. QED BY <1>1, OwnStream, BaseReached DEF IInv
<1>3. found' = [state |-> from.state, version |-> from.version, replayed |-> 0]
  OBVIOUS
<1> HIDE DEF d, from
<1>4. TypeOK'
  <2>1. found' \in Read
    BY <1>2, <1>3 DEF Base, Read
  <2>. QED BY <2>1 DEF IInv, TypeOK
<1>5. Own' = Own
  BY DEF Own
<1>6. Faithful(Own)'
  BY <1>5 DEF IInv, Faithful
<1>7. LoadInv'
  BY DEF IInv, LoadInv
<1>8. AppendInv'
  <2>1. Reached(Own, d, found')
    BY <1>2, <1>3 DEF Reached
  <2>2. found'.version = from.version
    BY <1>3
  <2>3. step' = "events" /\ todo' = todo /\ todo # {} /\ Min(todo') = d
    <3>1. todo' = todo
      OBVIOUS
    <3>2. Min(todo') = d
      BY <3>1 DEF d
    <3>. QED BY <1>1, <3>1, <3>2
  <2>4. Reached(Own, Min(todo), found)'
    BY <1>5, <2>1, <2>3 DEF Reached
  <2>5. \A e \in todo' : Every[e] > 0
    BY <2>3 DEF IInv, AppendInv
  <2>6. (Exempt(Min(todo)) \/ found.version = BaseVersion(Own, Min(todo)))'
    <3>1. Exempt(d) => Exempt(Min(todo))'
      BY <2>3 DEF Exempt
    <3>2. BaseVersion(Own', Min(todo')) = BaseVersion(Own, d)
      BY <1>5, <2>3
    <3>. QED BY <1>2, <2>2, <3>1, <3>2
  <2>. QED BY <2>3, <2>4, <2>5, <2>6 DEF AppendInv
<1>9. BoundInv'
  BY <1>5 DEF IInv, BoundInv, Bounded, Exempt
<1>. QED BY <1>4, <1>6, <1>7, <1>8, <1>9 DEF IInv

LEMMA ReadEventsIInv ==
  ASSUME SnapshotsAssumption, IInv, ReadEvents PROVE IInv'
<1> USE DEF ReadEvents, loadVars
<1> DEFINE d == Min(todo)
           r == Replay(Own, d, found)
<1>1. d \in todo /\ d \in Definitions
  BY NextDefinition
<1>2. found.state \in Seq(Nat) /\ Reached(Own, d, found)
  BY DEF IInv, AppendInv, TypeOK, Read
<1>3. /\ r \in Read /\ r.version = Len(Own) /\ Reached(Own, d, r)
      /\ r.replayed = Cardinality(Sources(Own, d, found.version + 1))
  <2> HIDE DEF d
  <2>. QED BY <1>1, <1>2, OwnStream, ReplayReached
<1>4. /\ found' = r
      /\ \/ Due(d, r.replayed) /\ step' = "write" /\ todo' = todo
         \/ ~Due(d, r.replayed) /\ Continue(todo \ {d})
  OBVIOUS
<1>5. Exempt(d) \/ r.replayed = Rest(Own, d)
  BY <1>3 DEF IInv, AppendInv, Rest
<1>6. Min(todo) = d
  OBVIOUS
<1> HIDE DEF d, r
<1>7. Own' = Own
  BY DEF Own
<1>8. todo' \in SUBSET todo /\ todo' \in SUBSET Definitions
  BY <1>4 DEF Continue, IInv, TypeOK
<1>9. TypeOK'
  BY <1>3, <1>4, <1>8 DEF IInv, TypeOK, Continue
<1>10. Faithful(Own)'
  BY <1>7 DEF IInv, Faithful
<1>11. LoadInv'
  BY DEF IInv, LoadInv
<1>12. \A e \in todo' : Every[e] > 0
  BY <1>8 DEF IInv, AppendInv
<1>13. CASE Due(d, r.replayed) /\ step' = "write" /\ todo' = todo
  <2>1. Reached(Own, Min(todo), found)'
    BY <1>3, <1>4, <1>6, <1>7, <1>13 DEF Reached
  <2>2. (found.version = Len(Own))'
    BY <1>3, <1>4, <1>7
  <2>3. AppendInv'
    BY <1>1, <1>12, <1>13, <2>1, <2>2 DEF AppendInv
  <2>4. BoundInv'
    BY <1>7, <1>13 DEF IInv, BoundInv, Bounded, Exempt
  <2>. QED BY <1>9, <1>10, <1>11, <2>3, <2>4 DEF IInv
<1>14. CASE ~Due(d, r.replayed) /\ Continue(todo \ {d})
  <2>1. step' \in {"latest", "commit"} /\ (step' = "commit" <=> todo' = {})
    BY <1>14 DEF Continue
  <2>2. AppendInv'
    BY <1>12, <2>1 DEF AppendInv
  <2>3. Bounded(Own, d)
    <3>1. r.replayed \in Nat /\ Every[d] \in Int
      BY <1>1, <1>3 DEF Read, SnapshotsAssumption
    <3>2. r.replayed < Every[d]
      BY <1>14, <3>1 DEF Due
    <3>. QED BY <1>5, <3>2 DEF Bounded
  <2>4. BoundInv'
    <3>1. \A e \in Definitions \ todo' : Bounded(Own, e)
      BY <1>14, <2>3 DEF Continue, IInv, BoundInv
    <3>2. \A e \in Definitions : Bounded(stream, e)
      BY DEF IInv, BoundInv
    <3>. QED BY <1>7, <3>1, <3>2 DEF BoundInv, Bounded, Exempt
  <2>. QED BY <1>9, <1>10, <1>11, <2>2, <2>4 DEF IInv
<1>. QED BY <1>4, <1>13, <1>14

LEMMA WriteSnapshotIInv ==
  ASSUME SnapshotsAssumption, IInv, WriteSnapshot PROVE IInv'
<1> USE DEF WriteSnapshot, loadVars
<1> DEFINE d == Min(todo)
           e == SnapshotEvent(d)
<1>1. d \in todo /\ d \in Definitions
  BY NextDefinition
<1>2. /\ found.state = History(Own, d, Len(Own)) /\ found.state \in Seq(Nat)
  BY DEF IInv, AppendInv, Reached, TypeOK, Read
<1>3. /\ written' = Append(written, e) /\ Continue(todo \ {d})
      /\ keyLocked' \in BOOLEAN
  BY DEF IInv, TypeOK
<1>4. e \in Event /\ e.type = d /\ e.state = found.state
  BY <1>1, <1>2 DEF SnapshotEvent, Event
<1> HIDE DEF d, e
<1>5. stream \in Seq(Event) /\ written \in Seq(Event) /\ Own \in Seq(Event)
  BY OwnStream DEF IInv, TypeOK
<1>6. <<e>> \in Seq(Event) /\ Len(<<e>>) = 1 /\ <<e>>[1] = e
  BY <1>4
<1>7. written' = written \o <<e>> /\ written' \in Seq(Event)
  BY <1>3, <1>4, <1>5, AppendIsConcat, AppendProperties
<1>8. Own' = Own \o <<e>>
  BY <1>5, <1>6, <1>7, ConcatAssociative DEF Own
<1>9. todo' = todo \ {d} /\ step' \in {"latest", "commit"} /\ (step' = "commit" <=> todo' = {})
  BY <1>3 DEF Continue
<1>10. TypeOK'
  BY <1>3, <1>7, <1>9 DEF IInv, TypeOK
<1>11. Faithful(Own)'
  <2>1. Len(Own) \in Nat /\ Len(Own) + 1 - 1 = Len(Own) /\ Len(Own) <= Len(Own)
    <3>1. Len(Own) \in Nat
      BY <1>5, LenProperties
    <3>. QED BY <3>1
  <2>2. History(Own \o <<e>>, d, Len(Own)) = History(Own, d, Len(Own))
    <3>1. \A t \in Seq(Event) : History(Own \o t, d, Len(Own)) = History(Own, d, Len(Own))
      BY <1>1, <1>5, <2>1, HistoryStays
    <3>. QED BY <1>6, <3>1
  <2>3. \A i \in 1..Len(<<e>>) : <<e>>[i].type \in Definitions =>
           <<e>>[i].state = History(Own \o <<e>>, <<e>>[i].type, Len(Own) + i - 1)
    <3>1. \A i \in 1..Len(<<e>>) : i = 1
      BY <1>6
    <3>. QED BY <1>2, <1>4, <1>6, <2>1, <2>2, <3>1
  <2>4. Faithful(Own \o <<e>>)
    BY <1>5, <1>6, <2>3, FaithfulGrown DEF IInv
  <2>. QED BY <1>8, <2>4 DEF Faithful
<1>12. LoadInv'
  BY DEF IInv, LoadInv
<1>13. AppendInv'
  BY <1>9 DEF IInv, AppendInv
<1>14. BoundInv'
  <2>1. ASSUME NEW c \in Definitions \ todo' PROVE Bounded(Own, c)'
    <3>1. CASE c = d
      <4>1. Rest(Own \o <<e>>, c) = 0
        BY <1>4, <1>5, <3>1, RestAfterSnapshot
      <4>2. Every[c] > 0
        BY <1>1, <3>1 DEF IInv, AppendInv
      <4>. QED BY <1>8, <4>1, <4>2 DEF Bounded
    <3>2. CASE c # d
      <4>1. d \notin Handles[c]
        BY <1>1 DEF SnapshotsAssumption
      <4>2. \A i \in 1..Len(<<e>>) : <<e>>[i].type # c /\ <<e>>[i].type \notin Handles[c]
        <5>1. \A i \in 1..Len(<<e>>) : i = 1
          BY <1>6
        <5>. QED BY <1>4, <1>6, <3>2, <4>1, <5>1
      <4>3. Rest(Own \o <<e>>, c) = Rest(Own, c)
        BY <1>5, <1>6, <4>2, RestStays
      <4>4. Bounded(Own, c)
        BY <1>9, <3>2 DEF IInv, BoundInv
      <4>. QED BY <1>8, <4>3, <4>4 DEF Bounded, Exempt
    <3>. QED BY <3>1, <3>2
  <2>2. ASSUME NEW c \in Definitions PROVE Bounded(stream, c)'
    BY DEF IInv, BoundInv, Bounded, Exempt
  <2>. QED BY <2>1, <2>2 DEF BoundInv
<1>. QED BY <1>10, <1>11, <1>12, <1>13, <1>14 DEF IInv

LEMMA CommitIInv ==
  ASSUME SnapshotsAssumption, IInv, Commit PROVE IInv'
<1> USE DEF Commit, EndAppend, loadVars
<1>1. Own \in Seq(Event) /\ stream \in Seq(Event) /\ written \in Seq(Event)
  BY OwnStream DEF IInv, TypeOK
<1>2. Own' = Own
  BY <1>1, ConcatEmptySeq DEF Own
<1>3. TypeOK'
  <2>1. found' \in Read /\ written' \in Seq(Event)
    BY DEF Read, NoState
  <2>. QED BY <1>1, <2>1 DEF IInv, TypeOK
<1>4. Faithful(Own)'
  BY <1>2 DEF IInv, Faithful
<1>5. LoadInv'
  <2>1. ASSUME NEW d \in Definitions, NEW from, Reached(stream, d, from)
        PROVE  Reached(Own, d, from)
    BY <1>1, <2>1, ReachedStays DEF Own
  <2>2. loading # 0 => Reached(Own, loading, base)
    BY <2>1 DEF IInv, LoadInv, TypeOK
  <2>3. loaded # <<>> => Reached(Own, loaded.definition, loaded)
    BY <2>1 DEF IInv, LoadInv, TypeOK, Result
  <2>. QED BY <2>2, <2>3 DEF LoadInv
<1>6. AppendInv'
  BY DEF AppendInv
<1>7. BoundInv'
  <2>1. \A d \in Definitions : Bounded(Own, d)
    BY DEF IInv, BoundInv, AppendInv
  <2>. QED BY <1>2, <2>1 DEF BoundInv, Bounded, Exempt
<1>. QED BY <1>3, <1>4, <1>5, <1>6, <1>7 DEF IInv

LEMMA RollbackIInv ==
  ASSUME SnapshotsAssumption, IInv, Rollback PROVE IInv'
<1> USE DEF Rollback, EndAppend, loadVars
<1>1. stream \in Seq(Event) /\ Faithful(stream)
  BY OwnStream
<1>2. Own' = stream
  BY <1>1, ConcatEmptySeq DEF Own
<1>3. TypeOK'
  <2>1. found' \in Read /\ written' \in Seq(Event)
    BY DEF Read, NoState
  <2>. QED BY <2>1 DEF IInv, TypeOK
<1>4. Faithful(Own)'
  BY <1>1, <1>2 DEF Faithful
<1>5. LoadInv'
  BY DEF IInv, LoadInv
<1>6. AppendInv'
  BY DEF AppendInv
<1>7. BoundInv'
  BY <1>2 DEF IInv, BoundInv, Bounded, Exempt
<1>. QED BY <1>3, <1>4, <1>5, <1>6, <1>7 DEF IInv

LEMMA RevokeKeyIInv ==
  ASSUME SnapshotsAssumption, IInv, RevokeKey PROVE IInv'
<1> USE DEF RevokeKey, appendVars, loadVars
<1>1. Own' = Own
  BY DEF Own
<1>2. \A d \in Definitions : Exempt(d) => Exempt(d)'
  BY DEF Exempt
<1>3. TypeOK'
  BY DEF IInv, TypeOK
<1>4. Faithful(Own)'
  BY <1>1 DEF IInv, Faithful
<1>5. LoadInv'
  BY DEF IInv, LoadInv
<1>6. AppendInv'
  BY <1>1, <1>2, NextDefinition DEF IInv, AppendInv
<1>7. BoundInv'
  BY <1>1, <1>2 DEF IInv, BoundInv, Bounded
<1>. QED BY <1>3, <1>4, <1>5, <1>6, <1>7 DEF IInv

LEMMA StepIInv ==
  ASSUME SnapshotsAssumption, IInv, [Next]_vars PROVE IInv'
<1>1. CASE UNCHANGED vars
  BY <1>1 DEF vars, appendVars, loadVars, IInv, TypeOK, LoadInv, AppendInv, BoundInv,
              Own, Bounded, Exempt
<1>2. CASE Next
  BY <1>2, StartAppendIInv, ReadLatestIInv, ReadEventsIInv, WriteSnapshotIInv,
     CommitIInv, RollbackIInv, RevokeKeyIInv, StartLoadIInv, FinishLoadIInv DEF Next
<1>. QED BY <1>1, <1>2

-----------------------------------------------------------------------------
(* The theorems about snapshots.                                           *)

LEMMA Invariance == Spec => []IInv
<1>1. Init => IInv
  BY SnapshotsAssumption, InitIInv
<1>2. IInv /\ [Next]_vars => IInv'
  BY SnapshotsAssumption, StepIInv
<1>. QED BY <1>1, <1>2, PTL DEF Spec

\* Every variable keeps its type: the states are sequences of versions, and the
\* transaction maintains registered definitions only.
THEOREM TypeCorrect == Spec => []TypeOK
<1>1. IInv => TypeOK
  BY DEF IInv
<1>. QED BY <1>1, Invariance, PTL

\* A stored snapshot is the state of all events before it, whatever was appended,
\* loaded, rolled back or revoked between (appendSnapshot).
THEOREM FaithfulSnapshots == Spec => []SnapshotsAreFaithful
<1>1. IInv => SnapshotsAreFaithful
  <2> SUFFICES ASSUME IInv PROVE SnapshotsAreFaithful
    OBVIOUS
  <2>1. Faithful(stream)
    BY OwnStream
  <2>. QED BY <2>1 DEF Faithful, SnapshotsAreFaithful
<1>. QED BY <1>1, Invariance, PTL

\* A load in two statements returns the replay of the whole history up to the
\* version it names (load in define-snapshot.ts).
THEOREM LoadsTheHistory == Spec => []LoadEqualsReplay
<1>1. IInv => LoadEqualsReplay
  BY DEF IInv, LoadInv, Reached, LoadEqualsReplay
<1>. QED BY <1>1, Invariance, PTL

\* After every append fewer than Every[d] sources are left to replay, unless the
\* key of d is revoked (updateRegisteredSnapshots).
THEOREM BoundedReplay == Spec => []ReplayIsBounded
<1>1. IInv => ReplayIsBounded
  <2> SUFFICES ASSUME IInv PROVE ReplayIsBounded
    OBVIOUS
  <2>1. ASSUME NEW d \in Definitions, ~Exempt(d)
        PROVE  Replay(stream, d, SnapshotBase(stream, d)).replayed < Every[d]
    <3>1. /\ SnapshotBase(stream, d) \in Base
          /\ Reached(stream, d, SnapshotBase(stream, d))
          /\ SnapshotBase(stream, d).version = BaseVersion(stream, d)
      BY <2>1, SnapshotsAssumption, OwnStream, BaseReached
    <3>2. Replay(stream, d, SnapshotBase(stream, d)).replayed = Rest(stream, d)
      BY <3>1, OwnStream, ReplayReached DEF Base, Rest
    <3>3. Rest(stream, d) < Every[d]
      BY <2>1 DEF IInv, BoundInv, Bounded
    <3>. QED BY <3>2, <3>3
  <2>. QED BY <2>1 DEF ReplayIsBounded, Exempt
<1>. QED BY <1>1, Invariance, PTL
=============================================================================

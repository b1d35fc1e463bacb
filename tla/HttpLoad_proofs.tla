--------------------------- MODULE HttpLoad_proofs -------------------------
(***************************************************************************)
(* The load test over HTTP, for any number of accounts, replicas, lanes    *)
(* and retries, and any profile, history and threshold of the snapshot.    *)
(*                                                                         *)
(* The first part follows the lanes through the operations of a phase and  *)
(* of the phases, which divide the configured operations.  The second      *)
(* follows an operation's request, which conflicts send again and its      *)
(* client may abandon, to the one event it can store.  The third adds up   *)
(* what is stored in an account, and concludes that verification finds     *)
(* nothing wrong.                                                          *)
(***************************************************************************)
EXTENDS HttpLoad, FiniteSetTheorems, SequenceTheorems, WellFoundedInduction, TLAPS

-----------------------------------------------------------------------------
(* Numbers and sums.                                                       *)

LEMMA Smallest ==
  ASSUME NEW S \in SUBSET Nat, S # {}
  PROVE  \E p \in S : \A q \in S : p <= q
<1>1. PICK p \in S : \A q \in S : ~(<<q, p>> \in OpToRel(<, Nat))
  BY NatLessThanWellFounded, WFMin
<1>2. ASSUME NEW q \in S PROVE p <= q
  <2>1. ~(q < p)
    BY <1>1 DEF OpToRel
  <2>. QED BY <2>1
<1>. QED BY <1>2

LEMMA MinIsElement ==
  ASSUME NEW S \in SUBSET Nat, S # {}
  PROVE  Min(S) \in S /\ \A q \in S : Min(S) <= q
<1>1. PICK p \in S : \A q \in S : p <= q
  BY Smallest
<1>. QED BY <1>1 DEF Min

\* Induction up to k, about a set of numbers.
LEMMA UpTo ==
  ASSUME NEW k \in Nat, NEW S, 0 \in S, \A i \in 1..k : i - 1 \in S => i \in S
  PROVE  \A i \in 0..k : i \in S
<1> DEFINE Missing == {i \in 0..k : i \notin S}
<1>1. SUFFICES ASSUME Missing # {} PROVE FALSE
  OBVIOUS
<1>2. Missing \in SUBSET Nat
  OBVIOUS
<1>3. PICK p \in Missing : \A q \in Missing : p <= q
  <2> HIDE DEF Missing
  <2>. QED BY <1>1, <1>2, Smallest
<1>4. p \in 1..k
  BY <1>3
<1>5. p - 1 \in 0..k /\ ~(p <= p - 1)
  BY <1>4
<1>6. p - 1 \in S
  BY <1>3, <1>5
<1>. QED BY <1>3, <1>4, <1>6

\* The sums of the first numbers of s: f[i] is that of the first i.
Sums(s, f) ==
  /\ f \in [0..Len(s) -> Nat]
  /\ f[0] = 0
  /\ \A i \in 1..Len(s) : f[i] = f[i - 1] + s[i]

LEMMA SumsExist ==
  ASSUME NEW s \in Seq(Nat)
  PROVE  \E f : Sums(s, f)
<1> DEFINE n == Len(s)
           Up(k, f) == /\ f \in [0..k -> Nat] /\ f[0] = 0
                       /\ \A i \in 1..k : f[i] = f[i - 1] + s[i]
           S == {k \in 0..n : \E f : Up(k, f)}
<1>0. n \in Nat /\ \A i \in 1..n : s[i] \in Nat
  OBVIOUS
<1>1. 0 \in S
  <2>1. Up(0, [i \in 0..0 |-> 0])
    OBVIOUS
  <2> HIDE DEF Up
  <2>. QED BY <1>0, <2>1
<1>2. ASSUME NEW k \in 1..n, k - 1 \in S PROVE k \in S
  <2>1. PICK f : Up(k - 1, f)
    BY <1>2
  <2> DEFINE g == [i \in 0..k |-> IF i = k THEN f[k - 1] + s[k] ELSE f[i]]
  <2>2. f[k - 1] \in Nat /\ s[k] \in Nat /\ k \in Nat /\ k # 0
    BY <1>0, <2>1
  <2>3. g \in [0..k -> Nat]
    <3>1. ASSUME NEW i \in 0..k, i # k PROVE f[i] \in Nat
      <4>1. i \in 0..(k - 1)
        BY <3>1
      <4>. QED BY <2>1, <4>1
    <3>. QED BY <2>2, <3>1
  <2>4. g[0] = 0
    BY <2>1, <2>2
  <2>5. ASSUME NEW i \in 1..k PROVE g[i] = g[i - 1] + s[i]
    <3>1. i - 1 \in 0..k /\ i - 1 # k /\ i \in 0..k
      BY <2>5
    <3>2. CASE i = k
      BY <3>1, <3>2
    <3>3. CASE i # k
      <4>1. i \in 1..(k - 1)
        BY <2>5, <3>3
      <4>. QED BY <2>1, <3>1, <3>3, <4>1
    <3>. QED BY <3>2, <3>3
  <2> HIDE DEF g
  <2>6. Up(k, g)
    BY <2>3, <2>4, <2>5
  <2> HIDE DEF Up
  <2>. QED BY <2>6
<1>3. n \in S
  <2>1. \A k \in 0..n : k \in S
    <3>1. n \in Nat
      BY <1>0
    <3> HIDE DEF S, Up, n
    <3>. QED BY <1>1, <1>2, <3>1, UpTo
  <2>2. n \in 0..n
    BY <1>0
  <2> HIDE DEF S, n
  <2>. QED BY <2>1, <2>2
<1>. QED BY <1>3 DEF Sums

LEMMA TotalIsLastSum ==
  ASSUME NEW s \in Seq(Nat)
  PROVE  \E f : Sums(s, f) /\ Total(s) = f[Len(s)]
<1> DEFINE n == Len(s)
           Sum(f) == f = [i \in 0..n |-> IF i = 0 THEN 0 ELSE f[i - 1] + s[i]]
           sum == CHOOSE f : Sum(f)
<1>0. n \in Nat
  OBVIOUS
<1>1. PICK f : Sums(s, f)
  BY SumsExist
<1>2. Sum(f)
  <2>1. f = [i \in 0..n |-> f[i]] /\ \A i \in 0..n : i # 0 => i \in 1..n
    BY <1>0, <1>1 DEF Sums
  <2>2. \A i \in 0..n : f[i] = IF i = 0 THEN 0 ELSE f[i - 1] + s[i]
    BY <1>1, <2>1 DEF Sums
  <2>. QED BY <2>1, <2>2
<1>3. Sum(sum)
  <2> HIDE DEF Sum
  <2>. QED BY <1>2
<1>4. \A i \in 0..n : sum[i] = IF i = 0 THEN 0 ELSE sum[i - 1] + s[i]
  <2> HIDE DEF sum
  <2>. QED BY <1>3
<1>5. \A i \in 0..n : sum[i] = f[i]
  <2> DEFINE S == {i \in 0..n : sum[i] = f[i]}
  <2> HIDE DEF sum
  <2>1. 0 \in S
    BY <1>0, <1>1, <1>4 DEF Sums
  <2>2. ASSUME NEW i \in 1..n, i - 1 \in S PROVE i \in S
    <3>1. i \in 0..n /\ i # 0
      BY <2>2
    <3>. QED BY <1>1, <1>4, <2>2, <3>1 DEF Sums
  <2>3. \A i \in 0..n : i \in S
    <3> HIDE DEF S, n
    <3>. QED BY <1>0, <2>1, <2>2, UpTo
  <2>. QED BY <2>3
<1>6. Total(s) = sum[n]
  BY DEF Total
<1> HIDE DEF sum
<1>. QED BY <1>0, <1>1, <1>5, <1>6

LEMMA TotalEmpty == Total(<<>>) = 0
<1>1. <<>> \in Seq(Nat) /\ Len(<<>>) = 0
  OBVIOUS
<1>. QED BY <1>1, TotalIsLastSum DEF Sums

LEMMA TotalAppend ==
  ASSUME NEW s \in Seq(Nat), NEW x \in Nat
  PROVE  Total(s) \in Nat /\ Total(Append(s, x)) = Total(s) + x
<1> DEFINE n == Len(s)
           t == Append(s, x)
<1>0. n \in Nat /\ t \in Seq(Nat) /\ Len(t) = n + 1 /\ t[n + 1] = x
      /\ \A i \in 1..n : t[i] = s[i] /\ i \in 1..(n + 1)
  OBVIOUS
<1>1. PICK f : Sums(s, f) /\ Total(s) = f[n]
  BY TotalIsLastSum
<1>2. PICK g : Sums(t, g) /\ Total(t) = g[n + 1]
  <2> HIDE DEF t
  <2>. QED BY <1>0, TotalIsLastSum
<1>3. /\ f[0] = 0 /\ \A i \in 1..n : f[i] = f[i - 1] + s[i]
      /\ f[n] \in Nat
      /\ g[0] = 0 /\ \A i \in 1..(n + 1) : g[i] = g[i - 1] + t[i]
  <2> HIDE DEF t
  <2>. QED BY <1>0, <1>1, <1>2 DEF Sums
<1> DEFINE S == {i \in 0..n : f[i] = g[i]}
<1> HIDE DEF t
<1>4. 0 \in S
  BY <1>0, <1>3
<1>5. ASSUME NEW i \in 1..n, i - 1 \in S PROVE i \in S
  BY <1>0, <1>3, <1>5
<1>6. f[n] = g[n]
  <2>1. \A i \in 0..n : i \in S
    <3> HIDE DEF S, n
    <3>. QED BY <1>0, <1>4, <1>5, UpTo
  <2>. QED BY <1>0, <2>1
<1>7. g[n + 1] = g[n] + t[n + 1]
  <2>1. n + 1 \in 1..(n + 1) /\ (n + 1) - 1 = n
    BY <1>0
  <2>. QED BY <1>3, <2>1
<1>. QED BY <1>0, <1>1, <1>2, <1>3, <1>6, <1>7 DEF t

\* One number more by x.
LEMMA TotalIncrease ==
  ASSUME NEW s \in Seq(Nat), NEW t \in Seq(Nat), Len(s) = Len(t),
         NEW k \in 1..Len(s), NEW x \in Nat, t[k] = s[k] + x,
         \A i \in 1..Len(s) : i # k => t[i] = s[i]
  PROVE  Total(t) = Total(s) + x
<1> DEFINE n == Len(s)
<1>0. n \in Nat /\ k \in Nat /\ k <= n /\ ~(k <= 0) /\ \A i \in 1..n : s[i] \in Nat /\ t[i] \in Nat
  OBVIOUS
<1>1. PICK f : Sums(s, f) /\ Total(s) = f[n]
  BY TotalIsLastSum
<1>2. PICK g : Sums(t, g) /\ Total(t) = g[n]
  BY TotalIsLastSum
<1>3. /\ f[0] = 0 /\ \A i \in 1..n : f[i] = f[i - 1] + s[i]
      /\ g[0] = 0 /\ \A i \in 1..n : g[i] = g[i - 1] + t[i]
      /\ \A i \in 0..n : f[i] \in Nat /\ g[i] \in Nat
  BY <1>1, <1>2 DEF Sums
<1> DEFINE S == {i \in 0..n : g[i] = f[i] + (IF k <= i THEN x ELSE 0)}
<1>4. 0 \in S
  BY <1>0, <1>3
<1>5. ASSUME NEW i \in 1..n, i - 1 \in S PROVE i \in S
  <2>0. i \in Nat /\ i - 1 \in Nat /\ i <= n /\ i - 1 \in 0..n /\ i \in 0..n
    BY <1>0
  <2>1. f[i - 1] \in Nat /\ s[i] \in Nat /\ t[i] \in Nat
    BY <1>0, <1>3, <2>0
  <2>2. /\ g[i - 1] = f[i - 1] + (IF k <= i - 1 THEN x ELSE 0)
        /\ g[i] = g[i - 1] + t[i] /\ f[i] = f[i - 1] + s[i]
    BY <1>3, <1>5
  <2>3. CASE i = k
    <3>1. t[i] = s[i] + x /\ ~(k <= i - 1) /\ k <= i
      BY <1>0, <2>0, <2>3
    <3>2. g[i - 1] = f[i - 1] /\ g[i] = g[i - 1] + t[i] /\ f[i] = f[i - 1] + s[i]
      <4>1. g[i - 1] = f[i - 1] + 0
        BY <2>2, <3>1, Zenon
      <4>2. f[i - 1] + 0 = f[i - 1]
        BY <2>1
      <4>. QED BY <2>2, <4>1, <4>2, Zenon
    <3>3. g[i] = f[i] + x
      <4> DEFINE u == f[i - 1]
                 v == s[i]
      <4>1. u \in Nat /\ v \in Nat /\ f[i] = u + v /\ g[i] = u + (v + x)
        BY <2>1, <3>1, <3>2
      <4> HIDE DEF u, v
      <4>. QED BY <4>1
    <3>. QED BY <2>0, <3>1, <3>3
  <2>4. CASE i # k
    <3>1. t[i] = s[i]
      BY <2>4
    <3>2. (k <= i - 1) <=> (k <= i)
      BY <1>0, <2>0, <2>4
    <3>3. g[i] = f[i] + (IF k <= i THEN x ELSE 0)
      BY <2>1, <2>2, <3>1, <3>2
    <3>. QED BY <2>0, <3>3
  <2>. QED BY <2>3, <2>4
<1>6. n \in S
  <2>1. \A i \in 0..n : i \in S
    <3> HIDE DEF S, n
    <3>. QED BY <1>0, <1>4, <1>5, UpTo
  <2>2. n \in 0..n
    BY <1>0
  <2> HIDE DEF S, n
  <2>. QED BY <2>1, <2>2
<1>. QED BY <1>0, <1>1, <1>2, <1>6

LEMMA TotalOfZeros ==
  ASSUME NEW s \in Seq(Nat), \A i \in 1..Len(s) : s[i] = 0
  PROVE  Total(s) = 0
<1>0. Len(s) \in Nat
  OBVIOUS
<1>1. PICK f : Sums(s, f) /\ Total(s) = f[Len(s)]
  BY TotalIsLastSum
<1> DEFINE S == {i \in 0..Len(s) : f[i] = 0}
<1>2. 0 \in S
  BY <1>0, <1>1 DEF Sums
<1>3. ASSUME NEW i \in 1..Len(s), i - 1 \in S PROVE i \in S
  BY <1>1, <1>3 DEF Sums
<1>4. \A i \in 0..Len(s) : i \in S
  <2> HIDE DEF S
  <2>. QED BY <1>0, <1>2, <1>3, UpTo
<1>. QED BY <1>0, <1>1, <1>4

LEMMA TotalType ==
  ASSUME NEW s \in Seq(Nat)
  PROVE  Total(s) \in Nat
BY TotalAppend

\* The beginning of a sequence, one element longer.
LEMMA Longer ==
  ASSUME NEW T, NEW s \in Seq(T), NEW n \in 1..Len(s)
  PROVE  /\ SubSeq(s, 1, n) = Append(SubSeq(s, 1, n - 1), s[n])
         /\ SubSeq(s, 1, n) \in Seq(T) /\ SubSeq(s, 1, n - 1) \in Seq(T)
<1>1. Len(s) \in Nat /\ n \in Nat /\ n - 1 \in Nat
  OBVIOUS
<1>2. /\ SubSeq(s, 1, n) \in Seq(T) /\ Len(SubSeq(s, 1, n)) = n
      /\ \A i \in 1..n : SubSeq(s, 1, n)[i] = s[i]
  BY <1>1, SubSeqProperties
<1>3. /\ SubSeq(s, 1, n - 1) \in Seq(T) /\ Len(SubSeq(s, 1, n - 1)) = n - 1
      /\ \A i \in 1..(n - 1) : SubSeq(s, 1, n - 1)[i] = s[i]
  BY <1>1, SubSeqProperties
<1> DEFINE p == SubSeq(s, 1, n)
           q == SubSeq(s, 1, n - 1)
<1>4. s[n] \in T
  OBVIOUS
<1> HIDE DEF p, q
<1>5. /\ Append(q, s[n]) \in Seq(T) /\ Len(Append(q, s[n])) = n
      /\ \A i \in 1..n : Append(q, s[n])[i] = s[i]
  BY <1>1, <1>3, <1>4, AppendProperties DEF q
<1>6. p = Append(q, s[n])
  BY <1>2, <1>5, SeqEqual DEF p
<1>. QED BY <1>2, <1>3, <1>6 DEF p, q

LEMMA WholeSequence ==
  ASSUME NEW T, NEW s \in Seq(T)
  PROVE  SubSeq(s, 1, Len(s)) = s /\ SubSeq(s, 1, 0) = <<>>
<1>1. Len(s) \in Nat
  OBVIOUS
<1>2. /\ SubSeq(s, 1, Len(s)) \in Seq(T) /\ Len(SubSeq(s, 1, Len(s))) = Len(s)
      /\ \A i \in 1..Len(s) : SubSeq(s, 1, Len(s))[i] = s[i]
  BY <1>1, SubSeqProperties
<1>3. SubSeq(s, 1, 0) \in Seq(T) /\ Len(SubSeq(s, 1, 0)) = 0
  BY <1>1, SubSeqProperties
<1>. QED BY <1>2, <1>3, SeqEqual, EmptySeq

-----------------------------------------------------------------------------
(* The plan.                                                               *)

LEMMA Constants ==
  /\ workerCount \in Nat \ {0} /\ accountCount \in Nat \ {0}
  /\ activeUserCount \in Nat \ {0} /\ operationsPerUser \in Nat \ {0}
  /\ concurrency \in Nat \ {0} /\ customRequestCount \in Nat \ {0}
  /\ dailyRequestCount \in Nat
  /\ capacityStart \in Nat /\ capacityStep \in Nat \ {0} /\ capacityMax \in Nat
  /\ capacityStageSeconds \in Nat /\ historyEventsPerAccount \in Nat \ {0}
  /\ seedBatchSize \in Nat \ {0}
  /\ seed \in Nat /\ snapshotBenchmarkRequests \in Nat
  /\ snapshotBenchmarkHistoryEventsPerAccount \in Nat
BY HttpLoadAssumption

LEMMA Remainders ==
  ASSUME NEW n \in Nat, NEW m \in Nat \ {0}
  PROVE  n % m \in 0..(m - 1) /\ n \div m \in Nat
OBVIOUS

LEMMA Products ==
  ASSUME NEW m \in Nat, NEW n \in Nat
  PROVE  m * n \in Nat
OBVIOUS

LEMMA TotalOfOne ==
  ASSUME NEW x \in Nat
  PROVE  <<x>> \in Seq(Nat) /\ Len(<<x>>) = 1 /\ Total(<<x>>) = x
<1>1. <<>> \in Seq(Nat) /\ <<x>> \in Seq(Nat) /\ Len(<<x>>) = 1
  OBVIOUS
<1>2. <<x>> = Append(<<>>, x)
  BY <1>1
<1>3. Total(Append(<<>>, x)) = Total(<<>>) + x
  <2>1. \A s \in Seq(Nat) : Total(Append(s, x)) = Total(s) + x
    BY TotalAppend
  <2>. QED BY <1>1, <2>1
<1>4. Total(<<>>) + x = x
  BY TotalEmpty
<1>5. Total(<<x>>) = Total(Append(<<>>, x))
  BY <1>2
<1>. QED BY <1>1, <1>3, <1>4, <1>5

LEMMA DailyPlan ==
  ASSUME NEW n \in Nat
  PROVE  DailyCounts(n) \in Seq(Nat) /\ Len(DailyCounts(n)) = 3 /\ Total(DailyCounts(n)) = n
<1> DEFINE x == n \div 10
           y == (8 * n) \div 10
           z == n - x - y
<1>1. x \in Nat /\ y \in Nat /\ z \in Nat
  OBVIOUS
<1>2. x + y + z = n
  BY <1>1
<1>3. DailyCounts(n) = <<x, y, z>>
  BY DEF DailyCounts
<1> HIDE DEF x, y, z
<1>4. <<x, y, z>> \in Seq(Nat) /\ Len(<<x, y, z>>) = 3
  BY <1>1
<1>5. /\ <<x>> \in Seq(Nat) /\ <<x, y>> \in Seq(Nat)
      /\ <<x, y>> = Append(<<x>>, y) /\ <<x, y, z>> = Append(<<x, y>>, z)
  BY <1>1
<1>6. \A s \in Seq(Nat) : /\ Total(Append(s, y)) = Total(s) + y
                           /\ Total(Append(s, z)) = Total(s) + z
  BY <1>1, TotalAppend
<1>7. Total(Append(<<x>>, y)) = x + y
  <2>1. Total(<<x>>) = x
    BY <1>1, TotalOfOne
  <2>. QED BY <1>5, <1>6, <2>1
<1>8. Total(<<x, y, z>>) = x + y + z
  <2>1. Total(Append(<<x, y>>, z)) = Total(<<x, y>>) + z
    BY <1>5, <1>6
  <2>2. Total(<<x, y>>) = x + y
    BY <1>5, <1>7
  <2>. QED BY <1>5, <2>1, <2>2
<1>. QED BY <1>2, <1>3, <1>4, <1>8

LEMMA CapacityPlan ==
  CapacityStages \in Nat \ {0} /\ CapacityCounts \in Seq(Nat) /\ Len(CapacityCounts) = CapacityStages
<1>1. capacityMax - capacityStart \in Nat
  BY Constants, HttpLoadAssumption
<1>2. (capacityMax - capacityStart) \div capacityStep \in Nat
  BY <1>1, Constants, Remainders
<1>3. CapacityStages \in Nat \ {0}
  BY <1>2 DEF CapacityStages
<1>4. ASSUME NEW i \in 1..CapacityStages
      PROVE  (capacityStart + (i - 1) * capacityStep) * capacityStageSeconds \in Nat
  <2>1. i - 1 \in Nat /\ capacityStep \in Nat
    BY <1>3, Constants
  <2>2. (i - 1) * capacityStep \in Nat
    BY <2>1, Products
  <2>3. capacityStart + (i - 1) * capacityStep \in Nat
    BY <2>2, Constants
  <2>. QED BY <2>3, Constants, Products
<1>5. CapacityCounts \in [1..CapacityStages -> Nat]
  BY <1>4 DEF CapacityCounts
<1>. QED BY <1>3, <1>5

\* The phases divide the configured requests.
LEMMA Planned ==
  ASSUME NEW p \in Profiles
  PROVE  /\ createTrafficPhases(p) \in Seq(Nat)
         /\ Len(createTrafficPhases(p)) \in Nat \ {0}
         /\ Total(createTrafficPhases(p)) = RequestCount(p)
         /\ RequestCount(p) \in Nat
<1>1. CASE p = "custom"
  <2> DEFINE n == customRequestCount
  <2>1. n \in Nat /\ createTrafficPhases(p) = <<n>> /\ RequestCount(p) = n
    BY <1>1, Constants DEF createTrafficPhases, RequestCount
  <2> HIDE DEF n
  <2>2. <<n>> \in Seq(Nat) /\ Len(<<n>>) = 1 /\ Total(<<n>>) = n
    BY <2>1, TotalOfOne
  <2>. QED BY <2>1, <2>2
<1>2. CASE p = "daily"
  <2> DEFINE n == IF dailyRequestCount # 0 THEN dailyRequestCount
                  ELSE activeUserCount * operationsPerUser
  <2>1. n \in Nat
    BY Constants, Products
  <2>2. createTrafficPhases(p) = DailyCounts(n) /\ RequestCount(p) = n
    BY <1>2 DEF createTrafficPhases, RequestCount
  <2> HIDE DEF n
  <2>. QED BY <2>1, <2>2, DailyPlan
<1>3. CASE p = "capacity"
  <2>1. createTrafficPhases(p) = CapacityCounts /\ RequestCount(p) = Total(CapacityCounts)
    BY <1>3 DEF createTrafficPhases, RequestCount
  <2>. QED BY <2>1, CapacityPlan, TotalType
<1>. QED BY <1>1, <1>2, <1>3, HttpLoadAssumption

Offset(plan, i) == Total(SubSeq(plan, 1, i - 1))

LEMMA Offsets ==
  ASSUME NEW plan \in Seq(Nat), NEW i \in 1..Len(plan)
  PROVE  /\ Offset(plan, i) \in Nat /\ plan[i] \in Nat
         /\ Offset(plan, 1) = 0
         /\ Offset(plan, i + 1) = Offset(plan, i) + plan[i]
         /\ Offset(plan, Len(plan) + 1) = Total(plan)
<1>1. Len(plan) \in Nat /\ i \in Nat /\ (i + 1) - 1 = i /\ (Len(plan) + 1) - 1 = Len(plan)
      /\ plan[i] \in Nat
  OBVIOUS
<1>2. /\ SubSeq(plan, 1, i) = Append(SubSeq(plan, 1, i - 1), plan[i])
      /\ SubSeq(plan, 1, i - 1) \in Seq(Nat)
  BY Longer
<1>3. SubSeq(plan, 1, Len(plan)) = plan /\ SubSeq(plan, 1, 0) = <<>>
  BY WholeSequence
<1>4. Total(SubSeq(plan, 1, i)) = Total(SubSeq(plan, 1, i - 1)) + plan[i]
      /\ Total(SubSeq(plan, 1, i - 1)) \in Nat
  BY <1>1, <1>2, TotalAppend
<1>5. Offset(plan, 1) = 0
  <2>1. 1 - 1 = 0
    OBVIOUS
  <2>. QED BY <1>3, <2>1, TotalEmpty DEF Offset
<1>. QED BY <1>1, <1>3, <1>4, <1>5 DEF Offset

LEMMA OffsetsBounded ==
  ASSUME NEW plan \in Seq(Nat), NEW i \in 1..Len(plan)
  PROVE  Offset(plan, i + 1) <= Total(plan)
<1> DEFINE n == Len(plan)
           S == {k \in 0..n : k < n => Offset(plan, (n - k) + 1) <= Total(plan)}
<1>0. n \in Nat /\ n # 0 /\ i \in Nat /\ i <= n /\ 1 <= i /\ n \in 1..n
  OBVIOUS
<1>1. \A k \in 1..n : /\ Offset(plan, k) \in Nat /\ plan[k] \in Nat
                      /\ Offset(plan, k + 1) = Offset(plan, k) + plan[k]
                      /\ Offset(plan, n + 1) = Total(plan)
  BY Offsets
<1>2. Total(plan) \in Nat
  BY TotalType
<1> HIDE DEF n
<1>3. 0 \in S
  <2>1. (n - 0) + 1 = n + 1 /\ 0 \in 0..n
    BY <1>0
  <2>2. Offset(plan, n + 1) = Total(plan)
    BY <1>0, <1>1
  <2>. QED BY <1>2, <2>1, <2>2
<1>4. ASSUME NEW k \in 1..n, k - 1 \in S PROVE k \in S
  <2>1. CASE k = n
    BY <1>0, <2>1
  <2>2. CASE k < n
    <3>1. k - 1 < n /\ (n - (k - 1)) + 1 = ((n - k) + 1) + 1 /\ (n - k) + 1 \in 1..n
          /\ k \in 0..n
      BY <1>0, <2>2
    <3>2. Offset(plan, ((n - k) + 1) + 1) <= Total(plan)
      BY <1>4, <3>1
    <3>3. /\ Offset(plan, (n - k) + 1) \in Nat /\ plan[(n - k) + 1] \in Nat
          /\ Offset(plan, ((n - k) + 1) + 1) = Offset(plan, (n - k) + 1) + plan[(n - k) + 1]
      BY <1>1, <3>1
    <3>. QED BY <1>2, <3>1, <3>2, <3>3
  <2>. QED BY <1>0, <2>1, <2>2
<1>5. \A k \in 0..n : k \in S
  <2> HIDE DEF S
  <2>. QED BY <1>0, <1>3, <1>4, UpTo
<1>6. n - i \in 0..n /\ n - i < n /\ (n - (n - i)) + 1 = i + 1
  BY <1>0
<1>. QED BY <1>5, <1>6

-----------------------------------------------------------------------------
(* The lanes and what they record.                                         *)

Preparing == {"database", "seed", "start", "benchmark"}
Stages == Preparing \cup {"traffic", "verify", "ended"}
LaneRecords == [state : {"done", "next", "send", "waiting"}, op : Nat, attempt : Nat]

TrafficTypes ==
  /\ profile \in Profiles
  /\ pc \in Stages
  /\ phase \in 1..Len(createTrafficPhases(profile))
  /\ nextOperation \in Nat
  /\ lanes \in [Lanes -> LaneRecords]
  /\ recorded \in [Operations -> Nat]

Busy(l) == lanes[l].state \in {"send", "waiting"}
\* The operations some lane has taken.
Taken(o) ==
  o < PhaseOffset + PhaseCount /\ o < PhaseOffset + nextOperation

LaneInv ==
  /\ \A l \in Lanes : Busy(l) =>
       /\ lanes[l].op \in Operations
       /\ PhaseOffset <= lanes[l].op
       /\ Taken(lanes[l].op)
       /\ recorded[lanes[l].op] = 0
  /\ \A l, m \in Lanes : Busy(l) /\ Busy(m) /\ lanes[l].op = lanes[m].op => l = m

RecordInv ==
  /\ \A o \in Operations : recorded[o] \in {0, 1}
  /\ \A o \in Operations : recorded[o] = 1 => Taken(o)
  /\ \A o \in Operations :
       Taken(o) /\ recorded[o] = 0 => \E l \in Lanes : Busy(l) /\ lanes[l].op = o
  /\ \A o \in Operations : o < PhaseOffset => recorded[o] = 1

StageInv ==
  /\ pc # "traffic" => \A l \in Lanes : lanes[l].state = "done"
  /\ pc \in Preparing => phase = 1 /\ nextOperation = 0
  /\ pc = "traffic" /\ lanes[1].state = "done" => nextOperation >= PhaseCount
  /\ pc = "verify" => \A o \in Operations : recorded[o] = 1

TrafficInv == TrafficTypes /\ LaneInv /\ RecordInv /\ StageInv

LEMMA PhaseFacts ==
  ASSUME TrafficTypes
  PROVE  /\ RequestCount(profile) \in Nat
         /\ PhaseOffset \in Nat /\ PhaseCount \in Nat
         /\ PhaseOffset + PhaseCount <= RequestCount(profile)
         /\ phase = 1 => PhaseOffset = 0
         /\ phase = Len(createTrafficPhases(profile)) =>
              PhaseOffset + PhaseCount = RequestCount(profile)
         /\ \A o \in Operations : o \in Nat
<1> DEFINE plan == createTrafficPhases(profile)
<1>1. /\ plan \in Seq(Nat) /\ Len(plan) \in Nat \ {0}
      /\ Total(plan) = RequestCount(profile) /\ RequestCount(profile) \in Nat
  BY Planned DEF TrafficTypes
<1>2. phase \in 1..Len(plan)
  BY DEF TrafficTypes
<1>3. PhaseOffset = Offset(plan, phase) /\ PhaseCount = plan[phase]
  BY DEF PhaseOffset, PhaseCount, Offset
<1> HIDE DEF plan
<1>4. /\ Offset(plan, phase) \in Nat /\ plan[phase] \in Nat
      /\ Offset(plan, 1) = 0
      /\ Offset(plan, phase + 1) = Offset(plan, phase) + plan[phase]
      /\ Offset(plan, Len(plan) + 1) = Total(plan)
      /\ Offset(plan, phase + 1) <= Total(plan)
  BY <1>1, <1>2, Offsets, OffsetsBounded
<1>. QED BY <1>1, <1>3, <1>4 DEF Operations, plan

\* The offset of the next phase.
LEMMA NextPhase ==
  ASSUME TrafficTypes, profile' = profile, phase' = phase + 1,
         phase < Len(createTrafficPhases(profile))
  PROVE  PhaseOffset' = PhaseOffset + PhaseCount /\ PhaseCount' \in Nat
<1> DEFINE plan == createTrafficPhases(profile)
<1>1. plan \in Seq(Nat) /\ Len(plan) \in Nat \ {0}
  BY Planned DEF TrafficTypes
<1>2. phase \in 1..Len(plan) /\ phase + 1 \in 1..Len(plan)
  BY <1>1 DEF TrafficTypes
<1>3. /\ PhaseOffset = Offset(plan, phase) /\ PhaseCount = plan[phase]
      /\ PhaseOffset' = Offset(plan, phase + 1) /\ PhaseCount' = plan[phase + 1]
  BY DEF PhaseOffset, PhaseCount, Offset
<1> HIDE DEF plan
<1>. QED BY <1>1, <1>2, <1>3, Offsets

LEMMA SamePhase ==
  ASSUME profile' = profile, phase' = phase
  PROVE  /\ PhaseOffset' = PhaseOffset /\ PhaseCount' = PhaseCount
         /\ Operations' = Operations
BY DEF PhaseOffset, PhaseCount, Operations

LEMMA InitTraffic == Init => TrafficInv
<1> SUFFICES ASSUME Init PROVE TrafficInv
  OBVIOUS
<1>1. TrafficTypes
  <2>1. phase \in 1..Len(createTrafficPhases(profile)) /\ profile \in Profiles
    BY Planned DEF Init
  <2>2. IdleLane \in LaneRecords
    BY DEF IdleLane, LaneRecords
  <2>. QED BY <2>1, <2>2 DEF Init, TrafficTypes, Stages, Preparing, Idle
<1>2. /\ \A l \in Lanes : lanes[l].state = "done"
      /\ \A o \in Operations : recorded[o] = 0
  BY DEF Init, Idle, IdleLane
<1>3. PhaseOffset = 0 /\ nextOperation = 0 /\ pc = "database" /\ phase = 1
  BY <1>1, PhaseFacts DEF Init
<1>4. \A o \in Operations : ~Taken(o) /\ ~(o < PhaseOffset)
  BY <1>1, <1>3, PhaseFacts DEF Taken
<1>. QED BY <1>1, <1>2, <1>3, <1>4
     DEF TrafficInv, LaneInv, RecordInv, StageInv, Busy, Preparing

\* Steps that leave the traffic alone.
LEMMA TrafficStands ==
  ASSUME TrafficInv, UNCHANGED <<profile, traffic, recorded>>,
         \/ pc' = pc
         \/ pc # "traffic" /\ (pc' = "ended" \/ (pc \in Preparing /\ pc' \in Preparing))
  PROVE  TrafficInv' /\ \A o : Taken(o)' <=> Taken(o)
<1>1. /\ phase' = phase /\ nextOperation' = nextOperation /\ lanes' = lanes
      /\ recorded' = recorded /\ profile' = profile
  BY DEF traffic
<1>2. /\ PhaseOffset' = PhaseOffset /\ PhaseCount' = PhaseCount
      /\ Operations' = Operations
  BY <1>1, SamePhase
<1>3. \A o : Taken(o)' <=> Taken(o)
  BY <1>1, <1>2 DEF Taken
<1>4. \A l : Busy(l)' <=> Busy(l)
  BY <1>1 DEF Busy
<1>5. TrafficTypes'
  BY <1>1, <1>2 DEF TrafficInv, TrafficTypes, Stages
<1>6. LaneInv' /\ RecordInv'
  BY <1>1, <1>2, <1>3, <1>4 DEF TrafficInv, LaneInv, RecordInv
<1>7. StageInv'
  BY <1>1, <1>2 DEF TrafficInv, StageInv, Preparing
<1>. QED BY <1>3, <1>5, <1>6, <1>7 DEF TrafficInv

Quiet ==
  \/ DatabaseStarts \/ Seed \/ StatementFails \/ StartWorkers \/ AllReady
  \/ MeasureSnapshotRead \/ BenchmarkFails \/ Verify
  \/ ReadyTimeoutPasses \/ RunDeadline \/ \E r \in Replicas : Replica(r)

LEMMA QuietEffect ==
  ASSUME Quiet
  PROVE  /\ UNCHANGED <<profile, traffic, records>>
         /\ \/ pc' = pc
            \/ pc # "traffic" /\ (pc' = "ended" \/ (pc \in Preparing /\ pc' \in Preparing))
<1> USE DEF Preparing
<1>1. CASE DatabaseStarts
  BY <1>1 DEF DatabaseStarts
<1>2. CASE Seed
  BY <1>2 DEF Seed, driver
<1>3. CASE StatementFails
  BY <1>3 DEF StatementFails, End
<1>4. CASE StartWorkers
  BY <1>4 DEF StartWorkers
<1>5. CASE AllReady
  BY <1>5 DEF AllReady
<1>6. CASE MeasureSnapshotRead
  BY <1>6 DEF MeasureSnapshotRead
<1>7. CASE BenchmarkFails
  BY <1>7 DEF BenchmarkFails, End
<1>8. CASE Verify
  BY <1>8 DEF Verify, End
<1>9. CASE ReadyTimeoutPasses
  BY <1>9 DEF ReadyTimeoutPasses
<1>10. CASE RunDeadline
  BY <1>10 DEF RunDeadline
<1>11. ASSUME NEW r \in Replicas, Listen(r) \/ Exit(r)
       PROVE  /\ UNCHANGED <<profile, traffic, records>>
              /\ pc' = pc \/ (pc # "traffic" /\ pc' = "ended")
  BY <1>11 DEF Listen, Exit, End
<1>12. ASSUME NEW q \in requests, HandleLoad(q) \/ HandleAppend(q) \/ HandleFails(q)
       PROVE  UNCHANGED <<profile, traffic, records>> /\ pc' = pc
  BY <1>12 DEF HandleLoad, HandleAppend, HandleFails, unchangedByReplicas, driver
<1>. QED BY <1>1, <1>2, <1>3, <1>4, <1>5, <1>6, <1>7, <1>8, <1>9, <1>10, <1>11, <1>12
     DEF Quiet, Replica

LEMMA StartLanesType ==
  ASSUME NEW p
  PROVE  /\ StartLanes(p) \in [Lanes -> LaneRecords]
         /\ \A l \in Lanes : StartLanes(p)[l].state \in {"next", "done"}
         /\ \A l \in Lanes : StartLanes(p)[l].state = "done" =>
              ~(l <= createTrafficPhases(profile)[p])
BY DEF StartLanes, IdleLane, LaneRecords

\* The lanes of a phase set out.
LEMMA PhaseStarts ==
  ASSUME TrafficInv, profile' = profile, recorded' = recorded,
         phase' \in 1..Len(createTrafficPhases(profile)), nextOperation' = 0,
         lanes' = StartLanes(phase'), pc' = "traffic",
         PhaseCount' \in Nat, PhaseOffset' \in Nat,
         \A o \in Operations : o < PhaseOffset' <=> recorded[o] = 1
  PROVE  TrafficInv'
<1>1. Operations' = Operations /\ 1 \in Lanes
  BY Constants DEF Operations, Lanes
<1>2. /\ lanes' \in [Lanes -> LaneRecords]
      /\ \A l \in Lanes : ~Busy(l)'
      /\ lanes'[1].state = "done" => ~(1 <= PhaseCount')
  BY <1>1, StartLanesType DEF Busy, PhaseCount
<1>3. \A o \in Operations : Taken(o)' <=> o < PhaseOffset'
  <2>1. \A o \in Operations : o \in Nat
    BY PhaseFacts DEF TrafficInv
  <2>. QED BY <2>1 DEF Taken
<1>4. TrafficTypes'
  BY <1>1, <1>2 DEF TrafficInv, TrafficTypes, Stages
<1>5. LaneInv'
  BY <1>2 DEF LaneInv
<1>6. RecordInv'
  BY <1>1, <1>3 DEF TrafficInv, RecordInv
<1>7. StageInv'
  BY <1>2 DEF StageInv, Preparing
<1>. QED BY <1>4, <1>5, <1>6, <1>7 DEF TrafficInv

LEMMA BenchmarkEndsTraffic ==
  ASSUME TrafficInv, BenchmarkEnds
  PROVE  TrafficInv'
<1>1. /\ profile' = profile /\ recorded' = recorded /\ phase' = phase
      /\ nextOperation' = nextOperation /\ pc = "benchmark" /\ pc' = "traffic"
      /\ lanes' = StartLanes(1)
  BY DEF BenchmarkEnds, records
<1>2. phase = 1 /\ nextOperation = 0 /\ \A l \in Lanes : ~Busy(l)
  BY <1>1 DEF TrafficInv, StageInv, Preparing, Busy
<1>3. PhaseOffset' = 0 /\ PhaseCount' \in Nat
  BY <1>1, <1>2, PhaseFacts, SamePhase DEF TrafficInv
<1>4. \A o \in Operations : recorded[o] # 1 /\ ~(o < 0)
  BY <1>2, <1>1, PhaseFacts DEF TrafficInv, RecordInv, Taken
<1>5. phase' \in 1..Len(createTrafficPhases(profile))
  BY <1>1 DEF TrafficInv, TrafficTypes
<1>. QED BY <1>1, <1>2, <1>3, <1>4, <1>5, PhaseStarts

\* When the lanes have all returned, the operations of the phase are recorded.
LEMMA PhaseDone ==
  ASSUME TrafficInv, pc = "traffic", \A l \in Lanes : lanes[l].state = "done"
  PROVE  \A o \in Operations : recorded[o] = 1 <=> o < PhaseOffset + PhaseCount
<1>1. 1 \in Lanes
  BY Constants DEF Lanes
<1>2. nextOperation >= PhaseCount
  BY <1>1 DEF TrafficInv, StageInv
<1>3. \A o \in Operations : Taken(o) <=> o < PhaseOffset + PhaseCount
  BY <1>2, PhaseFacts DEF Taken, TrafficInv, TrafficTypes
<1>. QED BY <1>3 DEF TrafficInv, RecordInv, Busy

LEMMA PhaseEndsTraffic ==
  ASSUME TrafficInv, PhaseEnds
  PROVE  TrafficInv'
<1>1. /\ profile' = profile /\ recorded' = recorded /\ pc = "traffic"
      /\ \A l \in Lanes : lanes[l].state = "done"
  BY DEF PhaseEnds, records
<1>2. \A o \in Operations : recorded[o] = 1 <=> o < PhaseOffset + PhaseCount
  BY <1>1, PhaseDone
<1>3. CASE phase < Len(createTrafficPhases(profile))
  <2>1. /\ phase' = phase + 1 /\ nextOperation' = 0 /\ pc' = "traffic"
        /\ lanes' = StartLanes(phase + 1)
    BY <1>1, <1>3 DEF PhaseEnds
  <2>2. PhaseOffset' = PhaseOffset + PhaseCount /\ PhaseCount' \in Nat
    BY <1>1, <1>3, <2>1, NextPhase DEF TrafficInv
  <2>3. PhaseOffset + PhaseCount \in Nat
    BY PhaseFacts DEF TrafficInv
  <2>4. phase' \in 1..Len(createTrafficPhases(profile))
    <3>1. Len(createTrafficPhases(profile)) \in Nat
      BY Planned DEF TrafficInv, TrafficTypes
    <3>. QED BY <1>3, <2>1, <3>1 DEF TrafficInv, TrafficTypes
  <2>. QED BY <1>1, <1>2, <2>1, <2>2, <2>3, <2>4, PhaseStarts
<1>4. CASE ~(phase < Len(createTrafficPhases(profile)))
  <2>1. UNCHANGED traffic /\ pc' \in {"ended", "verify"}
    BY <1>4 DEF PhaseEnds, End
  <2>2. /\ phase' = phase /\ nextOperation' = nextOperation /\ lanes' = lanes
    BY <2>1 DEF traffic
  <2>3. \A o \in Operations : recorded[o] = 1
    <3>1. phase = Len(createTrafficPhases(profile))
      <4>1. Len(createTrafficPhases(profile)) \in Nat
        BY Planned DEF TrafficInv, TrafficTypes
      <4>. QED BY <1>4, <4>1 DEF TrafficInv, TrafficTypes
    <3>2. PhaseOffset + PhaseCount = RequestCount(profile) /\ RequestCount(profile) \in Nat
      BY <3>1, PhaseFacts DEF TrafficInv
    <3>. QED BY <1>2, <3>2 DEF Operations
  <2>4. /\ PhaseOffset' = PhaseOffset /\ PhaseCount' = PhaseCount
        /\ Operations' = Operations
    BY <1>1, <2>2, SamePhase
  <2>5. \A o : Taken(o)' <=> Taken(o)
    BY <2>2, <2>4 DEF Taken
  <2>6. TrafficTypes'
    BY <1>1, <2>1, <2>2, <2>4 DEF TrafficInv, TrafficTypes, Stages
  <2>7. LaneInv' /\ RecordInv'
    BY <1>1, <2>2, <2>4, <2>5 DEF TrafficInv, LaneInv, RecordInv, Busy
  <2>8. StageInv'
    BY <1>1, <2>1, <2>2, <2>3, <2>4 DEF StageInv, Preparing
  <2>. QED BY <2>6, <2>7, <2>8 DEF TrafficInv
<1>. QED BY <1>3, <1>4


-----------------------------------------------------------------------------
(* The steps of the lanes.                                                 *)

\* A lane has one request at most, for the operation it waits for.
ClientInv ==
  /\ \A q \in requests : q.client # 0 =>
       /\ q.client \in Lanes
       /\ lanes[q.client].state = "waiting" /\ lanes[q.client].op = q.op
  /\ \A q, r \in requests : q.client # 0 /\ q.client = r.client => q = r

\* The steps of a lane are in the traffic, and leave its phase as it is.
LEMMA LaneWorks ==
  ASSUME TrafficInv, ClientInv, NEW l \in Lanes, Lane(l)
  PROVE  /\ pc = "traffic"
         /\ profile' = profile /\ accounts' = accounts /\ pc' = pc /\ phase' = phase
         /\ outcome' = outcome /\ replica' = replica
<1>1. l # 0
  BY DEF Lanes
<1>2. lanes[l].state # "done" /\ UNCHANGED <<unchangedByLanes, phase>>
  <2>1. CASE Take(l)
    BY <2>1 DEF Take
  <2>2. CASE Send(l)
    BY <2>2 DEF Send
  <2>3. CASE ConnectionFails(l)
    BY <2>3 DEF ConnectionFails
  <2>4. CASE Timeout(l)
    BY <2>4 DEF Timeout
  <2>5. CASE Receive(l)
    BY <1>1, <2>5 DEF Receive, ClientInv
  <2>. QED BY <2>1, <2>2, <2>3, <2>4, <2>5 DEF Lane
<1>. QED BY <1>2 DEF TrafficInv, StageInv, unchangedByLanes, driver

LEMMA TakeTraffic ==
  ASSUME TrafficInv, NEW l \in Lanes, Take(l), pc = "traffic",
         profile' = profile, pc' = pc, phase' = phase
  PROVE  /\ TrafficInv'
         /\ \A o \in Operations : Taken(o) => Taken(o)'
         /\ Busy(l)' => lanes'[l].op \in Operations /\ ~Taken(lanes'[l].op)
<1>1. /\ nextOperation' = nextOperation + 1 /\ recorded' = recorded
      /\ lanes[l].state = "next"
  BY DEF Take, records
<1>2. /\ PhaseOffset \in Nat /\ PhaseCount \in Nat /\ nextOperation \in Nat
      /\ PhaseOffset + PhaseCount <= RequestCount(profile)
      /\ RequestCount(profile) \in Nat
      /\ \A o \in Operations : o \in Nat
  BY PhaseFacts DEF TrafficInv, TrafficTypes
<1>3. /\ PhaseOffset' = PhaseOffset /\ PhaseCount' = PhaseCount
      /\ Operations' = Operations
  BY SamePhase
<1>4. \A o \in Operations : Taken(o) => Taken(o)'
  BY <1>1, <1>2, <1>3 DEF Taken
<1>5. ~Busy(l)
  BY <1>1 DEF Busy
<1>6. CASE nextOperation >= PhaseCount
  <2>1. lanes' = [lanes EXCEPT ![l].state = "done"]
    BY <1>6 DEF Take
  <2>2. /\ lanes' \in [Lanes -> LaneRecords]
        /\ \A m \in Lanes : lanes'[m].op = lanes[m].op
        /\ \A m \in Lanes : m # l => lanes'[m] = lanes[m]
        /\ lanes'[l].state = "done"
    BY <2>1 DEF TrafficInv, TrafficTypes, LaneRecords
  <2>3. \A m \in Lanes : Busy(m)' <=> Busy(m)
    BY <1>5, <2>2 DEF Busy
  <2>4. \A o \in Operations : Taken(o)' <=> Taken(o)
    BY <1>1, <1>2, <1>3, <1>6 DEF Taken
  <2>5. TrafficTypes'
    BY <1>1, <1>2, <1>3, <2>2 DEF TrafficInv, TrafficTypes
  <2>6. LaneInv'
    BY <1>1, <1>3, <2>2, <2>3, <2>4 DEF TrafficInv, LaneInv
  <2>7. RecordInv'
    BY <1>1, <1>3, <2>2, <2>3, <2>4 DEF TrafficInv, RecordInv
  <2>8. StageInv'
    BY <1>1, <1>2, <1>3, <1>6 DEF StageInv, Preparing
  <2>. QED BY <1>4, <1>5, <2>3, <2>5, <2>6, <2>7, <2>8 DEF TrafficInv
<1>7. CASE nextOperation < PhaseCount
  <2>0. PICK new \in Nat : new = PhaseOffset + nextOperation
    BY <1>2
  <2>1. lanes' = [lanes EXCEPT ![l] = [state |-> "send", op |-> new, attempt |-> 0]]
    <3>1. ~(nextOperation >= PhaseCount)
      BY <1>2, <1>7
    <3>. QED BY <2>0, <3>1 DEF Take
  <2>2. new \in Operations /\ new \in Nat
    BY <1>2, <1>7, <2>0 DEF Operations
  <2>3. /\ ~Taken(new)
        /\ \A o \in Operations : Taken(o)' <=> Taken(o) \/ o = new
    BY <1>1, <1>2, <1>3, <1>7, <2>0 DEF Taken
  <2>4. PhaseOffset <= new
    BY <1>2, <2>0
  <2>5. /\ lanes' \in [Lanes -> LaneRecords]
        /\ \A m \in Lanes : m # l => lanes'[m] = lanes[m]
        /\ lanes'[l].state = "send" /\ lanes'[l].op = new
    BY <2>1, <2>2 DEF TrafficInv, TrafficTypes, LaneRecords
  <2>6. /\ Busy(l)' /\ \A m \in Lanes : m # l => (Busy(m)' <=> Busy(m))
    BY <2>5 DEF Busy
  <2>7. TrafficTypes'
    BY <1>1, <1>2, <1>3, <2>5 DEF TrafficInv, TrafficTypes
  <2>8. recorded[new] = 0
    BY <2>2, <2>3 DEF TrafficInv, RecordInv
  <2>9. LaneInv'
    <3>1. ASSUME NEW m \in Lanes, Busy(m)'
          PROVE  /\ lanes'[m].op \in Operations /\ PhaseOffset <= lanes'[m].op
                 /\ Taken(lanes[m].op)' /\ recorded[lanes'[m].op] = 0
      <4>1. CASE m = l
        <5>1. Taken(new)'
          BY <2>2, <2>3
        <5>2. Taken(lanes[m].op)'
          BY <2>5, <4>1, <5>1 DEF Taken
        <5>. QED BY <2>2, <2>4, <2>5, <2>8, <4>1, <5>2
      <4>2. CASE m # l
        BY <1>4, <2>5, <2>6, <3>1, <4>2 DEF TrafficInv, LaneInv
      <4>. QED BY <4>1, <4>2
    <3>2. \A m \in Lanes : m # l /\ Busy(m) => lanes[m].op # new
      BY <2>3 DEF TrafficInv, LaneInv
    <3>3. \A m, k \in Lanes : Busy(m)' /\ Busy(k)' /\ lanes'[m].op = lanes'[k].op => m = k
      BY <2>5, <2>6, <3>2 DEF TrafficInv, LaneInv
    <3>. QED BY <1>1, <1>3, <3>1, <3>3 DEF LaneInv
  <2>10. RecordInv'
    <3>1. ASSUME NEW o \in Operations, Taken(o)', recorded[o] = 0
          PROVE  \E m \in Lanes : Busy(m)' /\ lanes'[m].op = o
      <4>1. CASE o = new
        BY <2>5, <2>6, <4>1
      <4>2. CASE o # new
        <5>1. PICK m \in Lanes : Busy(m) /\ lanes[m].op = o
          BY <2>3, <3>1, <4>2 DEF TrafficInv, RecordInv
        <5>. QED BY <1>5, <2>5, <2>6, <5>1
      <4>. QED BY <4>1, <4>2
    <3>. QED BY <1>1, <1>3, <1>4, <3>1 DEF TrafficInv, RecordInv
  <2>11. StageInv'
    <3>1. lanes'[1].state = "done" => nextOperation >= PhaseCount
      <4>1. 1 \in Lanes
        BY Constants DEF Lanes
      <4>. QED BY <2>5, <4>1 DEF TrafficInv, StageInv
    <3>. QED BY <1>1, <1>2, <1>3, <3>1 DEF StageInv, Preparing
  <2>. QED BY <1>4, <2>2, <2>3, <2>5, <2>7, <2>9, <2>10, <2>11 DEF TrafficInv
<1>. QED BY <1>2, <1>6, <1>7

\* A lane sends its operation, or is about to send it again.
LEMMA SendsTraffic ==
  ASSUME TrafficInv, NEW l \in Lanes, Busy(l), NEW lane \in LaneRecords,
         lane.state \in {"send", "waiting"}, lane.op = lanes[l].op,
         lanes' = [lanes EXCEPT ![l] = lane], nextOperation' = nextOperation,
         recorded' = recorded, pc = "traffic",
         profile' = profile, pc' = pc, phase' = phase
  PROVE  TrafficInv' /\ \A o : Taken(o)' <=> Taken(o)
<1>1. /\ PhaseOffset' = PhaseOffset /\ PhaseCount' = PhaseCount
      /\ Operations' = Operations
  BY SamePhase
<1>2. \A o : Taken(o)' <=> Taken(o)
  BY <1>1 DEF Taken
<1>3. /\ lanes' \in [Lanes -> LaneRecords]
      /\ \A m \in Lanes : lanes'[m].op = lanes[m].op
      /\ \A m \in Lanes : Busy(m)' <=> Busy(m)
      /\ \A m \in Lanes : lanes'[m].state = "done" => lanes[m].state = "done"
  BY DEF TrafficInv, TrafficTypes, Busy
<1>4. TrafficTypes'
  BY <1>1, <1>3 DEF TrafficInv, TrafficTypes
<1>5. LaneInv'
  BY <1>1, <1>2, <1>3 DEF TrafficInv, LaneInv
<1>6. RecordInv'
  BY <1>1, <1>2, <1>3 DEF TrafficInv, RecordInv
<1>7. StageInv'
  <2>1. 1 \in Lanes
    BY Constants DEF Lanes
  <2>. QED BY <1>1, <1>3, <2>1 DEF TrafficInv, StageInv, Preparing
<1>. QED BY <1>2, <1>4, <1>5, <1>6, <1>7 DEF TrafficInv

LEMMA RecordTraffic ==
  ASSUME TrafficInv, NEW l \in Lanes, Busy(l), NEW b \in BOOLEAN, Record(l, b),
         nextOperation' = nextOperation, pc = "traffic",
         profile' = profile, pc' = pc, phase' = phase
  PROVE  /\ TrafficInv' /\ \A o : Taken(o)' <=> Taken(o)
         /\ lanes[l].op \in Operations /\ recorded'[lanes[l].op] = 1
         /\ \A o \in Operations : o # lanes[l].op => recorded'[o] = recorded[o]
         /\ ~Busy(l)' /\ \A m \in Lanes : m # l => lanes'[m] = lanes[m]
<1> DEFINE op == lanes[l].op
<1>1. /\ PhaseOffset' = PhaseOffset /\ PhaseCount' = PhaseCount
      /\ Operations' = Operations
  BY SamePhase
<1>2. \A o : Taken(o)' <=> Taken(o)
  BY <1>1 DEF Taken
<1>3. /\ op \in Operations /\ PhaseOffset <= op /\ Taken(op) /\ recorded[op] = 0
      /\ \A m \in Lanes : Busy(m) /\ lanes[m].op = op => m = l
  BY DEF TrafficInv, LaneInv
<1>4. recorded' = [recorded EXCEPT ![op] = @ + 1]
  BY DEF Record
<1> DEFINE free == [state |-> "next", op |-> 0, attempt |-> 0]
<1>5. lanes' = [lanes EXCEPT ![l] = free]
  <2>1. [IdleLane EXCEPT !.state = "next"] = free
    BY DEF IdleLane
  <2>. QED BY <2>1 DEF Record
<1> HIDE DEF op
<1>6. /\ recorded' \in [Operations -> Nat] /\ recorded'[op] = 1
      /\ \A o \in Operations : o # op => recorded'[o] = recorded[o]
  BY <1>3, <1>4 DEF TrafficInv, TrafficTypes
<1>7. /\ lanes' \in [Lanes -> LaneRecords]
      /\ \A m \in Lanes : m # l => lanes'[m] = lanes[m]
      /\ lanes'[l].state = "next"
  BY <1>5 DEF TrafficInv, TrafficTypes, LaneRecords
<1>8. ~Busy(l)' /\ \A m \in Lanes : m # l => (Busy(m)' <=> Busy(m))
  BY <1>7 DEF Busy
<1>9. TrafficTypes'
  BY <1>1, <1>6, <1>7 DEF TrafficInv, TrafficTypes
<1>10. LaneInv'
  BY <1>1, <1>2, <1>3, <1>6, <1>7, <1>8 DEF TrafficInv, LaneInv
<1>11. RecordInv'
  <2>1. ASSUME NEW o \in Operations, Taken(o)', recorded'[o] = 0
        PROVE  \E m \in Lanes : Busy(m)' /\ lanes'[m].op = o
    <3>1. o # op /\ recorded[o] = 0 /\ Taken(o)
      BY <1>2, <1>6, <2>1
    <3>2. PICK m \in Lanes : Busy(m) /\ lanes[m].op = o
      BY <3>1 DEF TrafficInv, RecordInv
    <3>. QED BY <1>7, <1>8, <3>1, <3>2 DEF op
  <2>2. ~(op < PhaseOffset)
    BY <1>3, PhaseFacts DEF TrafficInv
  <2>. QED BY <1>1, <1>2, <1>3, <1>6, <2>1, <2>2 DEF TrafficInv, RecordInv
<1>12. StageInv'
  <2>1. 1 \in Lanes
    BY Constants DEF Lanes
  <2>. QED BY <1>1, <1>7, <2>1 DEF TrafficInv, StageInv, Preparing
<1>. QED BY <1>2, <1>3, <1>6, <1>7, <1>8, <1>9, <1>10, <1>11, <1>12 DEF TrafficInv, op

\* The traffic stands in every step.
LEMMA TrafficStep ==
  ASSUME TrafficInv, ClientInv, [Next]_vars
  PROVE  TrafficInv'
<1>1. ASSUME UNCHANGED vars PROVE TrafficInv'
  BY <1>1, TrafficStands DEF vars, records, driver
<1>2. ASSUME Quiet PROVE TrafficInv'
  BY <1>2, QuietEffect, TrafficStands DEF records
<1>3. ASSUME NEW l \in Lanes, Lane(l) PROVE TrafficInv'
  <2>1. /\ pc = "traffic" /\ profile' = profile /\ pc' = pc /\ phase' = phase
    BY <1>3, LaneWorks
  <2>2. CASE Take(l)
    BY <2>1, <2>2, TakeTraffic
  <2>3. lanes[l] \in LaneRecords
    BY DEF TrafficInv, TrafficTypes
  <2>4. CASE Send(l)
    <3>1. Busy(l) /\ recorded' = recorded /\ nextOperation' = nextOperation
      BY <2>4 DEF Send, Busy, records
    <3> DEFINE lane == [lanes[l] EXCEPT !.state = "waiting"]
    <3>2. lane \in LaneRecords /\ lane.state = "waiting" /\ lane.op = lanes[l].op
      BY <2>3 DEF LaneRecords
    <3>3. lanes' = [lanes EXCEPT ![l] = lane]
      BY <2>4 DEF Send
    <3> HIDE DEF lane
    <3>. QED BY <2>1, <3>1, <3>2, <3>3, SendsTraffic
  <2>5. CASE ConnectionFails(l)
    BY <2>1, <2>5, RecordTraffic DEF ConnectionFails, Busy
  <2>6. CASE Timeout(l)
    BY <2>1, <2>6, RecordTraffic DEF Timeout, Busy
  <2>7. CASE Receive(l)
    <3>1. PICK q \in requests :
            /\ q.client = l /\ nextOperation' = nextOperation
            /\ \/ /\ lanes' = [lanes EXCEPT ![l] = [state |-> "send", op |-> @.op,
                                                     attempt |-> @.attempt + 1]]
                  /\ UNCHANGED records
               \/ Record(l, ValidResponse(q))
      BY <2>7 DEF Receive
    <3>2. Busy(l)
      BY <3>1 DEF ClientInv, Lanes, Busy
    <3>3. CASE UNCHANGED records
               /\ lanes' = [lanes EXCEPT ![l] = [state |-> "send", op |-> @.op,
                                                 attempt |-> @.attempt + 1]]
      <4> DEFINE lane == [state |-> "send", op |-> lanes[l].op,
                          attempt |-> lanes[l].attempt + 1]
      <4>1. lane \in LaneRecords /\ lane.state = "send" /\ lane.op = lanes[l].op
        BY <2>3 DEF LaneRecords
      <4>2. lanes' = [lanes EXCEPT ![l] = lane] /\ recorded' = recorded
        BY <3>3 DEF records
      <4> HIDE DEF lane
      <4>. QED BY <2>1, <3>1, <3>2, <4>1, <4>2, SendsTraffic
    <3>4. CASE Record(l, ValidResponse(q))
      <4>1. PICK b \in BOOLEAN : b = ValidResponse(q)
        BY DEF ValidResponse
      <4>. QED BY <2>1, <3>1, <3>2, <3>4, <4>1, RecordTraffic
    <3>. QED BY <3>1, <3>3, <3>4
  <2>. QED BY <1>3, <2>2, <2>4, <2>5, <2>6, <2>7 DEF Lane
<1>. QED BY <1>1, <1>2, <1>3, BenchmarkEndsTraffic, PhaseEndsTraffic
     DEF Next, Prepare, Quiet, Ended

LEMMA TrafficIsRight == TrafficInv => EachOperationOnce
<1>. QED BY DEF TrafficInv, RecordInv, StageInv, EachOperationOnce, Taken

-----------------------------------------------------------------------------
(* Accounts: n operations are planned, and plan gives each of them.        *)

Plans(n) ==
  [0..(n - 1) -> [kind : {"read", "deposit"}, account : Accounts, amount : Nat]]

Tokens ==
  {<<>>} \cup {SeedToken(a, i) : a \in Nat, i \in Nat} \cup {LiveToken(o) : o \in Nat}
Events ==
  [type : {"AccountOpened", "MoneyDeposited", "Snapshot"}, token : Tokens, amount : Nat]

History(a) == getHistoryEventCount(a)
IsSeed(a, v, event) ==
  event = IF v = 1 THEN Opened(a) ELSE Deposited(SeedToken(a, v - 1), 1)
DepositOf(o, plan) == Deposited(LiveToken(o), plan[o].amount)
Live(s, o) == \E v \in 1..Len(s) : s[v].token = LiveToken(o)
LiveSum(s, n, plan) ==
  Total([k \in 1..n |-> IF Live(s, k - 1) THEN plan[k - 1].amount ELSE 0])

\* The event at version v is the snapshot of what precedes it, or the deposit of
\* an operation on the account.
IsLater(a, s, v, n, plan) ==
  \/ s[v] = SnapshotOf(Balance(SubSeq(s, 1, v - 1)))
  \/ \E o \in 0..(n - 1) : /\ s[v] = DepositOf(o, plan)
                           /\ plan[o].account = a /\ plan[o].kind = "deposit"

OnceEach(s, n) ==
  \A u, v \in 1..Len(s) : \A o \in 0..(n - 1) :
    s[u].token = LiveToken(o) /\ s[v].token = LiveToken(o) => u = v

\* What account a holds adds up to its seed and the operations stored in it.
AddsUp(a, s, n, plan) ==
  /\ Balance(s) = History(a) - 1 + LiveSum(s, n, plan)
  /\ SourceEventCount(s) = History(a) + Cardinality({o \in 0..(n - 1) : Live(s, o)})

\* What account a may hold.
Proper(a, s, n, plan) ==
  /\ s \in Seq(Events)
  /\ \A v \in 1..Len(s) : v <= History(a) => IsSeed(a, v, s[v])
  /\ \A v \in 1..Len(s) : v > History(a) => IsLater(a, s, v, n, plan)
  /\ OnceEach(s, n)
  /\ Len(s) >= History(a) => AddsUp(a, s, n, plan)

LEMMA TokensDiffer ==
  ASSUME NEW o \in Nat
  PROVE  /\ \A p \in Nat : LiveToken(o) = LiveToken(p) => o = p
         /\ \A a, i : LiveToken(o) # SeedToken(a, i)
         /\ LiveToken(o) # <<>>
<1>1. \A p : LiveToken(p)[1] = "http" /\ LiveToken(p)[3] = p /\ Len(LiveToken(p)) = 3
  BY DEF LiveToken
<1>2. \A a, i : SeedToken(a, i)[1] = "seed"
  BY DEF SeedToken
<1>3. Len(<<>>) = 0
  OBVIOUS
<1>. QED BY <1>1, <1>2, <1>3

LEMMA MaxOfTwo ==
  ASSUME NEW x \in Nat, NEW y \in Nat
  PROVE  Max({x, y}) \in {x, y} /\ Max({x, y}) >= x /\ Max({x, y}) >= y
<1>1. \E m \in {x, y} : \A q \in {x, y} : m >= q
  <2>1. CASE x >= y
    BY <2>1
  <2>2. CASE y >= x
    BY <2>2
  <2>. QED BY <2>1, <2>2
<1>. QED BY <1>1 DEF Max

LEMMA HistoryType ==
  ASSUME NEW a
  PROVE  History(a) \in Nat \ {0}
<1>1. historyEventsPerAccount \in Nat \ {0} /\ snapshotBenchmarkHistoryEventsPerAccount \in Nat
  BY Constants
<1>2. Max({historyEventsPerAccount, snapshotBenchmarkHistoryEventsPerAccount}) \in Nat \ {0}
  BY <1>1, MaxOfTwo
<1>. QED BY <1>1, <1>2 DEF History, getHistoryEventCount

LEMMA EventTypes ==
  /\ \A a \in Nat : Opened(a) \in Events
  /\ \A a, i \in Nat : Deposited(SeedToken(a, i), 1) \in Events
  /\ \A o, x \in Nat : Deposited(LiveToken(o), x) \in Events
  /\ \A x \in Nat : SnapshotOf(x) \in Events
BY DEF Opened, Deposited, SnapshotOf, Events, Tokens

\* What one event more adds to the balance and to the source events.
LEMMA OneMore ==
  ASSUME NEW s \in Seq(Events), NEW e \in Events
  PROVE  /\ Balance(s) \in Nat /\ SourceEventCount(s) \in Nat
         /\ Balance(Append(s, e)) =
              Balance(s) + IF e.type = "MoneyDeposited" THEN e.amount ELSE 0
         /\ SourceEventCount(Append(s, e)) =
              SourceEventCount(s) + IF e.type # "Snapshot" THEN 1 ELSE 0
<1> DEFINE n == Len(s)
           t == Append(s, e)
           Amounts(r) == [v \in 1..Len(r) |->
                            IF r[v].type = "MoneyDeposited" THEN r[v].amount ELSE 0]
           x == IF e.type = "MoneyDeposited" THEN e.amount ELSE 0
<1>1. /\ n \in Nat /\ Len(t) = n + 1 /\ t[n + 1] = e
      /\ \A v \in 1..n : t[v] = s[v] /\ s[v] \in Events
      /\ DOMAIN s = 1..n /\ DOMAIN t = 1..(n + 1)
  OBVIOUS
<1>2. x \in Nat /\ \A v \in 1..n : s[v].amount \in Nat
  BY <1>1 DEF Events
<1> HIDE DEF t
<1>3. /\ Amounts(s) \in Seq(Nat) /\ Len(Amounts(s)) = n
      /\ \A v \in 1..n : Amounts(s)[v] = Amounts(t)[v]
  BY <1>1, <1>2
<1>4. Amounts(t) = Append(Amounts(s), x)
  <2>1. Amounts(t) \in Seq(Nat) /\ Len(Amounts(t)) = n + 1 /\ Amounts(t)[n + 1] = x
    BY <1>1, <1>2
  <2> HIDE DEF Amounts, x
  <2>2. /\ Append(Amounts(s), x) \in Seq(Nat) /\ Len(Append(Amounts(s), x)) = n + 1
        /\ \A v \in 1..(n + 1) : Append(Amounts(s), x)[v] = Amounts(t)[v]
    BY <1>1, <1>2, <1>3, <2>1, AppendProperties
  <2>. QED BY <2>1, <2>2, SeqEqual
<1>5. Balance(s) = Total(Amounts(s)) /\ Balance(t) = Total(Amounts(t))
  BY DEF Balance
<1> HIDE DEF Amounts, x
<1>6. Balance(s) \in Nat /\ Balance(t) = Balance(s) + x
  BY <1>2, <1>3, <1>4, <1>5, TotalAppend
<1> DEFINE Sources(r) == {v \in DOMAIN r : r[v].type # "Snapshot"}
<1>7. IsFiniteSet(Sources(s)) /\ Cardinality(Sources(s)) \in Nat /\ n + 1 \notin Sources(s)
  <2>1. IsFiniteSet(1..n)
    BY <1>1, FS_Interval, 1 \in Int, n \in Int
  <2>2. Sources(s) \subseteq 1..n
    BY <1>1
  <2>. QED BY <1>1, <2>1, <2>2, FS_Subset, FS_CardinalityType
<1>8. Sources(t) = IF e.type # "Snapshot" THEN Sources(s) \cup {n + 1} ELSE Sources(s)
  BY <1>1
<1>9. Cardinality(Sources(s) \cup {n + 1}) = Cardinality(Sources(s)) + 1
  BY <1>7, FS_AddElement
<1>10. SourceEventCount(s) = Cardinality(Sources(s)) /\ SourceEventCount(t) = Cardinality(Sources(t))
  BY DEF SourceEventCount
<1> HIDE DEF Sources
<1>. QED BY <1>6, <1>7, <1>8, <1>9, <1>10 DEF t, x

LEMMA OfNothing == Balance(<<>>) = 0 /\ SourceEventCount(<<>>) = 0
<1>1. [v \in 1..Len(<<>>) |->
         IF <<>>[v].type = "MoneyDeposited" THEN <<>>[v].amount ELSE 0] = <<>>
  OBVIOUS
<1>2. {v \in DOMAIN <<>> : <<>>[v].type # "Snapshot"} = {}
  OBVIOUS
<1>. QED BY <1>1, <1>2, TotalEmpty, FS_EmptySet DEF Balance, SourceEventCount

\* The seed's events, counted and added up.
LEMMA SeedTotals ==
  ASSUME NEW a \in Accounts, NEW s \in Seq(Events),
         \A v \in 1..Len(s) : v <= History(a) => IsSeed(a, v, s[v]),
         NEW k \in 0..Len(s), k <= History(a)
  PROVE  /\ SourceEventCount(SubSeq(s, 1, k)) = k
         /\ Balance(SubSeq(s, 1, k)) = IF k = 0 THEN 0 ELSE k - 1
<1> DEFINE Right(i) == /\ SourceEventCount(SubSeq(s, 1, i)) = i
                       /\ Balance(SubSeq(s, 1, i)) = IF i = 0 THEN 0 ELSE i - 1
           S == {i \in 0..k : Right(i)}
<1>0. k \in Nat /\ Len(s) \in Nat /\ History(a) \in Nat /\ a \in Nat
  BY HistoryType, Constants DEF Accounts
<1>1. 0 \in S
  <2>1. SubSeq(s, 1, 0) = <<>>
    BY WholeSequence
  <2>2. Right(0)
    BY <2>1, OfNothing
  <2> HIDE DEF Right
  <2>. QED BY <1>0, <2>2
<1>2. ASSUME NEW i \in 1..k, i - 1 \in S PROVE i \in S
  <2>1. i \in 1..Len(s) /\ i \in 0..k
    BY <1>0
  <2>2. /\ SubSeq(s, 1, i) = Append(SubSeq(s, 1, i - 1), s[i])
        /\ SubSeq(s, 1, i - 1) \in Seq(Events) /\ s[i] \in Events
    BY <2>1, Longer
  <2>3. IsSeed(a, i, s[i])
    BY <1>0, <2>1
  <2>4. /\ i # 1 => s[i].type = "MoneyDeposited" /\ s[i].amount = 1
        /\ i = 1 => s[i].type # "MoneyDeposited"
    BY <2>3 DEF IsSeed, Opened, Deposited
  <2>5. s[i].type # "Snapshot"
    BY <2>3 DEF IsSeed, Opened, Deposited
  <2> DEFINE b == SubSeq(s, 1, i - 1)
  <2>6. /\ SourceEventCount(b) = i - 1 /\ Balance(b) = IF i - 1 = 0 THEN 0 ELSE (i - 1) - 1
    BY <1>2
  <2>7. /\ SourceEventCount(Append(b, s[i])) = SourceEventCount(b) + 1
        /\ Balance(Append(b, s[i])) =
             Balance(b) + IF s[i].type = "MoneyDeposited" THEN s[i].amount ELSE 0
    BY <2>2, <2>5, OneMore
  <2>8. SubSeq(s, 1, i) = Append(b, s[i])
    BY <2>2
  <2> HIDE DEF b
  <2>9. /\ SourceEventCount(Append(b, s[i])) = i
        /\ Balance(Append(b, s[i])) = i - 1
    <3>1. i \in Nat /\ i # 0 /\ (i - 1) + 1 = i
      BY <1>0
    <3>2. CASE i = 1
      BY <2>4, <2>6, <2>7, <3>2
    <3>3. CASE i # 1
      <4>1. i - 1 # 0 /\ ((i - 1) - 1) + 1 = i - 1
        BY <3>1, <3>3
      <4>. QED BY <2>4, <2>6, <2>7, <3>1, <3>3, <4>1
    <3>. QED BY <3>2, <3>3
  <2>10. Right(i)
    <3>1. i # 0
      OBVIOUS
    <3>. QED BY <2>8, <2>9, <3>1
  <2> HIDE DEF Right
  <2>. QED BY <2>1, <2>10
<1>3. \A i \in 0..k : i \in S
  <2> HIDE DEF S
  <2>. QED BY <1>0, <1>1, <1>2, UpTo
<1>. QED BY <1>0, <1>3

\* What precedes an event stays when events are appended.
LEMMA BeforeAppended ==
  ASSUME NEW T, NEW s \in Seq(T), NEW e \in T, NEW v \in 1..(Len(s) + 1)
  PROVE  SubSeq(Append(s, e), 1, v - 1) = SubSeq(s, 1, v - 1)
<1> DEFINE t == Append(s, e)
<1>1. /\ Len(s) \in Nat /\ t \in Seq(T) /\ Len(t) = Len(s) + 1
      /\ \A u \in 1..Len(s) : t[u] = s[u]
  BY AppendProperties
<1>2. v - 1 \in Nat /\ v - 1 <= Len(s)
  BY <1>1
<1>3. /\ SubSeq(s, 1, v - 1) \in Seq(T) /\ Len(SubSeq(s, 1, v - 1)) = v - 1
      /\ \A u \in 1..(v - 1) : SubSeq(s, 1, v - 1)[u] = s[u]
  BY <1>1, <1>2, SubSeqProperties
<1> HIDE DEF t
<1>4. /\ SubSeq(t, 1, v - 1) \in Seq(T) /\ Len(SubSeq(t, 1, v - 1)) = v - 1
      /\ \A u \in 1..(v - 1) : SubSeq(t, 1, v - 1)[u] = t[u]
  BY <1>1, <1>2, SubSeqProperties
<1>5. \A u \in 1..(v - 1) : SubSeq(t, 1, v - 1)[u] = SubSeq(s, 1, v - 1)[u]
  BY <1>1, <1>2, <1>3, <1>4
<1>6. SubSeq(t, 1, v - 1) = SubSeq(s, 1, v - 1)
  BY <1>3, <1>4, <1>5, SeqEqual
<1>. QED BY <1>6 DEF t

\* An account that is still being seeded.
LEMMA SeedsOnly ==
  ASSUME NEW a \in Accounts, NEW n \in Nat, NEW plan \in Plans(n),
         NEW s \in Seq(Events), Len(s) <= History(a),
         \A v \in 1..Len(s) : IsSeed(a, v, s[v])
  PROVE  Proper(a, s, n, plan) /\ \A o \in Nat : ~Live(s, o)
<1>0. Len(s) \in Nat /\ History(a) \in Nat \ {0} /\ \A o \in 0..(n - 1) : o \in Nat
  BY HistoryType
<1>1. \A v \in 1..Len(s) : s[v].token = SeedToken(a, 0) \/ s[v].token = SeedToken(a, v - 1)
  <2>1. ASSUME NEW v \in 1..Len(s)
        PROVE  s[v].token = SeedToken(a, 0) \/ s[v].token = SeedToken(a, v - 1)
    <3>1. s[v] = Opened(a) \/ s[v] = Deposited(SeedToken(a, v - 1), 1)
      BY DEF IsSeed
    <3>2. /\ Opened(a).token = SeedToken(a, 0)
          /\ Deposited(SeedToken(a, v - 1), 1).token = SeedToken(a, v - 1)
      BY DEF Opened, Deposited
    <3>. QED BY <3>1, <3>2
  <2>. QED BY <2>1
<1>2. \A o \in Nat : ~Live(s, o)
  BY <1>1, TokensDiffer DEF Live
<1>3. OnceEach(s, n)
  BY <1>0, <1>2 DEF OnceEach, Live
<1>4. ASSUME Len(s) >= History(a) PROVE AddsUp(a, s, n, plan)
  <2>1. Len(s) = History(a)
    BY <1>0, <1>4
  <2>2. SubSeq(s, 1, Len(s)) = s
    BY WholeSequence
  <2>3. SourceEventCount(s) = History(a) /\ Balance(s) = History(a) - 1
    <3>1. Len(s) \in 0..Len(s)
      BY <1>0
    <3>2. /\ SourceEventCount(SubSeq(s, 1, Len(s))) = Len(s)
          /\ Balance(SubSeq(s, 1, Len(s))) = IF Len(s) = 0 THEN 0 ELSE Len(s) - 1
      BY <3>1, SeedTotals
    <3>. QED BY <1>0, <2>1, <2>2, <3>2
  <2>4. LiveSum(s, n, plan) = 0
    <3> DEFINE f == [k \in 1..n |-> IF Live(s, k - 1) THEN plan[k - 1].amount ELSE 0]
    <3>1. \A k \in 1..n : f[k] = 0
      BY <1>2
    <3>2. f \in Seq(Nat) /\ Len(f) = n
      BY <1>2
    <3> HIDE DEF f
    <3>3. Total(f) = 0
      BY <3>1, <3>2, TotalOfZeros
    <3>. QED BY <3>3 DEF f, LiveSum
  <2>5. Cardinality({o \in 0..(n - 1) : Live(s, o)}) = 0
    <3>1. {o \in 0..(n - 1) : Live(s, o)} = {}
      BY <1>0, <1>2
    <3>. QED BY <3>1, FS_EmptySet
  <2>. QED BY <1>0, <2>3, <2>4, <2>5 DEF AddsUp
<1>. QED BY <1>0, <1>2, <1>3, <1>4 DEF Proper

\* Appending to a seeded account.
LEMMA LaterAppended ==
  ASSUME NEW a \in Accounts, NEW n \in Nat, NEW plan \in Plans(n), NEW s, NEW e \in Events,
         Proper(a, s, n, plan), Len(s) >= History(a),
         IsLater(a, Append(s, e), Len(s) + 1, n, plan)
  PROVE  LET t == Append(s, e)
         IN  /\ t \in Seq(Events)
             /\ \A v \in 1..Len(t) : v <= History(a) => IsSeed(a, v, t[v])
             /\ \A v \in 1..Len(t) : v > History(a) => IsLater(a, t, v, n, plan)
<1> DEFINE t == Append(s, e)
<1>1. s \in Seq(Events) /\ Len(s) \in Nat /\ History(a) \in Nat
  BY HistoryType DEF Proper
<1>2. /\ t \in Seq(Events) /\ Len(t) = Len(s) + 1
      /\ \A v \in 1..Len(s) : t[v] = s[v]
  BY <1>1, AppendProperties
<1>3. IsLater(a, t, Len(s) + 1, n, plan)
  OBVIOUS
<1>4. \A v \in 1..Len(s) : SubSeq(t, 1, v - 1) = SubSeq(s, 1, v - 1)
  BY <1>1, BeforeAppended
<1> HIDE DEF t
<1>5. ASSUME NEW v \in 1..Len(t), v <= History(a) PROVE IsSeed(a, v, t[v])
  <2>1. v \in 1..Len(s) /\ t[v] = s[v]
    BY <1>1, <1>2, <1>5
  <2>. QED BY <1>5, <2>1 DEF Proper
<1>6. ASSUME NEW v \in 1..Len(t), v > History(a) PROVE IsLater(a, t, v, n, plan)
  <2>1. CASE v = Len(s) + 1
    BY <1>3, <2>1
  <2>2. CASE v # Len(s) + 1
    <3>1. v \in 1..Len(s)
      BY <1>1, <1>2, <2>2
    <3>2. IsLater(a, s, v, n, plan)
      BY <1>6, <3>1 DEF Proper
    <3>. QED BY <1>2, <1>4, <3>1, <3>2 DEF IsLater
  <2>. QED BY <2>1, <2>2
<1>. QED BY <1>2, <1>5, <1>6 DEF t

LEMMA ProperSnapshot ==
  ASSUME NEW a \in Accounts, NEW n \in Nat, NEW plan \in Plans(n), NEW s,
         Proper(a, s, n, plan), Len(s) >= History(a)
  PROVE  LET t == Append(s, SnapshotOf(Balance(s)))
         IN  /\ Proper(a, t, n, plan) /\ Len(t) >= History(a)
             /\ \A o \in Nat : Live(t, o) <=> Live(s, o)
<1> DEFINE e == SnapshotOf(Balance(s))
           t == Append(s, e)
<1>1. s \in Seq(Events) /\ Len(s) \in Nat /\ History(a) \in Nat
  BY HistoryType DEF Proper
<1>2. e \in Events /\ e.type = "Snapshot" /\ e.token = <<>>
  BY <1>1, OneMore, EventTypes DEF SnapshotOf
<1>3. /\ t \in Seq(Events) /\ Len(t) = Len(s) + 1 /\ t[Len(s) + 1] = e
      /\ \A v \in 1..Len(s) : t[v] = s[v]
  <2> HIDE DEF e
  <2>. QED BY <1>1, <1>2, AppendProperties
<1>4. SubSeq(t, 1, (Len(s) + 1) - 1) = s
  <2>1. Len(s) + 1 \in 1..(Len(s) + 1) /\ (Len(s) + 1) - 1 = Len(s)
    BY <1>1
  <2>2. SubSeq(t, 1, (Len(s) + 1) - 1) = SubSeq(s, 1, (Len(s) + 1) - 1)
    <3> HIDE DEF e
    <3>. QED BY <1>1, <1>2, <2>1, BeforeAppended
  <2>3. SubSeq(s, 1, Len(s)) = s
    BY <1>1, WholeSequence
  <2>. QED BY <2>1, <2>2, <2>3
<1>5. IsLater(a, t, Len(s) + 1, n, plan)
  <2> HIDE DEF t
  <2>. QED BY <1>3, <1>4 DEF IsLater
<1>6. /\ \A v \in 1..Len(t) : v <= History(a) => IsSeed(a, v, t[v])
      /\ \A v \in 1..Len(t) : v > History(a) => IsLater(a, t, v, n, plan)
  <2> HIDE DEF e
  <2>. QED BY <1>2, <1>5, LaterAppended
<1>7. /\ Balance(t) = Balance(s) /\ SourceEventCount(t) = SourceEventCount(s)
  <2>1. /\ Balance(t) = Balance(s) + IF e.type = "MoneyDeposited" THEN e.amount ELSE 0
        /\ SourceEventCount(t) = SourceEventCount(s) + IF e.type # "Snapshot" THEN 1 ELSE 0
        /\ Balance(s) \in Nat /\ SourceEventCount(s) \in Nat
    <3> HIDE DEF e
    <3>. QED BY <1>1, <1>2, OneMore
  <2> HIDE DEF e, t
  <2>. QED BY <1>2, <2>1
<1> HIDE DEF t, e
<1>8. \A v \in 1..Len(t) : v \in 1..Len(s) \/ t[v] = e
  BY <1>1, <1>3
<1>9. \A v \in 1..Len(s) : v \in 1..Len(t) /\ t[v] = s[v]
  BY <1>1, <1>3
<1>10. \A o \in Nat : e.token # LiveToken(o)
  BY <1>2, TokensDiffer
<1>11. \A o \in Nat : Live(t, o) <=> Live(s, o)
  BY <1>8, <1>9, <1>10 DEF Live
<1>12. \A o \in 0..(n - 1) : o \in Nat
  OBVIOUS
<1>13. OnceEach(t, n)
  BY <1>8, <1>9, <1>10, <1>12 DEF Proper, OnceEach
<1>14. AddsUp(a, t, n, plan)
  <2>1. AddsUp(a, s, n, plan)
    BY DEF Proper
  <2>2. {o \in 0..(n - 1) : Live(t, o)} = {o \in 0..(n - 1) : Live(s, o)}
    BY <1>11, <1>12
  <2>3. LiveSum(t, n, plan) = LiveSum(s, n, plan)
    <3>1. \A k \in 1..n : Live(t, k - 1) <=> Live(s, k - 1)
      BY <1>11
    <3>2. [k \in 1..n |-> IF Live(t, k - 1) THEN plan[k - 1].amount ELSE 0]
            = [k \in 1..n |-> IF Live(s, k - 1) THEN plan[k - 1].amount ELSE 0]
      BY <3>1
    <3>. QED BY <3>2 DEF LiveSum
  <2>. QED BY <1>7, <2>1, <2>2, <2>3 DEF AddsUp
<1>15. Len(t) >= History(a)
  BY <1>1, <1>3
<1>. QED BY <1>3, <1>6, <1>11, <1>13, <1>14, <1>15 DEF Proper, t, e

LEMMA ProperDeposit ==
  ASSUME NEW a \in Accounts, NEW n \in Nat, NEW plan \in Plans(n), NEW s,
         Proper(a, s, n, plan), Len(s) >= History(a),
         NEW o \in 0..(n - 1), ~Live(s, o), plan[o].account = a, plan[o].kind = "deposit"
  PROVE  LET t == Append(s, DepositOf(o, plan))
         IN  /\ Proper(a, t, n, plan) /\ Len(t) >= History(a)
             /\ \A p \in Nat : Live(t, p) <=> Live(s, p) \/ p = o
<1> DEFINE e == DepositOf(o, plan)
           t == Append(s, e)
           x == plan[o].amount
<1>1. s \in Seq(Events) /\ Len(s) \in Nat /\ History(a) \in Nat /\ o \in Nat
  BY HistoryType DEF Proper
<1>2. /\ x \in Nat /\ e.type = "MoneyDeposited" /\ e.token = LiveToken(o)
      /\ e.amount = x
  BY DEF Plans, DepositOf, Deposited
<1>3. e \in Events
  BY <1>1, <1>2, EventTypes DEF DepositOf
<1> HIDE DEF e, x
<1>4. /\ t \in Seq(Events) /\ Len(t) = Len(s) + 1 /\ t[Len(s) + 1] = e
      /\ \A v \in 1..Len(s) : t[v] = s[v]
  BY <1>1, <1>3, AppendProperties
<1>5. IsLater(a, t, Len(s) + 1, n, plan)
  BY <1>4 DEF IsLater, e
<1>6. /\ \A v \in 1..Len(t) : v <= History(a) => IsSeed(a, v, t[v])
      /\ \A v \in 1..Len(t) : v > History(a) => IsLater(a, t, v, n, plan)
  BY <1>3, <1>5, LaterAppended
<1>7. /\ Balance(t) = Balance(s) + x /\ SourceEventCount(t) = SourceEventCount(s) + 1
      /\ Balance(s) \in Nat /\ SourceEventCount(s) \in Nat
  <2>1. /\ Balance(t) = Balance(s) + IF e.type = "MoneyDeposited" THEN e.amount ELSE 0
        /\ SourceEventCount(t) = SourceEventCount(s) + IF e.type # "Snapshot" THEN 1 ELSE 0
        /\ Balance(s) \in Nat /\ SourceEventCount(s) \in Nat
    BY <1>1, <1>3, OneMore
  <2> HIDE DEF t
  <2>. QED BY <1>2, <2>1
<1> HIDE DEF t
<1>8. \A v \in 1..Len(t) : v \in 1..Len(s) \/ v = Len(s) + 1
  BY <1>1, <1>4
<1>9. /\ \A v \in 1..Len(s) : v \in 1..Len(t) /\ t[v] = s[v]
      /\ Len(s) + 1 \in 1..Len(t)
  BY <1>1, <1>4
<1>10. \A p \in Nat : e.token = LiveToken(p) <=> p = o
  BY <1>1, <1>2, TokensDiffer
<1>11. \A p \in Nat : Live(t, p) <=> Live(s, p) \/ p = o
  BY <1>4, <1>8, <1>9, <1>10 DEF Live
<1>12. \A p \in 0..(n - 1) : p \in Nat
  OBVIOUS
<1>13. OnceEach(t, n)
  <2>1. ASSUME NEW u \in 1..Len(t), NEW v \in 1..Len(t), NEW p \in 0..(n - 1),
               t[u].token = LiveToken(p), t[v].token = LiveToken(p)
        PROVE  u = v
    <3>1. CASE u \in 1..Len(s) /\ v \in 1..Len(s)
      BY <1>9, <2>1, <3>1 DEF Proper, OnceEach
    <3>2. CASE p = o
      <4>1. \A w \in 1..Len(s) : s[w].token # LiveToken(o)
        BY DEF Live
      <4>. QED BY <1>8, <1>9, <2>1, <3>2, <4>1
    <3>3. CASE p # o
      BY <1>4, <1>8, <1>10, <1>12, <2>1, <3>1, <3>3
    <3>. QED BY <3>2, <3>3
  <2>. QED BY <2>1 DEF OnceEach
<1>14. AddsUp(a, t, n, plan)
  <2>1. AddsUp(a, s, n, plan)
    BY DEF Proper
  <2> DEFINE Ops(r) == {p \in 0..(n - 1) : Live(r, p)}
  <2>2. Cardinality(Ops(t)) = Cardinality(Ops(s)) + 1 /\ Cardinality(Ops(s)) \in Nat
    <3>1. Ops(t) = Ops(s) \cup {o} /\ o \notin Ops(s)
      BY <1>11, <1>12
    <3>2. IsFiniteSet(0..(n - 1))
      <4>1. 0 \in Int /\ n - 1 \in Int
        OBVIOUS
      <4>. QED BY <4>1, FS_Interval
    <3>3. IsFiniteSet(Ops(s))
      BY <3>2, FS_Subset
    <3> HIDE DEF Ops
    <3>. QED BY <3>1, <3>3, FS_AddElement, FS_CardinalityType
  <2>3. LiveSum(t, n, plan) = LiveSum(s, n, plan) + x /\ LiveSum(s, n, plan) \in Nat
    <3> DEFINE Amounts(r) ==
                 [k \in 1..n |-> IF Live(r, k - 1) THEN plan[k - 1].amount ELSE 0]
    <3>1. \A k \in 1..n : k - 1 \in 0..(n - 1) /\ plan[k - 1].amount \in Nat
      BY DEF Plans
    <3>2. /\ Amounts(s) \in Seq(Nat) /\ Len(Amounts(s)) = n
          /\ Amounts(t) \in Seq(Nat) /\ Len(Amounts(t)) = n
      <4>1. ASSUME NEW r PROVE Amounts(r) \in [1..n -> Nat]
        BY <3>1
      <4> HIDE DEF Amounts
      <4>2. Amounts(s) \in [1..n -> Nat] /\ Amounts(t) \in [1..n -> Nat]
        BY <4>1
      <4>. QED BY <4>2
    <3>3. o + 1 \in 1..n /\ (o + 1) - 1 = o
      BY <1>1
    <3>4. Amounts(t)[o + 1] = Amounts(s)[o + 1] + x
      <4>1. Live(t, o) /\ ~Live(s, o)
        BY <1>1, <1>11
      <4>2. Amounts(t)[o + 1] = x /\ Amounts(s)[o + 1] = 0
        BY <3>3, <4>1 DEF x
      <4>. QED BY <1>2, <4>2
    <3>5. ASSUME NEW k \in 1..n, k # o + 1 PROVE Amounts(t)[k] = Amounts(s)[k]
      <4>1. k - 1 \in Nat /\ k - 1 # o
        BY <1>1, <3>5
      <4>2. Live(t, k - 1) <=> Live(s, k - 1)
        BY <1>11, <4>1
      <4>. QED BY <4>2
    <3> HIDE DEF Amounts
    <3>6. Total(Amounts(t)) = Total(Amounts(s)) + x /\ Total(Amounts(s)) \in Nat
      <4> DEFINE f == Amounts(s)
                 g == Amounts(t)
      <4>1. /\ f \in Seq(Nat) /\ g \in Seq(Nat) /\ Len(f) = Len(g)
            /\ o + 1 \in 1..Len(f) /\ x \in Nat /\ g[o + 1] = f[o + 1] + x
            /\ \A i \in 1..Len(f) : i # o + 1 => g[i] = f[i]
        BY <1>2, <3>2, <3>3, <3>4, <3>5
      <4> HIDE DEF f, g
      <4>2. Total(g) = Total(f) + x /\ Total(f) \in Nat
        BY <4>1, TotalIncrease, TotalType
      <4>. QED BY <4>2 DEF f, g
    <3>. QED BY <3>6 DEF LiveSum, Amounts
  <2> HIDE DEF Ops
  <2>4. AddsUp(a, s, n, plan) <=>
          /\ Balance(s) = History(a) - 1 + LiveSum(s, n, plan)
          /\ SourceEventCount(s) = History(a) + Cardinality(Ops(s))
    BY DEF AddsUp, Ops
  <2>5. AddsUp(a, t, n, plan) <=>
          /\ Balance(t) = History(a) - 1 + LiveSum(t, n, plan)
          /\ SourceEventCount(t) = History(a) + Cardinality(Ops(t))
    BY DEF AddsUp, Ops
  <2>6. /\ Balance(s) = History(a) - 1 + LiveSum(s, n, plan)
        /\ SourceEventCount(s) = History(a) + Cardinality(Ops(s))
    BY <2>1, <2>4
  <2>7. Balance(t) = History(a) - 1 + LiveSum(t, n, plan)
    <3>1. Balance(t) = Balance(s) + x /\ LiveSum(t, n, plan) = LiveSum(s, n, plan) + x
      BY <1>7, <2>3
    <3>. QED BY <1>1, <1>2, <2>3, <2>6, <3>1
  <2>8. SourceEventCount(t) = History(a) + Cardinality(Ops(t))
    <3>1. /\ SourceEventCount(t) = SourceEventCount(s) + 1
          /\ Cardinality(Ops(t)) = Cardinality(Ops(s)) + 1
      BY <1>7, <2>2
    <3>. QED BY <1>1, <2>2, <2>6, <3>1
  <2>. QED BY <2>5, <2>7, <2>8
<1>15. Len(t) >= History(a)
  BY <1>1, <1>4
<1>. QED BY <1>4, <1>6, <1>11, <1>13, <1>14, <1>15 DEF Proper, t, e

\* The append of a deposit, with the snapshot it may be due.
LEMMA ProperCommit ==
  ASSUME NEW a \in Accounts, NEW n \in Nat, NEW plan \in Plans(n), NEW s,
         Proper(a, s, n, plan), Len(s) >= History(a),
         NEW o \in 0..(n - 1), ~Live(s, o), plan[o].account = a, plan[o].kind = "deposit"
  PROVE  LET t == Commit(s, DepositOf(o, plan))
         IN  /\ Proper(a, t, n, plan) /\ Len(t) >= History(a)
             /\ \A p \in Nat : Live(t, p) <=> Live(s, p) \/ p = o
<1> DEFINE r == Append(s, DepositOf(o, plan))
           t == Append(r, SnapshotOf(Balance(r)))
<1>1. /\ Proper(a, r, n, plan) /\ Len(r) >= History(a)
      /\ \A p \in Nat : Live(r, p) <=> Live(s, p) \/ p = o
  BY ProperDeposit
<1> HIDE DEF r
<1>2. /\ Proper(a, t, n, plan) /\ Len(t) >= History(a)
      /\ \A p \in Nat : Live(t, p) <=> Live(r, p)
  BY <1>1, ProperSnapshot
<1> HIDE DEF t
<1>3. Commit(s, DepositOf(o, plan)) \in {r, t}
  BY DEF Commit, r, t
<1>. QED BY <1>1, <1>2, <1>3

-----------------------------------------------------------------------------
(* The accounts and the requests of a run.                                 *)

Plan == [o \in Operations |-> OperationPlan(o)]
Stored == {o \in Operations : Live(accounts[OperationPlan(o).account], o)}
Seeded == \A a \in Accounts : Len(accounts[a]) >= History(a)
Serving == {"start", "benchmark", "traffic", "verify"}

AccountInv ==
  /\ accounts \in [Accounts -> Seq(Events)]
  /\ \A a \in Accounts : Proper(a, accounts[a], RequestCount(profile), Plan)
  /\ requests # {} \/ pc \in Serving => Seeded

Statuses == {0, 200, 201, 404, 409, 500}
Requests ==
  [client : 0..concurrency, op : Operations, replica : Replicas,
   step : {"load", "append", "answered"}, version : Nat, deposits : Nat,
   status : Statuses]

\* What a request still to be served, or its answer, says of its operation.
Truthful(q) ==
  /\ q.step \in {"load", "append"} => q.op \notin Stored
  /\ q.step = "append" => OperationPlan(q.op).kind = "deposit"
  /\ q.step = "answered" /\ q.status = 409 => q.op \notin Stored
  /\ q.step = "answered" /\ q.status = 201 => q.op \in Stored

RequestInv ==
  /\ requests \subseteq Requests
  /\ ClientInv
  /\ \A q \in requests : q.client = 0 => q.op \in failed
  /\ \A q \in requests : Truthful(q)
  /\ \A q, r \in requests : q.op = r.op => q = r
  /\ \A l \in Lanes : lanes[l].state = "send" =>
       lanes[l].op \notin Stored /\ \A q \in requests : q.op # lanes[l].op

OutcomeInv ==
  /\ failed \subseteq Operations /\ \A o \in failed : recorded[o] = 1
  /\ \A o \in Stored : Taken(o)
  /\ \A o \in successfulDeposits :
       o \in Stored /\ recorded[o] = 1 /\ OperationPlan(o).kind = "deposit"
  /\ \A o \in Operations : recorded[o] = 1 =>
       o \in failed \/ OperationPlan(o).kind = "read" \/ o \in successfulDeposits
  /\ pc = "verify" => failed = {}
  /\ outcome # "mismatch"

IInv == TrafficInv /\ AccountInv /\ RequestInv /\ OutcomeInv

LEMMA PlanType ==
  ASSUME profile \in Profiles
  PROVE  Plan \in Plans(RequestCount(profile)) /\ RequestCount(profile) \in Nat
<1>1. RequestCount(profile) \in Nat
  BY Planned
<1>2. ASSUME NEW o \in Operations
      PROVE  OperationPlan(o) \in [kind : {"read", "deposit"}, account : Accounts, amount : Nat]
  <2> DEFINE value == operationValue(o)
             userIndex == ((o % activeUserCount) + seed) % activeUserCount
             hot == \/ hotAccountCount = accountCount
                    \/ hotAccountCount > 0 /\ value % 100 < hotTrafficPercent
             pool == IF hot THEN hotAccountCount ELSE accountCount - hotAccountCount
             offset == IF hot THEN 0 ELSE hotAccountCount
  <2>1. o \in Nat /\ accountCount \in Nat \ {0} /\ activeUserCount \in Nat \ {0}
        /\ activeUserCount <= accountCount /\ seed \in Nat
        /\ hotAccountCount \in Nat /\ hotAccountCount <= accountCount
    BY <1>1, HttpLoadAssumption DEF Operations
  <2>2. value \in Nat
    BY <2>1 DEF operationValue
  <2>3. userIndex \in Accounts
    <3>1. o % activeUserCount \in Nat
      BY <2>1, Remainders
    <3>2. (o % activeUserCount) + seed \in Nat
      BY <2>1, <3>1
    <3>3. userIndex \in 0..(activeUserCount - 1)
      BY <2>1, <3>2, Remainders
    <3> HIDE DEF userIndex
    <3>. QED BY <2>1, <3>3 DEF Accounts
  <2>4. offset + (value % pool) \in Accounts
    <3>1. pool \in Nat \ {0} /\ offset \in Nat /\ offset + pool <= accountCount
      <4> HIDE DEF value
      <4>. QED BY <2>1
    <3> HIDE DEF value, pool, offset
    <3>2. value % pool \in 0..(pool - 1)
      BY <2>2, <3>1, Remainders
    <3>. QED BY <2>1, <3>1, <3>2 DEF Accounts
  <2>5. 1 + (value % 10) \in Nat
    <3>1. value % 10 \in 0..(10 - 1) /\ 10 \in Nat \ {0}
      <4> HIDE DEF value
      <4>. QED BY <2>2
    <3>. QED BY <3>1
  <2>6. /\ OperationPlan(o).kind \in {"read", "deposit"}
        /\ OperationPlan(o).account \in {userIndex, offset + (value % pool)}
        /\ OperationPlan(o).amount = 1 + (value % 10)
        /\ OperationPlan(o) = [kind |-> OperationPlan(o).kind,
                               account |-> OperationPlan(o).account,
                               amount |-> OperationPlan(o).amount]
    BY DEF OperationPlan
  <2> HIDE DEF value, userIndex, offset, pool
  <2>7. /\ OperationPlan(o).kind \in {"read", "deposit"}
        /\ OperationPlan(o).account \in Accounts /\ OperationPlan(o).amount \in Nat
    BY <2>3, <2>4, <2>5, <2>6
  <2>. QED BY <2>6, <2>7
<1>. QED BY <1>1, <1>2 DEF Plan, Plans, Operations

LEMMA SamePlan ==
  ASSUME profile' = profile
  PROVE  /\ Plan' = Plan /\ RequestCount(profile)' = RequestCount(profile)
         /\ Operations' = Operations
         /\ \A o : OperationPlan(o)' = OperationPlan(o)
<1>1. Operations' = Operations
  BY DEF Operations
<1>2. \A o : OperationPlan(o)' = OperationPlan(o)
  BY DEF OperationPlan
<1>. QED BY <1>1, <1>2 DEF Plan

LEMMA PlanFacts ==
  ASSUME profile \in Profiles, NEW o \in Operations
  PROVE  /\ Plan[o] = OperationPlan(o) /\ o \in Nat /\ o \in 0..(RequestCount(profile) - 1)
         /\ OperationPlan(o).account \in Accounts
         /\ OperationPlan(o).kind \in {"read", "deposit"}
         /\ OperationPlan(o).amount \in Nat
<1>1. Plan \in Plans(RequestCount(profile)) /\ RequestCount(profile) \in Nat
  BY PlanType
<1>2. Plan[o] = OperationPlan(o)
  BY DEF Plan
<1>3. o \in 0..(RequestCount(profile) - 1) /\ o \in Nat
  BY <1>1 DEF Operations
<1>. QED BY <1>1, <1>2, <1>3 DEF Plans

\* A step that changes what one account holds.
LEMMA AccountChanges ==
  ASSUME AccountInv, NEW a \in Accounts, NEW t, accounts' = [accounts EXCEPT ![a] = t],
         profile' = profile, pc' = pc, requests' # {} => requests # {},
         Proper(a, t, RequestCount(profile), Plan),
         Len(accounts[a]) >= History(a) => Len(t) >= History(a)
  PROVE  AccountInv'
<1>1. Plan' = Plan /\ RequestCount(profile)' = RequestCount(profile)
  BY SamePlan
<1>2. t \in Seq(Events)
  BY DEF Proper
<1>3. /\ accounts' \in [Accounts -> Seq(Events)]
      /\ \A b \in Accounts : accounts'[b] = IF b = a THEN t ELSE accounts[b]
  BY <1>2 DEF AccountInv
<1>4. ASSUME NEW b \in Accounts
      PROVE  Proper(b, accounts'[b], RequestCount(profile), Plan)
  BY <1>3 DEF AccountInv
<1>5. Seeded => Seeded'
  BY <1>3 DEF Seeded
<1>. QED BY <1>1, <1>3, <1>4, <1>5 DEF AccountInv

\* And what that is for the operations stored.
LEMMA StoredChanges ==
  ASSUME AccountInv, profile \in Profiles, NEW a \in Accounts, NEW t,
         accounts' = [accounts EXCEPT ![a] = t], profile' = profile,
         NEW X \in SUBSET Operations, \A o \in X : OperationPlan(o).account = a,
         \A o \in Nat : Live(t, o) <=> Live(accounts[a], o) \/ o \in X
  PROVE  Stored' = Stored \cup X
<1>1. Operations' = Operations /\ \A o : OperationPlan(o)' = OperationPlan(o)
  BY SamePlan
<1>2. \A b \in Accounts : accounts'[b] = IF b = a THEN t ELSE accounts[b]
  BY DEF AccountInv
<1>3. ASSUME NEW o \in Operations
      PROVE  Live(accounts'[OperationPlan(o).account], o)
               <=> Live(accounts[OperationPlan(o).account], o) \/ o \in X
  <2>1. o \in Nat /\ OperationPlan(o).account \in Accounts
    BY PlanFacts
  <2>. QED BY <1>2, <2>1
<1>4. Stored' = {o \in Operations : Live(accounts'[OperationPlan(o).account], o)}
  BY <1>1 DEF Stored
<1>. QED BY <1>3, <1>4 DEF Stored

\* Steps that leave the accounts alone.
LEMMA AccountsStand ==
  ASSUME AccountInv, accounts' = accounts, profile' = profile,
         requests' # {} \/ pc' \in Serving => Seeded
  PROVE  AccountInv' /\ Stored' = Stored
<1>1. Plan' = Plan /\ RequestCount(profile)' = RequestCount(profile)
      /\ Operations' = Operations /\ \A o : OperationPlan(o)' = OperationPlan(o)
  BY SamePlan
<1>2. Seeded' <=> Seeded
  BY DEF Seeded
<1>3. Stored' = Stored
  BY <1>1 DEF Stored
<1>. QED BY <1>1, <1>2, <1>3 DEF AccountInv

\* Seeding: a batch of an account's history, or the snapshot of a seeded account.
LEMMA SeedBatchIsSeed ==
  ASSUME AccountInv, profile \in Profiles, NEW a \in Accounts,
         Len(accounts[a]) < History(a)
  PROVE  LET t == accounts[a] \o SeedBatch(a)
         IN  /\ Proper(a, t, RequestCount(profile), Plan)
             /\ \A o \in Nat : Live(t, o) <=> Live(accounts[a], o)
<1> DEFINE s == accounts[a]
           n == RequestCount(profile)
           size == Min({seedBatchSize, History(a) - Len(s)})
           batch == SeedBatch(a)
           t == s \o batch
<1>1. /\ s \in Seq(Events) /\ Len(s) \in Nat /\ History(a) \in Nat \ {0}
      /\ \A v \in 1..Len(s) : v <= History(a) => IsSeed(a, v, s[v])
      /\ n \in Nat /\ Plan \in Plans(n) /\ a \in Nat
  BY HistoryType, PlanType, Constants DEF AccountInv, Proper, Accounts
<1>2. size \in Nat /\ size <= History(a) - Len(s)
  <2>1. {seedBatchSize, History(a) - Len(s)} \in SUBSET Nat
    BY <1>1, Constants
  <2>. QED BY <2>1, MinIsElement
<1>3. /\ batch \in Seq(Events) /\ Len(s) + Len(batch) <= History(a)
      /\ \A i \in 1..Len(batch) : IsSeed(a, Len(s) + i, batch[i])
  <2>1. CASE Len(s) = 0
    <3>1. batch = <<Opened(a)>>
      BY <2>1 DEF SeedBatch
    <3> HIDE DEF batch, s
    <3>. QED BY <1>1, <2>1, <3>1, EventTypes DEF IsSeed
  <2>2. CASE Len(s) # 0
    <3>1. batch = [i \in 1..size |-> Deposited(SeedToken(a, Len(s) + i - 1), 1)]
      BY <2>2 DEF SeedBatch, History
    <3> HIDE DEF batch, s, size
    <3>2. \A i \in 1..size : /\ Len(s) + i - 1 \in Nat
                             /\ (Len(s) + i) - 1 = Len(s) + i - 1 /\ Len(s) + i # 1
      BY <1>1, <1>2, <2>2
    <3>3. \A i \in 1..size : Deposited(SeedToken(a, Len(s) + i - 1), 1) \in Events
      BY <1>1, <3>2, EventTypes
    <3>4. batch \in Seq(Events) /\ Len(batch) = size
      BY <1>2, <3>1, <3>3
    <3>5. ASSUME NEW i \in 1..Len(batch) PROVE IsSeed(a, Len(s) + i, batch[i])
      BY <3>1, <3>2, <3>4 DEF IsSeed
    <3>. QED BY <1>1, <1>2, <3>4, <3>5
  <2>. QED BY <2>1, <2>2
<1> HIDE DEF batch, s, n, size
<1>4. /\ t \in Seq(Events) /\ Len(t) = Len(s) + Len(batch) /\ Len(batch) \in Nat
      /\ \A v \in 1..Len(t) : t[v] = IF v <= Len(s) THEN s[v] ELSE batch[v - Len(s)]
  BY <1>1, <1>3, ConcatProperties
<1> HIDE DEF t
<1>5. ASSUME NEW v \in 1..Len(t) PROVE IsSeed(a, v, t[v])
  <2>1. CASE v <= Len(s)
    <3>1. v \in 1..Len(s) /\ v <= History(a)
      BY <1>1, <1>3, <1>4, <2>1
    <3>. QED BY <1>1, <1>4, <2>1, <3>1
  <2>2. CASE ~(v <= Len(s))
    <3>1. v - Len(s) \in 1..Len(batch) /\ Len(s) + (v - Len(s)) = v
      BY <1>1, <1>4, <2>2
    <3>2. IsSeed(a, Len(s) + (v - Len(s)), batch[v - Len(s)])
      BY <1>3, <3>1
    <3>. QED BY <1>4, <2>2, <3>1, <3>2
  <2>. QED BY <2>1, <2>2
<1>6. Proper(a, t, n, Plan) /\ \A o \in Nat : ~Live(t, o)
  <2>1. Len(t) <= History(a)
    BY <1>3, <1>4
  <2>. QED BY <1>1, <1>4, <1>5, <2>1, SeedsOnly
<1>7. \A o \in Nat : ~Live(s, o)
  <2>1. Len(s) <= History(a) /\ \A v \in 1..Len(s) : IsSeed(a, v, s[v])
    BY <1>1 DEF s
  <2>. QED BY <1>1, <2>1, SeedsOnly
<1>. QED BY <1>6, <1>7 DEF t, s, batch, n

LEMMA SeedSnapshot ==
  ASSUME AccountInv, profile \in Profiles, NEW a \in Accounts,
         Len(accounts[a]) = History(a)
  PROVE  Balance(accounts[a]) = Max({0, History(a) - 1})
<1>1. /\ accounts[a] \in Seq(Events) /\ Len(accounts[a]) \in Nat /\ History(a) \in Nat \ {0}
      /\ \A v \in 1..Len(accounts[a]) : v <= History(a) => IsSeed(a, v, accounts[a][v])
  BY HistoryType DEF AccountInv, Proper
<1>2. SubSeq(accounts[a], 1, Len(accounts[a])) = accounts[a]
  BY <1>1, WholeSequence
<1>3. Balance(SubSeq(accounts[a], 1, Len(accounts[a]))) =
        IF Len(accounts[a]) = 0 THEN 0 ELSE Len(accounts[a]) - 1
  <2>1. Len(accounts[a]) \in 0..Len(accounts[a]) /\ Len(accounts[a]) <= History(a)
    BY <1>1
  <2>. QED BY <1>1, <2>1, SeedTotals
<1>4. Max({0, History(a) - 1}) = History(a) - 1
  <2>1. Max({0, History(a) - 1}) \in {0, History(a) - 1} /\ Max({0, History(a) - 1}) >= History(a) - 1
    BY <1>1, MaxOfTwo
  <2>. QED BY <1>1, <2>1
<1>. QED BY <1>1, <1>2, <1>3, <1>4

LEMMA SeedStep ==
  ASSUME AccountInv, profile \in Profiles, Seed
  PROVE  AccountInv' /\ Stored' = Stored
<1>1. profile' = profile /\ pc' = pc /\ requests' = requests
  BY DEF Seed, driver
<1>2. accountCount \in Nat
  BY Constants
<1>3. CASE Unseeded # {} /\ LET a == Min(Unseeded)
                            IN  accounts' = [accounts EXCEPT ![a] = @ \o SeedBatch(a)]
  <2>1. PICK a : a = Min(Unseeded)
    OBVIOUS
  <2>2. a \in Unseeded
    <3>1. Unseeded \in SUBSET Nat
      BY <1>2 DEF Unseeded, Accounts
    <3>. QED BY <1>3, <2>1, <3>1, MinIsElement
  <2>3. a \in Accounts /\ Len(accounts[a]) < History(a)
    BY <2>2 DEF Unseeded, History
  <2>4. PICK t : t = accounts[a] \o SeedBatch(a)
    OBVIOUS
  <2>5. accounts' = [accounts EXCEPT ![a] = t]
    BY <1>3, <2>1, <2>4
  <2>6. /\ Proper(a, t, RequestCount(profile), Plan)
        /\ \A o \in Nat : Live(t, o) <=> Live(accounts[a], o)
    BY <2>3, <2>4, SeedBatchIsSeed
  <2>7. ~(Len(accounts[a]) >= History(a))
    <3>1. Len(accounts[a]) \in Nat /\ History(a) \in Nat
      BY <2>3, HistoryType DEF AccountInv
    <3>. QED BY <2>3, <3>1
  <2>8. AccountInv'
    BY <1>1, <2>3, <2>5, <2>6, <2>7, AccountChanges
  <2>9. Stored' = Stored \cup {}
    <3>1. {} \in SUBSET Operations
      OBVIOUS
    <3>. QED BY <1>1, <2>3, <2>5, <2>6, <3>1, StoredChanges
  <2>. QED BY <2>8, <2>9
<1>4. CASE Unsnapped # {} /\ LET a == Min(Unsnapped)
                                 balance == Max({0, getHistoryEventCount(a) - 1})
                             IN  accounts' = [accounts EXCEPT ![a] = Append(@, SnapshotOf(balance))]
  <2>1. PICK a : a = Min(Unsnapped)
    OBVIOUS
  <2>2. getSnapshotBenchmarkAccountIds \subseteq Accounts
    <3> DEFINE n == Min({snapshotBenchmarkRequests, accountCount})
    <3>1. n \in Nat /\ n <= accountCount
      <4>1. {snapshotBenchmarkRequests, accountCount} \in SUBSET Nat
        BY Constants
      <4>. QED BY <4>1, MinIsElement
    <3>2. getSnapshotBenchmarkAccountIds = (accountCount - n)..(accountCount - 1)
      BY DEF getSnapshotBenchmarkAccountIds
    <3> HIDE DEF n
    <3>. QED BY <1>2, <3>1, <3>2 DEF Accounts
  <2>3. a \in Unsnapped
    <3>1. Unsnapped \in SUBSET Nat
      <4>1. Accounts \subseteq Nat
        BY <1>2 DEF Accounts
      <4>2. Unsnapped \subseteq getSnapshotBenchmarkAccountIds
        BY DEF Unsnapped
      <4>. QED BY <2>2, <4>1, <4>2
    <3>. QED BY <1>4, <2>1, <3>1, MinIsElement
  <2>4. a \in Accounts /\ Len(accounts[a]) = History(a)
    BY <2>2, <2>3 DEF Unsnapped, History
  <2>5. PICK t : t = Append(accounts[a], SnapshotOf(Balance(accounts[a])))
    OBVIOUS
  <2>6. accounts' = [accounts EXCEPT ![a] = t]
    <3>1. Balance(accounts[a]) = Max({0, getHistoryEventCount(a) - 1})
      BY <2>4, SeedSnapshot DEF History
    <3>. QED BY <1>4, <2>1, <2>5, <3>1
  <2>7. History(a) \in Nat /\ Len(accounts[a]) >= History(a)
    BY <2>4, HistoryType
  <2>8. Proper(a, accounts[a], RequestCount(profile), Plan)
    BY <2>4 DEF AccountInv
  <2>9. Plan \in Plans(RequestCount(profile)) /\ RequestCount(profile) \in Nat
    BY PlanType
  <2>10. /\ Proper(a, t, RequestCount(profile), Plan) /\ Len(t) >= History(a)
         /\ \A o \in Nat : Live(t, o) <=> Live(accounts[a], o)
    BY <2>4, <2>5, <2>7, <2>8, <2>9, ProperSnapshot
  <2>11. AccountInv'
    BY <1>1, <2>4, <2>6, <2>10, AccountChanges
  <2>12. Stored' = Stored \cup {}
    <3>1. {} \in SUBSET Operations
      OBVIOUS
    <3>. QED BY <1>1, <2>4, <2>6, <2>10, <3>1, StoredChanges
  <2>. QED BY <2>11, <2>12
<1>. QED BY <1>3, <1>4 DEF Seed

\* The operations of the requests have been taken.
LEMMA RequestsTaken ==
  ASSUME IInv, NEW q \in requests
  PROVE  q \in Requests /\ q.op \in Operations /\ Taken(q.op)
<1>1. q \in Requests
  BY DEF IInv, RequestInv
<1>2. CASE q.client = 0
  BY <1>1, <1>2 DEF IInv, RequestInv, OutcomeInv, TrafficInv, RecordInv, Requests
<1>3. CASE q.client # 0
  BY <1>1, <1>3 DEF IInv, RequestInv, ClientInv, TrafficInv, LaneInv, Busy, Requests
<1>. QED BY <1>1, <1>2, <1>3 DEF Requests

\* Steps that send nothing, store nothing, and record nothing.
LEMMA RequestsStand ==
  ASSUME RequestInv, requests' \subseteq requests, profile' = profile,
         Stored' = Stored, failed' = failed,
         \/ lanes' = lanes
         \/ \A l \in Lanes : lanes[l].state # "waiting" /\ lanes'[l].state # "send"
  PROVE  RequestInv'
<1>1. Operations' = Operations /\ \A o : OperationPlan(o)' = OperationPlan(o)
  BY SamePlan
<1>2. Requests' = Requests
  BY <1>1 DEF Requests
<1>3. ClientInv'
  BY DEF RequestInv, ClientInv
<1>4. \A q : Truthful(q)' <=> Truthful(q)
  BY <1>1 DEF Truthful
<1>. QED BY <1>2, <1>3, <1>4 DEF RequestInv

LEMMA OutcomeStands ==
  ASSUME OutcomeInv, UNCHANGED records, profile' = profile,
         Stored \subseteq Stored', \A o \in Stored' : Taken(o)',
         pc' = "verify" => failed = {}, outcome' # "mismatch"
  PROVE  OutcomeInv'
<1>1. Operations' = Operations /\ \A o : OperationPlan(o)' = OperationPlan(o)
  BY SamePlan
<1>2. recorded' = recorded /\ failed' = failed /\ successfulDeposits' = successfulDeposits
  BY DEF records
<1>. QED BY <1>1, <1>2 DEF OutcomeInv

\* A replica serves request q.
LEMMA Replaced ==
  ASSUME IInv, NEW q \in requests, NEW new \in Requests, Replace(q, new),
         new.client = q.client, new.op = q.op, profile' = profile,
         lanes' = lanes, failed' = failed,
         Stored' = Stored \/ Stored' = Stored \cup {q.op}, Truthful(new)'
  PROVE  RequestInv'
<1>1. Operations' = Operations /\ \A o : OperationPlan(o)' = OperationPlan(o)
  BY SamePlan
<1>2. Requests' = Requests
  BY <1>1 DEF Requests
<1>3. \A r \in requests' : r = new \/ (r \in requests /\ r # q)
  BY DEF Replace
<1>4. \A r \in requests : r.op = q.op => r = q
  BY DEF IInv, RequestInv
<1>5. \A r \in requests : r # q /\ q.client # 0 => r.client # q.client
  BY DEF IInv, RequestInv, ClientInv
<1>6. ClientInv'
  BY <1>3, <1>5 DEF IInv, RequestInv, ClientInv
<1>7. ASSUME NEW r \in requests, r # q PROVE Truthful(r)'
  <2>1. Truthful(r) /\ r.op # q.op
    BY <1>4, <1>7 DEF IInv, RequestInv
  <2>. QED BY <1>1, <2>1 DEF Truthful
<1>8. \A r \in requests' : Truthful(r)'
  BY <1>3, <1>7
<1>9. requests' \subseteq Requests
  BY <1>3 DEF IInv, RequestInv
<1>10. \A r \in requests' : r.client = 0 => r.op \in failed
  BY <1>3 DEF IInv, RequestInv
<1>11. \A r, p \in requests' : r.op = p.op => r = p
  BY <1>3, <1>4 DEF IInv, RequestInv
<1>12. ASSUME NEW l \in Lanes, lanes[l].state = "send"
       PROVE  lanes[l].op \notin Stored' /\ \A r \in requests' : r.op # lanes[l].op
  <2>1. lanes[l].op \notin Stored /\ \A r \in requests : r.op # lanes[l].op
    BY <1>12 DEF IInv, RequestInv
  <2>. QED BY <1>3, <2>1
<1>. QED BY <1>2, <1>6, <1>8, <1>9, <1>10, <1>11, <1>12 DEF RequestInv

\* The append of request q's deposit.
LEMMA DepositStored ==
  ASSUME IInv, NEW q \in requests, q.step = "append", profile' = profile, pc' = pc,
         requests' # {} => requests # {},
         LET plan == OperationPlan(q.op)
         IN  accounts' = [accounts EXCEPT ![plan.account] =
               Commit(accounts[plan.account], Deposited(LiveToken(q.op), plan.amount))]
  PROVE  AccountInv' /\ Stored' = Stored \cup {q.op}
<1> DEFINE n == RequestCount(profile)
<1>1. profile \in Profiles /\ AccountInv
  BY DEF IInv, TrafficInv, TrafficTypes
<1>2. q.op \in Operations
  BY RequestsTaken
<1>3. /\ q.op \in 0..(n - 1) /\ Plan[q.op] = OperationPlan(q.op)
      /\ OperationPlan(q.op).account \in Accounts
      /\ Plan \in Plans(n) /\ n \in Nat
  BY <1>1, <1>2, PlanFacts, PlanType
<1>4. OperationPlan(q.op).kind = "deposit" /\ q.op \notin Stored
  BY DEF IInv, RequestInv, Truthful
<1>5. PICK a \in Accounts : a = OperationPlan(q.op).account
  BY <1>3
<1>6. ~Live(accounts[a], q.op)
  BY <1>2, <1>4, <1>5 DEF Stored
<1>7. Proper(a, accounts[a], n, Plan) /\ Len(accounts[a]) >= History(a)
  BY DEF IInv, AccountInv, Seeded
<1>8. PICK t : t = Commit(accounts[a], DepositOf(q.op, Plan))
  OBVIOUS
<1>9. accounts' = [accounts EXCEPT ![a] = t]
  BY <1>3, <1>5, <1>8 DEF DepositOf
<1> HIDE DEF n
<1>10. /\ Proper(a, t, n, Plan) /\ Len(t) >= History(a)
       /\ \A p \in Nat : Live(t, p) <=> Live(accounts[a], p) \/ p = q.op
  BY <1>3, <1>4, <1>5, <1>6, <1>7, <1>8, ProperCommit
<1>11. AccountInv'
  BY <1>1, <1>9, <1>10, AccountChanges DEF n
<1>12. Stored' = Stored \cup {q.op}
  <2>1. /\ {q.op} \in SUBSET Operations /\ \A o \in {q.op} : OperationPlan(o).account = a
        /\ \A p \in Nat : Live(t, p) <=> Live(accounts[a], p) \/ p \in {q.op}
    BY <1>2, <1>5, <1>10
  <2>. QED BY <1>1, <1>9, <2>1, StoredChanges
<1>. QED BY <1>11, <1>12

LEMMA AnswerType ==
  ASSUME NEW q \in Requests, NEW status \in Statuses
  PROVE  /\ Answered(q, status) \in Requests
         /\ Answered(q, status).client = q.client /\ Answered(q, status).op = q.op
         /\ Answered(q, status).step = "answered" /\ Answered(q, status).status = status
<1> DEFINE answer == [q EXCEPT !.step = "answered", !.status = status]
<1>1. answer \in Requests
  BY DEF Requests
<1>2. answer.client = q.client /\ answer.op = q.op
  BY DEF Requests
<1>3. answer.step = "answered" /\ answer.status = status
  BY DEF Requests
<1>. QED BY <1>1, <1>2, <1>3 DEF Answered

\* What a replica does to request q.
LEMMA ServesStep ==
  ASSUME IInv, NEW q \in requests, HandleLoad(q) \/ HandleAppend(q) \/ HandleFails(q)
  PROVE  AccountInv' /\ RequestInv' /\ OutcomeInv'
<1>1. UNCHANGED <<profile, driver, traffic, records, replica>>
  BY DEF HandleLoad, HandleAppend, HandleFails, unchangedByReplicas
<1>2. /\ profile' = profile /\ pc' = pc /\ outcome' = outcome /\ lanes' = lanes
      /\ failed' = failed /\ phase' = phase /\ nextOperation' = nextOperation
  BY <1>1 DEF driver, traffic, records
<1>3. q \in Requests /\ q.op \in Operations /\ Taken(q.op) /\ Truthful(q)
  BY RequestsTaken DEF IInv, RequestInv
<1>4. requests # {} /\ AccountInv /\ profile \in Profiles /\ OutcomeInv /\ Seeded
  BY DEF IInv, TrafficInv, TrafficTypes, AccountInv
<1>5. \A o : OperationPlan(o)' = OperationPlan(o)
  BY <1>2, SamePlan
<1>6. \A o : Taken(o)' <=> Taken(o)
  BY <1>2, SamePhase DEF Taken
<1>7. ASSUME Stored' = Stored \/ Stored' = Stored \cup {q.op} PROVE OutcomeInv'
  <2>1. Stored \subseteq Stored' /\ \A o \in Stored' : Taken(o)'
    BY <1>3, <1>4, <1>6, <1>7 DEF OutcomeInv
  <2>. QED BY <1>1, <1>2, <1>4, <2>1, OutcomeStands DEF OutcomeInv
<1>9. ASSUME UNCHANGED accounts PROVE AccountInv' /\ Stored' = Stored
  BY <1>2, <1>4, <1>9, AccountsStand
<1>10. CASE HandleLoad(q)
  <2> DEFINE plan == OperationPlan(q.op)
             events == accounts[plan.account]
             loaded == [q EXCEPT !.version = Len(events), !.deposits = DepositCount(events)]
             new == IF events = <<>> THEN Answered(q, 404)
                    ELSE IF plan.kind = "read" THEN Answered(loaded, 200)
                    ELSE [loaded EXCEPT !.step = "append"]
  <2>1. q.step = "load" /\ Replace(q, new) /\ UNCHANGED accounts
    BY <1>10 DEF HandleLoad
  <2>2. Len(events) \in Nat /\ DepositCount(events) \in Nat /\ plan.kind \in {"read", "deposit"}
    <3>1. plan.account \in Accounts /\ plan.kind \in {"read", "deposit"}
      BY <1>3, <1>4, PlanFacts
    <3>2. events \in Seq(Events)
      BY <1>4, <3>1 DEF AccountInv
    <3> HIDE DEF events
    <3>3. Len(events) \in Nat /\ DOMAIN events = 1..Len(events)
      BY <3>2
    <3>4. IsFiniteSet(1..Len(events))
      BY <3>3, FS_Interval
    <3>5. DepositCount(events) \in Nat
      BY <3>3, <3>4, FS_Subset, FS_CardinalityType DEF DepositCount
    <3>. QED BY <3>1, <3>3, <3>5
  <2>3. /\ loaded \in Requests /\ loaded.client = q.client /\ loaded.op = q.op
    <3> HIDE DEF events
    <3>. QED BY <1>3, <2>2 DEF Requests
  <2> DEFINE appending == [loaded EXCEPT !.step = "append"]
  <2>4. /\ appending \in Requests /\ appending.client = q.client /\ appending.op = q.op
        /\ appending.step = "append"
    <3> HIDE DEF loaded
    <3>. QED BY <2>3 DEF Requests
  <2>5. q.op \notin Stored
    BY <1>3, <2>1 DEF Truthful
  <2> HIDE DEF loaded, events, appending
  <2>6. /\ new \in Requests /\ new.client = q.client /\ new.op = q.op
        /\ \/ new.step = "answered" /\ new.status \notin {201, 409}
           \/ new.step = "append" /\ plan.kind = "deposit"
    <3>1. CASE events = <<>>
      BY <1>3, AnswerType, <3>1 DEF Statuses
    <3>2. CASE events # <<>> /\ plan.kind = "read"
      BY AnswerType, <2>3, <3>2 DEF Statuses
    <3>3. CASE events # <<>> /\ plan.kind # "read"
      BY <2>2, <2>4, <3>3 DEF appending
    <3>. QED BY <3>1, <3>2, <3>3
  <2>7. PICK r \in Requests : r = new
    BY <2>6
  <2> HIDE DEF new
  <2>8. Truthful(r)'
    BY <1>5, <1>9, <2>1, <2>5, <2>6, <2>7 DEF Truthful
  <2>9. RequestInv'
    BY <1>2, <1>9, <2>1, <2>6, <2>7, <2>8, Replaced
  <2>. QED BY <1>7, <1>9, <2>1, <2>9
<1>11. ASSUME NEW status \in {201, 409, 500}, Replace(q, Answered(q, status)),
              status = 201 => q.op \in Stored', status = 409 => q.op \notin Stored',
              Stored' = Stored \/ Stored' = Stored \cup {q.op}
       PROVE  RequestInv' /\ OutcomeInv'
  <2>1. PICK r \in Requests : r = Answered(q, status)
    BY <1>3, AnswerType DEF Statuses
  <2>2. r.client = q.client /\ r.op = q.op /\ r.step = "answered" /\ r.status = status
    BY <1>3, AnswerType, <2>1 DEF Statuses
  <2>3. Truthful(r)'
    BY <1>11, <2>2 DEF Truthful
  <2>. QED BY <1>2, <1>7, <1>11, <2>1, <2>2, <2>3, Replaced
<1>12. ASSUME NEW status \in {201, 500}, Replace(q, Answered(q, status)), q.step = "append",
              LET plan == OperationPlan(q.op)
              IN  accounts' = [accounts EXCEPT ![plan.account] =
                    Commit(accounts[plan.account], Deposited(LiveToken(q.op), plan.amount))]
       PROVE  AccountInv' /\ RequestInv' /\ OutcomeInv'
  <2>1. AccountInv' /\ Stored' = Stored \cup {q.op}
    BY <1>2, <1>4, <1>12, DepositStored
  <2>. QED BY <1>11, <1>12, <2>1
<1>13. CASE HandleAppend(q)
  <2>1. q.step = "append" /\ q.op \notin Stored
    BY <1>3, <1>13 DEF HandleAppend, Truthful
  <2>2. CASE Replace(q, Answered(q, 409)) /\ UNCHANGED accounts
    BY <1>9, <1>11, <2>1, <2>2
  <2>. QED BY <1>12, <1>13, <2>1, <2>2 DEF HandleAppend
<1>14. CASE HandleFails(q)
  <2>1. CASE UNCHANGED accounts
    BY <1>9, <1>11, <1>14, <2>1 DEF HandleFails
  <2>. QED BY <1>12, <1>14, <2>1 DEF HandleFails
<1>. QED BY <1>10, <1>13, <1>14

\* The steps of a lane that record nothing.
LEMMA TakeRequests ==
  ASSUME IInv, NEW l \in Lanes, Take(l), pc = "traffic", Stored' = Stored,
         profile' = profile, pc' = pc, phase' = phase
  PROVE  RequestInv'
<1>1. /\ requests' = requests /\ failed' = failed /\ lanes[l].state = "next"
      /\ \A m \in Lanes : m # l => lanes'[m] = lanes[m]
      /\ lanes'[l].state \in {"done", "send"}
  <2>1. requests' = requests /\ UNCHANGED records /\ lanes[l].state = "next"
    BY DEF Take
  <2>2. lanes[l] \in LaneRecords /\ lanes \in [Lanes -> LaneRecords]
    BY DEF IInv, TrafficInv, TrafficTypes
  <2>3. PICK lane : lanes' = [lanes EXCEPT ![l] = lane] /\ lane.state \in {"done", "send"}
    <3>1. [lanes[l] EXCEPT !.state = "done"].state = "done"
      BY <2>2 DEF LaneRecords
    <3>2. \A o : [state |-> "send", op |-> o, attempt |-> 0].state = "send"
      OBVIOUS
    <3>. QED BY <3>1, <3>2 DEF Take
  <2>. QED BY <2>1, <2>2, <2>3 DEF records
<1>2. Operations' = Operations /\ \A o : OperationPlan(o)' = OperationPlan(o)
  BY SamePlan
<1>3. Requests' = Requests /\ \A q : Truthful(q)' <=> Truthful(q)
  BY <1>2 DEF Requests, Truthful
<1>4. ClientInv'
  BY <1>1 DEF IInv, RequestInv, ClientInv
<1>5. ASSUME lanes'[l].state = "send"
      PROVE  lanes'[l].op \notin Stored /\ \A q \in requests : q.op # lanes'[l].op
  <2>1. ~Taken(lanes'[l].op)
    <3>1. Busy(l)'
      BY <1>5 DEF Busy
    <3>. QED BY <3>1, TakeTraffic DEF IInv
  <2>. QED BY <2>1, RequestsTaken DEF IInv, OutcomeInv
<1>6. \A m \in Lanes : lanes'[m].state = "send" =>
        lanes'[m].op \notin Stored /\ \A q \in requests : q.op # lanes'[m].op
  BY <1>1, <1>5 DEF IInv, RequestInv
<1>. QED BY <1>1, <1>3, <1>4, <1>6 DEF IInv, RequestInv

LEMMA SendRequests ==
  ASSUME IInv, NEW l \in Lanes, Send(l), Stored' = Stored, profile' = profile
  PROVE  RequestInv'
<1>1. PICK new : new = [client |-> l, op |-> lanes[l].op, replica |-> ReplicaOf(l),
                        step |-> "load", version |-> 0, deposits |-> 0, status |-> 0]
  OBVIOUS
<1>2. /\ requests' = requests \cup {new} /\ failed' = failed /\ lanes[l].state = "send"
      /\ lanes' = [lanes EXCEPT ![l].state = "waiting"]
  BY <1>1 DEF Send, records
<1>3. lanes \in [Lanes -> LaneRecords]
  BY DEF IInv, TrafficInv, TrafficTypes
<1>4. /\ \A m \in Lanes : m # l => lanes'[m] = lanes[m]
      /\ lanes'[l].state = "waiting" /\ lanes'[l].op = lanes[l].op
  BY <1>2, <1>3 DEF LaneRecords
<1>5. lanes[l].op \in Operations /\ lanes[l].attempt \in Nat /\ lanes[l].op \in Nat
  BY <1>2, <1>3 DEF IInv, TrafficInv, LaneInv, Busy, LaneRecords
<1>6. new \in Requests
  <2>1. ReplicaOf(l) \in Replicas
    <3>1. lanes[l].op + lanes[l].attempt \in Nat /\ workerCount \in Nat \ {0}
      BY <1>5, Constants
    <3>. QED BY <3>1, Remainders DEF ReplicaOf, getHttpWorkerIndex, Replicas
  <2>2. l \in 0..concurrency
    BY Constants DEF Lanes
  <2>3. 0 \in Statuses
    BY DEF Statuses
  <2>. QED BY <1>1, <1>5, <2>1, <2>2, <2>3 DEF Requests
<1>7. Operations' = Operations /\ \A o : OperationPlan(o)' = OperationPlan(o)
  BY SamePlan
<1>8. Requests' = Requests /\ \A q : Truthful(q)' <=> Truthful(q)
  BY <1>7 DEF Requests, Truthful
<1>9. lanes[l].op \notin Stored /\ \A q \in requests : q.op # lanes[l].op
  BY <1>2 DEF IInv, RequestInv
<1>10. \A q \in requests : q.client # l
  BY <1>2 DEF IInv, RequestInv, ClientInv, Lanes
<1>11. new.client = l /\ new.op = lanes[l].op /\ new.step = "load" /\ l # 0
  BY <1>1 DEF Lanes
<1>12. Truthful(new)
  BY <1>9, <1>11 DEF Truthful
<1>13. \A q \in requests' : q.client # 0 =>
         q.client \in Lanes /\ lanes'[q.client].state = "waiting" /\ lanes'[q.client].op = q.op
  BY <1>2, <1>4, <1>10, <1>11 DEF IInv, RequestInv, ClientInv
<1>14. \A q, r \in requests' : q.client # 0 /\ q.client = r.client => q = r
  BY <1>2, <1>10, <1>11 DEF IInv, RequestInv, ClientInv
<1>15. \A q, r \in requests' : q.op = r.op => q = r
  BY <1>2, <1>9, <1>11 DEF IInv, RequestInv
<1>16. \A m \in Lanes : lanes'[m].state = "send" =>
         lanes'[m].op \notin Stored /\ \A q \in requests' : q.op # lanes'[m].op
  <2>1. ASSUME NEW m \in Lanes, lanes'[m].state = "send"
        PROVE  lanes'[m].op \notin Stored /\ \A q \in requests' : q.op # lanes'[m].op
    <3>1. m # l /\ lanes'[m] = lanes[m]
      BY <1>4, <2>1
    <3>2. lanes[m].op # lanes[l].op
      BY <1>2, <2>1, <3>1 DEF IInv, TrafficInv, LaneInv, Busy
    <3>. QED BY <1>2, <1>11, <2>1, <3>1, <3>2 DEF IInv, RequestInv
  <2>. QED BY <2>1
<1>17. /\ requests' \subseteq Requests
       /\ \A q \in requests' : Truthful(q) /\ (q.client = 0 => q.op \in failed)
  BY <1>2, <1>6, <1>11, <1>12 DEF IInv, RequestInv
<1>18. ClientInv'
  BY <1>13, <1>14 DEF ClientInv
<1>. QED BY <1>2, <1>8, <1>15, <1>16, <1>17, <1>18 DEF RequestInv

\* A conflict's answer has arrived, and the request is to be sent again.
LEMMA RetryRequests ==
  ASSUME IInv, NEW l \in Lanes, NEW q \in requests, q.client = l, q.step = "answered",
         q.status = 409, requests' = requests \ {q}, UNCHANGED records,
         lanes' = [lanes EXCEPT ![l] = [state |-> "send", op |-> @.op,
                                        attempt |-> @.attempt + 1]],
         Stored' = Stored, profile' = profile
  PROVE  RequestInv'
<1>1. lanes \in [Lanes -> LaneRecords] /\ failed' = failed /\ l # 0
  BY DEF IInv, TrafficInv, TrafficTypes, records, Lanes
<1>2. /\ \A m \in Lanes : m # l => lanes'[m] = lanes[m]
      /\ lanes'[l].state = "send" /\ lanes'[l].op = lanes[l].op
  BY <1>1
<1>3. lanes[l].op = q.op /\ \A r \in requests : r # q => r.client # l /\ r.op # q.op
  BY <1>1 DEF IInv, RequestInv, ClientInv
<1>4. q.op \notin Stored
  BY DEF IInv, RequestInv, Truthful
<1>5. Operations' = Operations /\ \A o : OperationPlan(o)' = OperationPlan(o)
  BY SamePlan
<1>6. Requests' = Requests /\ \A r : Truthful(r)' <=> Truthful(r)
  BY <1>5 DEF Requests, Truthful
<1>7. ClientInv'
  BY <1>2, <1>3 DEF IInv, RequestInv, ClientInv
<1>8. \A m \in Lanes : lanes'[m].state = "send" =>
        lanes'[m].op \notin Stored /\ \A r \in requests' : r.op # lanes'[m].op
  BY <1>2, <1>3, <1>4 DEF IInv, RequestInv
<1>. QED BY <1>1, <1>6, <1>7, <1>8 DEF IInv, RequestInv

\* A lane records its operation; a request of its own that is left is abandoned.
LEMMA RecordRequests ==
  ASSUME IInv, NEW l \in Lanes, Busy(l), NEW b \in BOOLEAN, Record(l, b),
         \A r \in requests' :
           \/ r \in requests /\ r.client # l
           \/ ~b /\ \E q \in requests : q.client = l /\ r = [q EXCEPT !.client = 0],
         Stored' = Stored, profile' = profile
  PROVE  RequestInv'
<1> DEFINE op == lanes[l].op
<1>1. lanes \in [Lanes -> LaneRecords] /\ l # 0
  BY DEF IInv, TrafficInv, TrafficTypes, Lanes
<1>2. /\ \A m \in Lanes : m # l => lanes'[m] = lanes[m]
      /\ lanes'[l].state = "next"
  <2>1. [IdleLane EXCEPT !.state = "next"].state = "next"
    BY DEF IdleLane
  <2>. QED BY <1>1, <2>1 DEF Record
<1>3. failed \subseteq failed' /\ (~b => op \in failed')
  BY DEF Record
<1>4. Operations' = Operations /\ \A o : OperationPlan(o)' = OperationPlan(o)
  BY SamePlan
<1>5. Requests' = Requests /\ \A r : Truthful(r)' <=> Truthful(r)
  BY <1>4 DEF Requests, Truthful
<1>6. ASSUME NEW q \in requests, q.client = l, NEW r, r = [q EXCEPT !.client = 0]
      PROVE  /\ r \in Requests /\ r.client = 0 /\ r.op = op /\ q.op = op
             /\ Truthful(r)
  <2>1. q \in Requests /\ Truthful(q) /\ q.op = op
    BY <1>1, <1>6 DEF IInv, RequestInv, ClientInv
  <2>2. /\ r \in Requests /\ r.client = 0 /\ r.op = q.op /\ r.step = q.step
        /\ r.status = q.status
    <3>1. 0 \in 0..concurrency
      BY Constants
    <3>. QED BY <1>6, <2>1, <3>1 DEF Requests
  <2>. QED BY <2>1, <2>2 DEF Truthful
<1>7. \A q, r \in requests : q.client = l /\ r.client = l => q = r
  BY <1>1 DEF IInv, RequestInv, ClientInv
<1>8. \A r \in requests' :
        \/ r \in requests /\ r.client # l
        \/ /\ r \in Requests /\ r.client = 0 /\ r.op = op /\ op \in failed' /\ Truthful(r)
           /\ \E q \in requests : q.client = l /\ q.op = op /\ r = [q EXCEPT !.client = 0]
  BY <1>3, <1>6
<1>9. requests' \subseteq Requests /\ \A r \in requests' : Truthful(r)
  BY <1>8 DEF IInv, RequestInv
<1>10. ClientInv'
  BY <1>2, <1>8 DEF IInv, RequestInv, ClientInv
<1>11. \A r \in requests' : r.client = 0 => r.op \in failed'
  BY <1>3, <1>8 DEF IInv, RequestInv
<1>12. ASSUME NEW r \in requests', NEW p \in requests', r.op = p.op PROVE r = p
  <2>1. CASE r \in requests /\ p \in requests
    BY <1>12, <2>1 DEF IInv, RequestInv
  <2>2. ASSUME NEW s \in requests, s.client # l PROVE \A q \in requests : q.client = l => s.op # q.op
    BY <2>2 DEF IInv, RequestInv
  <2>3. CASE r \notin requests \/ p \notin requests
    BY <1>7, <1>8, <1>12, <2>2, <2>3
  <2>. QED BY <2>1, <2>3
<1>13. ASSUME NEW m \in Lanes, lanes'[m].state = "send"
       PROVE  lanes'[m].op \notin Stored /\ \A r \in requests' : r.op # lanes'[m].op
  <2>1. m # l /\ lanes'[m] = lanes[m]
    BY <1>2, <1>13
  <2>2. lanes[m].op # op
    BY <1>13, <2>1 DEF IInv, TrafficInv, LaneInv, Busy
  <2>. QED BY <1>8, <1>13, <2>1, <2>2 DEF IInv, RequestInv
<1>. QED BY <1>5, <1>9, <1>10, <1>11, <1>12, <1>13 DEF RequestInv

LEMMA RecordOutcome ==
  ASSUME IInv, NEW l \in Lanes, Busy(l), NEW b \in BOOLEAN, Record(l, b), pc = "traffic",
         nextOperation' = nextOperation, Stored' = Stored, outcome' = outcome,
         profile' = profile, pc' = pc, phase' = phase,
         b /\ OperationPlan(lanes[l].op).kind = "deposit" => lanes[l].op \in Stored
  PROVE  OutcomeInv'
<1> DEFINE op == lanes[l].op
<1>1. /\ \A o : Taken(o)' <=> Taken(o)
      /\ op \in Operations /\ recorded'[op] = 1
      /\ \A o \in Operations : o # op => recorded'[o] = recorded[o]
  BY RecordTraffic DEF IInv
<1>2. Operations' = Operations /\ \A o : OperationPlan(o)' = OperationPlan(o)
  BY SamePlan
<1>3. \/ b /\ failed' = failed
           /\ successfulDeposits' = IF OperationPlan(op).kind = "deposit"
                                    THEN successfulDeposits \cup {op} ELSE successfulDeposits
      \/ ~b /\ failed' = failed \cup {op} /\ successfulDeposits' = successfulDeposits
  BY DEF Record
<1>4. OperationPlan(op).kind \in {"read", "deposit"}
  BY <1>1, PlanFacts DEF IInv, TrafficInv, TrafficTypes
<1>5. Stored \subseteq Operations
  BY DEF Stored
<1> HIDE DEF op
<1>6. failed' \subseteq Operations /\ \A o \in failed' : recorded'[o] = 1
  BY <1>1, <1>3 DEF IInv, OutcomeInv
<1>7. \A o \in successfulDeposits' :
        o \in Stored /\ recorded'[o] = 1 /\ OperationPlan(o).kind = "deposit"
  BY <1>1, <1>3, <1>5 DEF IInv, OutcomeInv, op
<1>8. \A o \in Operations : recorded'[o] = 1 =>
        o \in failed' \/ OperationPlan(o).kind = "read" \/ o \in successfulDeposits'
  BY <1>1, <1>3, <1>4 DEF IInv, OutcomeInv
<1>. QED BY <1>1, <1>2, <1>6, <1>7, <1>8 DEF IInv, OutcomeInv

LEMMA LaneStep ==
  ASSUME IInv, NEW l \in Lanes, Lane(l)
  PROVE  AccountInv' /\ RequestInv' /\ OutcomeInv'
<1>1. /\ pc = "traffic" /\ profile' = profile /\ accounts' = accounts /\ pc' = pc
      /\ phase' = phase /\ outcome' = outcome
  BY LaneWorks DEF IInv, RequestInv
<1>2. Seeded
  BY <1>1 DEF IInv, AccountInv, Serving
<1>3. AccountInv' /\ Stored' = Stored
  BY <1>1, <1>2, AccountsStand DEF IInv
<1>4. lanes[l] \in LaneRecords /\ OutcomeInv /\ pc' # "verify" /\ outcome' # "mismatch"
  BY <1>1 DEF IInv, TrafficInv, TrafficTypes, OutcomeInv
<1>5. ASSUME UNCHANGED records, \A o \in Operations : Taken(o) => Taken(o)'
      PROVE  OutcomeInv'
  <2>1. Stored \subseteq Operations
    BY DEF Stored
  <2>. QED BY <1>1, <1>3, <1>4, <1>5, <2>1, OutcomeStands DEF OutcomeInv
<1>6. CASE Take(l)
  <2>1. RequestInv'
    BY <1>1, <1>3, <1>6, TakeRequests
  <2>2. UNCHANGED records /\ \A o \in Operations : Taken(o) => Taken(o)'
    BY <1>1, <1>6, TakeTraffic DEF IInv, Take
  <2>. QED BY <1>3, <1>5, <2>1, <2>2
<1>7. ASSUME nextOperation' = nextOperation
      PROVE  \A o : Taken(o)' <=> Taken(o)
  BY <1>1, <1>7, SamePhase DEF Taken
<1>8. CASE Send(l)
  <2>1. RequestInv'
    BY <1>1, <1>3, <1>8, SendRequests
  <2>2. UNCHANGED records /\ nextOperation' = nextOperation
    BY <1>8 DEF Send
  <2>. QED BY <1>3, <1>5, <1>7, <2>1, <2>2
<1>9. CASE ConnectionFails(l)
  <2>1. /\ Busy(l) /\ Record(l, FALSE) /\ requests' = requests
        /\ nextOperation' = nextOperation
    BY <1>9 DEF ConnectionFails, Busy
  <2>2. \A q \in requests : q.client # l
    <3>1. CASE lanes[l].state = "send"
      BY <3>1 DEF IInv, RequestInv, ClientInv, Lanes
    <3>2. CASE {q \in requests : q.client = l} = {}
      BY <3>2
    <3>. QED BY <1>9, <3>1, <3>2 DEF ConnectionFails
  <2>3. RequestInv'
    BY <1>1, <1>3, <2>1, <2>2, RecordRequests
  <2>4. OutcomeInv'
    BY <1>1, <1>3, <2>1, RecordOutcome
  <2>. QED BY <1>3, <2>3, <2>4
<1>10. CASE Timeout(l)
  <2>1. /\ Busy(l) /\ Record(l, FALSE) /\ nextOperation' = nextOperation
        /\ GiveUp(l)
    BY <1>10 DEF Timeout, Busy
  <2>2. ASSUME NEW r \in requests'
        PROVE  \/ r \in requests /\ r.client # l
               \/ \E q \in requests : q.client = l /\ r = [q EXCEPT !.client = 0]
    BY <2>1 DEF GiveUp
  <2>3. RequestInv'
    BY <1>1, <1>3, <2>1, <2>2, RecordRequests
  <2>4. OutcomeInv'
    BY <1>1, <1>3, <2>1, RecordOutcome
  <2>. QED BY <1>3, <2>3, <2>4
<1>11. CASE Receive(l)
  <2>1. PICK q \in requests :
          /\ q.client = l /\ q.step = "answered" /\ requests' = requests \ {q}
          /\ IF q.status = 409 /\ lanes[l].attempt < maxRetries
             THEN /\ lanes' = [lanes EXCEPT ![l] = [state |-> "send", op |-> @.op,
                                                    attempt |-> @.attempt + 1]]
                  /\ UNCHANGED records
             ELSE Record(l, ValidResponse(q))
          /\ nextOperation' = nextOperation
    BY <1>11 DEF Receive
  <2>2. /\ Busy(l) /\ lanes[l].op = q.op
        /\ \A r \in requests : r.client = l => r = q
    BY <2>1 DEF IInv, RequestInv, ClientInv, Lanes, Busy
  <2>3. CASE q.status = 409 /\ lanes[l].attempt < maxRetries
    <3>1. RequestInv'
      BY <1>1, <1>3, <2>1, <2>3, RetryRequests
    <3>. QED BY <1>3, <1>5, <1>7, <2>1, <2>3, <3>1
  <2>4. CASE ~(q.status = 409 /\ lanes[l].attempt < maxRetries)
    <3>1. PICK b \in BOOLEAN : b = ValidResponse(q)
      BY DEF ValidResponse
    <3>2. Record(l, b)
      BY <2>1, <2>4, <3>1
    <3>3. b /\ OperationPlan(q.op).kind = "deposit" => q.op \in Stored
      BY <2>1, <3>1 DEF ValidResponse, IInv, RequestInv, Truthful
    <3>4. RequestInv'
      BY <1>1, <1>3, <2>1, <2>2, <3>2, RecordRequests
    <3>5. OutcomeInv'
      BY <1>1, <1>3, <2>1, <2>2, <3>2, <3>3, RecordOutcome
    <3>. QED BY <1>3, <3>4, <3>5
  <2>. QED BY <2>3, <2>4
<1>. QED BY <1>6, <1>8, <1>9, <1>10, <1>11 DEF Lane

-----------------------------------------------------------------------------
(* Verification.                                                           *)

\* What is stored as an operation's deposit is one on this account.
LEMMA LiveDeposit ==
  ASSUME NEW a \in Accounts, NEW n \in Nat, NEW plan, NEW s, Proper(a, s, n, plan),
         NEW v \in 1..Len(s), NEW o \in Nat, s[v].token = LiveToken(o)
  PROVE  /\ o \in 0..(n - 1) /\ plan[o].account = a /\ plan[o].kind = "deposit"
         /\ v > History(a) /\ s[v] = DepositOf(o, plan)
<1>1. History(a) \in Nat /\ Len(s) \in Nat
  BY HistoryType DEF Proper
<1>2. ~(v <= History(a))
  <2>1. SUFFICES ASSUME v <= History(a) PROVE FALSE
    OBVIOUS
  <2>2. s[v] = Opened(a) \/ s[v] = Deposited(SeedToken(a, v - 1), 1)
    BY <2>1 DEF Proper, IsSeed
  <2>3. s[v].token = SeedToken(a, 0) \/ s[v].token = SeedToken(a, v - 1)
    BY <2>2 DEF Opened, Deposited
  <2>. QED BY <2>3, TokensDiffer
<1>3. v > History(a)
  BY <1>1, <1>2
<1>4. IsLater(a, s, v, n, plan)
  BY <1>3 DEF Proper
<1>5. s[v] # SnapshotOf(Balance(SubSeq(s, 1, v - 1)))
  BY TokensDiffer DEF SnapshotOf
<1>6. PICK p \in 0..(n - 1) : /\ s[v] = DepositOf(p, plan)
                               /\ plan[p].account = a /\ plan[p].kind = "deposit"
  BY <1>4, <1>5 DEF IsLater
<1>7. s[v].token = LiveToken(p) /\ p \in Nat
  BY <1>6 DEF DepositOf, Deposited
<1>8. p = o
  BY <1>7, TokensDiffer
<1>. QED BY <1>3, <1>6, <1>8

\* At verification the deposits that succeeded are those stored.
LEMMA SuccessfulAreStored ==
  ASSUME IInv, pc = "verify", NEW a \in Accounts
  PROVE  /\ SuccessfulOn(a) = {o \in Operations : Live(accounts[a], o)}
         /\ successfulDeposits \subseteq Operations
<1>1. profile \in Profiles /\ Proper(a, accounts[a], RequestCount(profile), Plan)
      /\ RequestCount(profile) \in Nat
  BY PlanType DEF IInv, TrafficInv, TrafficTypes, AccountInv
<1>2. successfulDeposits \subseteq Operations
  BY DEF IInv, OutcomeInv, Stored
<1>3. \A o \in SuccessfulOn(a) : Live(accounts[a], o)
  BY DEF SuccessfulOn, IInv, OutcomeInv, Stored
<1>4. ASSUME NEW o \in Operations, Live(accounts[a], o) PROVE o \in SuccessfulOn(a)
  <2>1. PICK v \in 1..Len(accounts[a]) : accounts[a][v].token = LiveToken(o)
    BY <1>4 DEF Live
  <2>2. o \in Nat /\ Plan[o] = OperationPlan(o)
    BY <1>1, PlanFacts
  <2>3. OperationPlan(o).account = a /\ OperationPlan(o).kind = "deposit"
    BY <1>1, <2>1, <2>2, LiveDeposit
  <2>4. recorded[o] = 1 /\ o \notin failed
    BY DEF IInv, TrafficInv, StageInv, OutcomeInv
  <2>5. o \in successfulDeposits
    BY <2>3, <2>4 DEF IInv, OutcomeInv
  <2>. QED BY <2>3, <2>5 DEF SuccessfulOn
<1>. QED BY <1>2, <1>3, <1>4 DEF SuccessfulOn

\* Each stored event is the one that verification expects at its place, and the
\* deposits it counts are those of the operations.
LEMMA EventsAreValid ==
  ASSUME IInv, pc = "verify", NEW a \in Accounts, NEW v \in DOMAIN accounts[a]
  PROVE  /\ ValidEvent(a, v)
         /\ v \in LiveVersions(a)
              <=> \E o \in Operations : accounts[a][v].token = LiveToken(o)
<1> DEFINE s == accounts[a]
           n == RequestCount(profile)
           before == SubSeq(s, 1, v - 1)
<1>1. profile \in Profiles /\ Proper(a, s, n, Plan) /\ n \in Nat /\ Operations = 0..(n - 1)
  BY PlanType DEF IInv, TrafficInv, TrafficTypes, AccountInv, Operations
<1>2. /\ s \in Seq(Events) /\ Len(s) \in Nat /\ v \in 1..Len(s) /\ History(a) \in Nat \ {0}
      /\ \A u \in 1..Len(s) : u <= History(a) => IsSeed(a, u, s[u])
      /\ \A o \in Operations : o \in Nat
  <2>1. s \in Seq(Events)
    BY <1>1 DEF Proper
  <2>2. DOMAIN s = 1..Len(s) /\ Len(s) \in Nat
    <3> HIDE DEF s
    <3>. QED BY <2>1
  <2>. QED BY <1>1, <2>1, <2>2, HistoryType DEF Proper
<1>3. /\ before \in Seq(Events) /\ Len(before) = v - 1
      /\ \A u \in DOMAIN before : u \in 1..Len(s) /\ u # v /\ before[u] = s[u]
  <2>1. /\ before \in Seq(Events) /\ Len(before) = v - 1
        /\ \A u \in 1..(v - 1) : before[u] = s[u]
    <3>1. v - 1 \in 0..Len(s)
      BY <1>2
    <3> HIDE DEF s
    <3>. QED BY <1>2, <3>1, SubSeqProperties
  <2> HIDE DEF before, s
  <2>. QED BY <1>2, <2>1
<1> DEFINE count == SourceEventCount(before)
<1>4. ASSUME v <= History(a)
      PROVE  /\ count = v - 1
             /\ IF v = 1 THEN s[v] = Opened(a) ELSE s[v] = Deposited(SeedToken(a, v - 1), 1)
  <2>1. v - 1 \in 0..Len(s) /\ v - 1 <= History(a)
    BY <1>2, <1>4
  <2>2. count = v - 1
    <3> HIDE DEF s
    <3>. QED BY <1>2, <2>1, SeedTotals
  <2>3. IsSeed(a, v, s[v])
    BY <1>2, <1>4
  <2>. QED BY <2>2, <2>3 DEF IsSeed
<1>5. /\ ValidEvent(a, v) <=>
           CASE s[v].type = "AccountOpened" -> count = 0 /\ s[v].amount = 0
             [] s[v].type = "MoneyDeposited" ->
                  IF s[v].token = SeedToken(a, count) THEN s[v].amount = 1
                  ELSE /\ validateLiveDeposit(a, s[v])
                       /\ \A u \in DOMAIN before : before[u].token # s[v].token
             [] s[v].type = "Snapshot" -> s[v].amount = Balance(before)
      /\ v \in LiveVersions(a) <=>
           s[v].type = "MoneyDeposited" /\ s[v].token # SeedToken(a, count)
  BY DEF ValidEvent, LiveVersions
<1> HIDE DEF before, count
<1>6. CASE v <= History(a) /\ v = 1
  <2>1. s[v].type = "AccountOpened" /\ s[v].amount = 0 /\ count = 0
        /\ s[v].token = SeedToken(a, 0)
    BY <1>4, <1>6 DEF Opened
  <2>2. ~\E o \in Operations : s[v].token = LiveToken(o)
    BY <1>2, <2>1, TokensDiffer
  <2> HIDE DEF s
  <2>. QED BY <1>5, <2>1, <2>2 DEF s
<1>7. CASE v <= History(a) /\ v # 1
  <2>1. s[v].type = "MoneyDeposited" /\ s[v].amount = 1 /\ s[v].token = SeedToken(a, count)
    BY <1>4, <1>7 DEF Deposited
  <2>2. ~\E o \in Operations : s[v].token = LiveToken(o)
    BY <1>2, <2>1, TokensDiffer
  <2> HIDE DEF s
  <2>. QED BY <1>5, <2>1, <2>2 DEF s
<1>8. CASE ~(v <= History(a))
  <2>1. IsLater(a, s, v, n, Plan)
    <3>1. v > History(a)
      BY <1>2, <1>8
    <3>. QED BY <1>1, <1>2, <3>1 DEF Proper
  <2>2. CASE s[v] = SnapshotOf(Balance(before))
    <3>1. s[v].type = "Snapshot" /\ s[v].amount = Balance(before) /\ s[v].token = <<>>
      BY <2>2 DEF SnapshotOf
    <3>2. ~\E o \in Operations : s[v].token = LiveToken(o)
      BY <1>2, <3>1, TokensDiffer
    <3> HIDE DEF s
    <3>. QED BY <1>5, <3>1, <3>2 DEF s
  <2>3. ASSUME NEW o \in 0..(n - 1), s[v] = DepositOf(o, Plan)
        PROVE  /\ ValidEvent(a, v)
               /\ v \in LiveVersions(a) /\ \E p \in Operations : s[v].token = LiveToken(p)
    <3>1. /\ s[v].type = "MoneyDeposited" /\ s[v].token = LiveToken(o)
          /\ s[v].amount = Plan[o].amount
      BY <2>3 DEF DepositOf, Deposited
    <3>2. o \in Operations /\ o \in Nat /\ Plan[o] = OperationPlan(o)
      BY <1>1, PlanFacts
    <3>3. s[v].token # SeedToken(a, count)
      BY <3>1, <3>2, TokensDiffer
    <3>4. o \in SuccessfulOn(a)
      <4>1. Live(s, o)
        BY <1>2, <3>1 DEF Live
      <4>. QED BY <3>2, <4>1, SuccessfulAreStored
    <3>5. validateLiveDeposit(a, s[v])
      BY <3>1, <3>2, <3>4 DEF validateLiveDeposit
    <3>6. \A u \in DOMAIN before : before[u].token # s[v].token
      BY <1>1, <1>2, <1>3, <3>1, <3>2 DEF Proper, OnceEach
    <3> HIDE DEF s
    <3>. QED BY <1>5, <3>1, <3>2, <3>3, <3>5, <3>6
  <2>. QED BY <2>1, <2>2, <2>3 DEF IsLater, before
<1>. QED BY <1>6, <1>7, <1>8

LEMMA AccountVerifies ==
  ASSUME IInv, pc = "verify", NEW a \in Accounts
  PROVE  verifyHttpAccount(a)
<1> DEFINE s == accounts[a]
           n == RequestCount(profile)
<1>1. profile \in Profiles /\ Proper(a, s, n, Plan) /\ n \in Nat /\ Operations = 0..(n - 1)
      /\ Len(s) >= History(a)
  BY PlanType DEF IInv, TrafficInv, TrafficTypes, AccountInv, Operations, Serving, Seeded
<1>2. SuccessfulOn(a) = {o \in Operations : Live(s, o)}
  BY SuccessfulAreStored
<1>3. AddsUp(a, s, n, Plan)
  BY <1>1 DEF Proper
<1>4. SourceEventCount(s) = ExpectedSourceEventCount(a)
  BY <1>1, <1>2, <1>3 DEF AddsUp, ExpectedSourceEventCount, History
<1>5. Balance(s) = ExpectedBalance(a)
  <2> DEFINE f == [k \in 1..n |-> IF Live(s, k - 1) THEN Plan[k - 1].amount ELSE 0]
             g == [k \in 1..n |->
                     IF k - 1 \in SuccessfulOn(a) THEN OperationPlan(k - 1).amount ELSE 0]
  <2>1. ASSUME NEW k \in 1..n PROVE f[k] = g[k]
    <3>1. k - 1 \in Operations
      BY <1>1
    <3>2. Plan[k - 1] = OperationPlan(k - 1)
      BY <3>1 DEF Plan
    <3>3. k - 1 \in SuccessfulOn(a) <=> Live(s, k - 1)
      BY <1>2, <3>1
    <3>. QED BY <3>2, <3>3
  <2>2. f = g
    BY <2>1
  <2>3. Balance(s) = History(a) - 1 + Total(f)
    BY <1>3 DEF AddsUp, LiveSum
  <2>4. ExpectedBalance(a) = History(a) - 1 + Total(g)
    BY DEF ExpectedBalance, History
  <2> HIDE DEF f, g
  <2>. QED BY <2>2, <2>3, <2>4
<1>. QED BY <1>4, <1>5, EventsAreValid DEF verifyHttpAccount

LEMMA TokensCounted ==
  ASSUME IInv, pc = "verify"
  PROVE  Cardinality(SeenLiveTokens) = Cardinality(successfulDeposits)
<1> DEFINE f == [o \in successfulDeposits |-> LiveToken(o)]
<1>1. profile \in Profiles /\ RequestCount(profile) \in Nat
  BY PlanType DEF IInv, TrafficInv, TrafficTypes
<1>2. successfulDeposits \subseteq Operations /\ \A o \in Operations : o \in Nat
  BY <1>1, PlanFacts DEF IInv, OutcomeInv, Stored
<1>3. ASSUME NEW o \in successfulDeposits PROVE LiveToken(o) \in SeenLiveTokens
  <2>1. PICK a \in Accounts : a = OperationPlan(o).account
    BY <1>1, <1>2, PlanFacts
  <2>2. Live(accounts[a], o)
    BY <2>1 DEF IInv, OutcomeInv, Stored
  <2>3. PICK v \in 1..Len(accounts[a]) : accounts[a][v].token = LiveToken(o)
    BY <2>2 DEF Live
  <2>4. v \in DOMAIN accounts[a]
    <3>1. accounts[a] \in Seq(Events)
      BY DEF IInv, AccountInv
    <3>. QED BY <2>3, <3>1
  <2>5. v \in LiveVersions(a)
    BY <1>2, <2>3, <2>4, EventsAreValid
  <2>. QED BY <2>3, <2>5 DEF SeenLiveTokens
<1>4. ASSUME NEW t \in SeenLiveTokens PROVE \E o \in successfulDeposits : LiveToken(o) = t
  <2>1. PICK a \in Accounts : t \in {accounts[a][v].token : v \in LiveVersions(a)}
    BY DEF SeenLiveTokens
  <2>2. PICK v \in LiveVersions(a) : t = accounts[a][v].token
    BY <2>1
  <2>3. v \in DOMAIN accounts[a] /\ v \in 1..Len(accounts[a])
    <3>1. v \in DOMAIN accounts[a] /\ accounts[a] \in Seq(Events)
      BY DEF LiveVersions, IInv, AccountInv
    <3>. QED BY <3>1
  <2>4. PICK o \in Operations : t = LiveToken(o)
    BY <2>2, <2>3, EventsAreValid
  <2>5. Live(accounts[a], o)
    BY <2>2, <2>3, <2>4 DEF Live
  <2>6. o \in successfulDeposits
    BY <2>5, SuccessfulAreStored DEF SuccessfulOn
  <2>. QED BY <2>4, <2>6
<1>5. ExistsBijection(successfulDeposits, SeenLiveTokens)
  <2>1. f \in [successfulDeposits -> SeenLiveTokens]
    BY <1>3
  <2>2. \A o, p \in successfulDeposits : f[o] = f[p] => o = p
    BY <1>2, TokensDiffer
  <2>3. \A t \in SeenLiveTokens : \E o \in successfulDeposits : f[o] = t
    BY <1>4
  <2> HIDE DEF f
  <2>4. f \in Bijection(successfulDeposits, SeenLiveTokens)
    BY <2>1, <2>2, <2>3 DEF Bijection, Injection, IsInjective, Surjection
  <2>. QED BY <2>4 DEF ExistsBijection
<1>6. IsFiniteSet(successfulDeposits)
  <2>1. IsFiniteSet(Operations)
    BY <1>1, FS_Interval DEF Operations
  <2>. QED BY <1>2, <2>1, FS_Subset
<1>. QED BY <1>5, <1>6, FS_Bijection

LEMMA Verifies == IInv /\ pc = "verify" => verifyAccounts
BY AccountVerifies, TokensCounted DEF verifyAccounts

-----------------------------------------------------------------------------
(* The invariant.                                                          *)

LEMMA InitIInv == Init => IInv
<1> SUFFICES ASSUME Init PROVE IInv
  OBVIOUS
<1>1. TrafficInv
  BY InitTraffic
<1>2. profile \in Profiles /\ RequestCount(profile) \in Nat
      /\ Plan \in Plans(RequestCount(profile))
  BY PlanType DEF Init
<1>3. accounts \in [Accounts -> Seq(Events)] /\ \A a \in Accounts : accounts[a] = <<>>
  <2>1. <<>> \in Seq(Events)
    OBVIOUS
  <2>. QED BY <2>1 DEF Init
<1>4. ASSUME NEW a \in Accounts
      PROVE  /\ Proper(a, accounts[a], RequestCount(profile), Plan)
             /\ \A o \in Nat : ~Live(accounts[a], o)
  <2>1. /\ <<>> \in Seq(Events) /\ Len(<<>>) <= History(a)
        /\ \A v \in 1..Len(<<>>) : IsSeed(a, v, <<>>[v])
    <3>1. Len(<<>>) = 0 /\ <<>> \in Seq(Events) /\ History(a) \in Nat
      BY HistoryType
    <3>. QED BY <3>1
  <2>2. Proper(a, <<>>, RequestCount(profile), Plan) /\ \A o \in Nat : ~Live(<<>>, o)
    BY <1>2, <2>1, SeedsOnly
  <2>. QED BY <1>3, <2>2
<1>5. requests = {} /\ pc = "database" /\ outcome = "none" /\ failed = {}
      /\ successfulDeposits = {}
  BY DEF Init
<1>6. AccountInv
  BY <1>3, <1>4, <1>5 DEF AccountInv, Serving
<1>7. Stored = {}
  BY <1>2, <1>4, PlanFacts DEF Stored
<1>8. \A l \in Lanes : lanes[l].state = "done"
  BY DEF Init, Idle, IdleLane
<1>9. \A o \in Operations : recorded[o] = 0
  BY DEF Init
<1>10. RequestInv
  BY <1>5, <1>8 DEF RequestInv, ClientInv
<1>11. OutcomeInv
  BY <1>5, <1>7, <1>9 DEF OutcomeInv
<1>. QED BY <1>1, <1>6, <1>10, <1>11 DEF IInv

\* Steps that neither store nor record nor send, and are not a lane's.
LEMMA StandingStep ==
  ASSUME IInv, TrafficInv', UNCHANGED <<profile, accounts, records>>,
         requests' \subseteq requests, pc' \in Serving => Seeded,
         pc' = "verify" => failed = {}, outcome' # "mismatch",
         \/ UNCHANGED traffic
         \/ /\ \A l \in Lanes : lanes[l].state = "done"
            /\ \A l \in Lanes : lanes'[l].state # "send"
  PROVE  AccountInv' /\ RequestInv' /\ OutcomeInv'
<1>1. profile' = profile /\ accounts' = accounts /\ failed' = failed /\ recorded' = recorded
  BY DEF records
<1>2. AccountInv' /\ Stored' = Stored
  <2>1. requests' # {} => Seeded
    BY DEF IInv, AccountInv
  <2>. QED BY <1>1, <2>1, AccountsStand DEF IInv
<1>3. RequestInv'
  BY <1>1, <1>2, RequestsStand DEF IInv, traffic
<1>4. ASSUME NEW o \in Operations, Taken(o) PROVE Taken(o)'
  <2>1. CASE UNCHANGED traffic
    BY <1>1, <1>4, <2>1, SamePhase DEF Taken, traffic
  <2>2. CASE \A l \in Lanes : lanes[l].state = "done"
    <3>1. recorded[o] = 1
      BY <1>4, <2>2 DEF IInv, TrafficInv, RecordInv, Busy
    <3>2. Operations' = Operations
      BY <1>1, SamePlan
    <3>. QED BY <1>1, <3>1, <3>2 DEF TrafficInv, RecordInv
  <2>. QED BY <2>1, <2>2
<1>5. OutcomeInv'
  <2>1. Stored \subseteq Operations
    BY DEF Stored
  <2>. QED BY <1>1, <1>2, <1>4, <2>1, OutcomeStands DEF IInv, OutcomeInv
<1>. QED BY <1>2, <1>3, <1>5

LEMMA QuietStep ==
  ASSUME IInv, Quiet
  PROVE  AccountInv' /\ RequestInv' /\ OutcomeInv'
<1>1. /\ UNCHANGED <<profile, traffic, records>> /\ TrafficInv'
      /\ \A o : Taken(o)' <=> Taken(o)
  <2>1. /\ UNCHANGED <<profile, traffic, records>>
        /\ \/ pc' = pc
           \/ pc # "traffic" /\ (pc' = "ended" \/ (pc \in Preparing /\ pc' \in Preparing))
    BY QuietEffect
  <2>. QED BY <2>1, TrafficStands DEF IInv, records
<1>2. AccountInv /\ OutcomeInv /\ profile \in Profiles
      /\ (pc \in Serving => Seeded) /\ (pc = "verify" => failed = {}) /\ outcome # "mismatch"
  BY DEF IInv, AccountInv, OutcomeInv, TrafficInv, TrafficTypes
<1>3. CASE Seed
  <2>1. AccountInv' /\ Stored' = Stored
    BY <1>2, <1>3, SeedStep
  <2>2. RequestInv'
    BY <1>1, <1>3, <2>1, RequestsStand DEF IInv, Seed, traffic, records
  <2>3. OutcomeInv'
    <3>1. pc' = pc /\ outcome' = outcome
      BY <1>3 DEF Seed, driver
    <3>2. \A o \in Stored' : Taken(o)'
      BY <1>1, <1>2, <2>1 DEF OutcomeInv
    <3>. QED BY <1>1, <1>2, <2>1, <3>1, <3>2, OutcomeStands
  <2>. QED BY <2>1, <2>2, <2>3
<1>4. ASSUME NEW q \in requests, HandleLoad(q) \/ HandleAppend(q) \/ HandleFails(q)
      PROVE  AccountInv' /\ RequestInv' /\ OutcomeInv'
  BY <1>4, ServesStep
<1>5. CASE StartWorkers
  <2>1. Seeded
    <3>1. ASSUME NEW a \in Accounts PROVE Len(accounts[a]) >= History(a)
      <4>1. Len(accounts[a]) \in Nat /\ History(a) \in Nat
        BY HistoryType DEF IInv, AccountInv
      <4>2. ~(Len(accounts[a]) < History(a))
        BY <1>5 DEF StartWorkers, Unseeded, History
      <4>. QED BY <4>1, <4>2
    <3>. QED BY <3>1 DEF Seeded
  <2>2. pc' = "start" /\ outcome' = outcome /\ requests' = requests /\ accounts' = accounts
    BY <1>5 DEF StartWorkers
  <2>. QED BY <1>1, <1>2, <2>1, <2>2, StandingStep
<1>6. ASSUME accounts' = accounts, requests' \subseteq requests,
             pc' \in {pc, "ended"} \/ (pc = "start" /\ pc' = "benchmark") \/ pc' = "seed",
             outcome' # "mismatch"
      PROVE  AccountInv' /\ RequestInv' /\ OutcomeInv'
  <2>1. pc' \in Serving => Seeded
    BY <1>2, <1>6 DEF Serving
  <2>2. pc' = "verify" => failed = {}
    BY <1>2, <1>6
  <2>. QED BY <1>1, <1>6, <2>1, <2>2, StandingStep
<1>7. CASE DatabaseStarts \/ StatementFails \/ AllReady
  BY <1>2, <1>6, <1>7 DEF DatabaseStarts, StatementFails, AllReady, End
<1>8. CASE MeasureSnapshotRead \/ BenchmarkFails \/ ReadyTimeoutPasses \/ RunDeadline
  BY <1>2, <1>6, <1>8 DEF MeasureSnapshotRead, BenchmarkFails, ReadyTimeoutPasses,
     RunDeadline, End
<1>9. CASE Verify
  <2>1. outcome' = "passed" /\ pc' = "ended" /\ accounts' = accounts /\ requests' = requests
    BY <1>9, Verifies DEF Verify, End
  <2>. QED BY <1>6, <2>1
<1>10. ASSUME NEW r \in Replicas, Listen(r) \/ Exit(r)
       PROVE  AccountInv' /\ RequestInv' /\ OutcomeInv'
  BY <1>2, <1>6, <1>10 DEF Listen, Exit, End
<1>. QED BY <1>3, <1>4, <1>5, <1>7, <1>8, <1>9, <1>10 DEF Quiet, Replica

LEMMA StepIInv == IInv /\ [Next]_vars => IInv'
<1> SUFFICES ASSUME IInv, [Next]_vars PROVE IInv'
  OBVIOUS
<1>1. TrafficInv'
  BY TrafficStep DEF IInv, RequestInv
<1>2. (pc \in Serving => Seeded) /\ outcome # "mismatch" /\ (pc = "verify" => failed = {})
  BY DEF IInv, AccountInv, OutcomeInv
<1>3. CASE UNCHANGED vars
  <2>1. /\ UNCHANGED <<profile, accounts, records, traffic>> /\ requests' = requests
        /\ pc' = pc /\ outcome' = outcome
    BY <1>3 DEF vars, driver
  <2>. QED BY <1>1, <1>2, <2>1, StandingStep DEF IInv
<1>4. CASE BenchmarkEnds
  <2>1. /\ UNCHANGED <<profile, accounts, records>> /\ requests' = requests
        /\ pc = "benchmark" /\ pc' = "traffic" /\ outcome' = outcome
        /\ lanes' = StartLanes(1)
    BY <1>4 DEF BenchmarkEnds
  <2>2. /\ \A l \in Lanes : lanes[l].state = "done"
        /\ \A l \in Lanes : lanes'[l].state # "send"
    BY <2>1, StartLanesType DEF IInv, TrafficInv, StageInv
  <2>3. Seeded
    BY <1>2, <2>1 DEF Serving
  <2>. QED BY <1>1, <1>2, <2>1, <2>2, <2>3, StandingStep DEF IInv
<1>5. CASE PhaseEnds
  <2>1. /\ UNCHANGED <<profile, accounts, records>> /\ requests' = requests
        /\ pc = "traffic" /\ \A l \in Lanes : lanes[l].state = "done"
    BY <1>5 DEF PhaseEnds
  <2>2. Seeded
    BY <1>2, <2>1 DEF Serving
  <2>3. /\ pc' = "verify" => failed = {}
        /\ UNCHANGED traffic \/ \A l \in Lanes : lanes'[l].state # "send"
    <3>1. CASE phase < Len(createTrafficPhases(profile))
      <4>1. lanes' = StartLanes(phase + 1) /\ pc' = pc /\ outcome' = outcome
        BY <1>5, <3>1 DEF PhaseEnds
      <4>. QED BY <1>2, <2>1, <4>1, StartLanesType
    <3>2. CASE ~(phase < Len(createTrafficPhases(profile)))
      BY <1>2, <1>5, <3>2 DEF PhaseEnds, End
    <3>. QED BY <3>1, <3>2
  <2>4. outcome' # "mismatch"
    BY <1>2, <1>5 DEF PhaseEnds, End
  <2>. QED BY <1>1, <2>1, <2>2, <2>3, <2>4, StandingStep DEF IInv
<1>6. CASE Quiet
  BY <1>1, <1>6, QuietStep DEF IInv
<1>7. ASSUME NEW l \in Lanes, Lane(l) PROVE IInv'
  BY <1>1, <1>7, LaneStep DEF IInv
<1>. QED BY <1>3, <1>4, <1>5, <1>6, <1>7 DEF Next, Prepare, Quiet, Ended

LEMMA Invariance == Spec => []IInv
<1>. QED BY InitIInv, StepIInv, PTL DEF Spec

\* An operation is recorded once, in its own phase, and the traffic ends with all
\* the configured operations recorded: runTrafficLane and the phases divide them
\* without a gap or an overlap, for any profile and any number of lanes.
THEOREM OperationsRecordedOnce == Spec => []EachOperationOnce
<1>1. IInv => EachOperationOnce
  BY TrafficIsRight DEF IInv
<1>. QED BY <1>1, Invariance, PTL

\* A deposit is stored once at most, whatever was retried and whoever gave up on
\* it, and one that its client saw succeed is stored.
THEOREM DepositsStoredOnce == Spec => []OneEventPerDeposit
<1>1. ASSUME IInv PROVE OneEventPerDeposit
  <2>1. profile \in Profiles /\ RequestCount(profile) \in Nat
    BY <1>1, PlanType DEF IInv, TrafficInv, TrafficTypes
  <2>2. ASSUME NEW o \in Operations
        PROVE  LET stored == Cardinality(UNION {{a} \X StoredAt(o, a) : a \in Accounts})
               IN  stored <= 1 /\ (o \in successfulDeposits => stored = 1)
    <3> DEFINE places == UNION {{a} \X StoredAt(o, a) : a \in Accounts}
               b == OperationPlan(o).account
    <3>1. o \in Nat /\ b \in Accounts /\ o \in 0..(RequestCount(profile) - 1)
          /\ Plan[o] = OperationPlan(o)
      BY <2>1, PlanFacts
    <3>2. \A a \in Accounts : /\ Proper(a, accounts[a], RequestCount(profile), Plan)
                              /\ DOMAIN accounts[a] = 1..Len(accounts[a])
      BY <1>1 DEF IInv, AccountInv
    <3>3. ASSUME NEW a \in Accounts, NEW v \in StoredAt(o, a)
          PROVE  a = b /\ v \in 1..Len(accounts[b]) /\ accounts[b][v].token = LiveToken(o)
      <4>1. v \in 1..Len(accounts[a]) /\ accounts[a][v].token = LiveToken(o)
        BY <3>2 DEF StoredAt
      <4>2. Plan[o].account = a
        BY <2>1, <3>1, <3>2, <4>1, LiveDeposit
      <4>. QED BY <3>1, <4>1, <4>2
    <3>4. \A u, v \in StoredAt(o, b) : u = v
      BY <3>1, <3>2, <3>3 DEF Proper, OnceEach
    <3> HIDE DEF b
    <3>5. places = {b} \X StoredAt(o, b)
      BY <3>1, <3>3
    <3>6. CASE StoredAt(o, b) = {}
      <4>1. places = {}
        BY <3>5, <3>6
      <4>2. o \notin successfulDeposits
        <5>1. ASSUME o \in successfulDeposits PROVE FALSE
          <6>1. Live(accounts[b], o)
            BY <1>1, <5>1 DEF IInv, OutcomeInv, Stored, b
          <6>. QED BY <3>1, <3>2, <3>6, <6>1 DEF Live, StoredAt
        <5>. QED BY <5>1
      <4> HIDE DEF places
      <4>3. Cardinality(places) = 0
        BY <4>1, FS_EmptySet
      <4>. QED BY <4>2, <4>3 DEF places
    <3>7. CASE StoredAt(o, b) # {}
      <4>1. PICK v \in StoredAt(o, b) : TRUE
        BY <3>7
      <4>2. StoredAt(o, b) = {v}
        BY <3>4, <4>1
      <4>3. places = {<<b, v>>}
        BY <3>5, <4>2
      <4> HIDE DEF places
      <4>4. Cardinality(places) = 1
        BY <4>3, FS_Singleton
      <4>. QED BY <4>4 DEF places
    <3>. QED BY <3>6, <3>7
  <2>. QED BY <2>2 DEF OneEventPerDeposit
<1>. QED BY <1>1, Invariance, PTL

\* verifyHttpAccounts finds nothing wrong with what a run none of whose operations
\* failed has stored, whatever its conflicts, its retries and its snapshots.
THEOREM VerificationIsRight == Spec => []VerificationAgrees
<1>1. IInv => VerificationAgrees
  BY DEF IInv, OutcomeInv, VerificationAgrees
<1>. QED BY <1>1, Invariance, PTL
=============================================================================

-------------------------- MODULE ArrayScanProofs --------------------------
(* Facts that the proofs about the tables of the program share: a search of *)
(* an array finds the first of what it looks for, and a queue is an order    *)
(* by rank, whatever the code takes for a rank (a stamp, a position).        *)
EXTENDS ArrayScan, VictimQueue, FiniteSetTheorems, TLAPS

\* A set of positions of an array has a first one, which a search of the array
\* finds (tlb.c:145, swap.c:176 and 205).  The proof takes, among the sets of
\* positions up to some member of S, one that is minimal for inclusion.
LEMMA FirstIsIn ==
  ASSUME NEW n \in Nat, NEW S \in SUBSET (0 .. n - 1), S # {}
  PROVE  First(S) \in S /\ \A j \in S : First(S) <= j
<1> DEFINE Slot == 0 .. n - 1
           UpTo(i) == {j \in S : j <= i}
           R == StrictSubsetOrdering(Slot)
<1>1. PICK U \in {UpTo(i) : i \in S} :
        \A V \in {UpTo(i) : i \in S} : <<V, U>> \notin R
  <2>1. IsFiniteSet(Slot)
    BY FS_Interval
  <2>2. \A i \in S : UpTo(i) \in SUBSET Slot /\ IsFiniteSet(UpTo(i))
    BY <2>1, FS_Subset
  <2>3. {UpTo(i) : i \in S} \subseteq FiniteSubsetsOf(Slot)
    BY <2>2 DEF FiniteSubsetsOf
  <2>4. {UpTo(i) : i \in S} # {}
    OBVIOUS
  <2>5. IsWellFoundedOn(R, FiniteSubsetsOf(Slot))
    BY FS_StrictSubsetOrderingWellFounded
  <2> HIDE DEF R, UpTo
  <2> QED BY <2>3, <2>4, <2>5, WFMin
<1>2. PICK i \in S : U = UpTo(i)
  BY <1>1
<1>3. ASSUME NEW j \in S, j < i
      PROVE  FALSE
  <2>1. UpTo(j) \in SUBSET Slot /\ UpTo(i) \in SUBSET Slot
    OBVIOUS
  <2>2. \A l \in S : l \in Int
    OBVIOUS
  <2>3. \A l \in S : l <= j => l <= i
    BY <1>3, <2>2
  <2>4. UpTo(j) \subseteq UpTo(i) /\ i \in UpTo(i) /\ i \notin UpTo(j)
    <3>1. ~ (i <= j)
      BY <1>3, <2>2
    <3>2. i <= i
      BY <2>2
    <3>3. i \in UpTo(i) /\ i \notin UpTo(j)
      BY <3>1, <3>2, Zenon
    <3>4. UpTo(j) \subseteq UpTo(i)
      BY <2>3, Zenon
    <3> QED BY <3>3, <3>4
  <2>5. <<UpTo(j), UpTo(i)>> \in R
    <3> HIDE DEF UpTo
    <3> QED BY <2>1, <2>4 DEF StrictSubsetOrdering
  <2> QED BY <1>1, <1>2, <2>5
<1>4. \A j \in S : i <= j
  BY <1>3
<1> QED BY <1>4 DEF First

\* The same of any set of natural numbers.
LEMMA FirstOfNaturals ==
  ASSUME NEW S \in SUBSET Nat, S # {}
  PROVE  First(S) \in S /\ \A j \in S : First(S) <= j
<1>1. PICK x \in S : x \in Nat
  OBVIOUS
<1> DEFINE T == {j \in S : j <= x}
<1>2. T \in SUBSET (0 .. (x + 1) - 1) /\ T # {} /\ x + 1 \in Nat
  <2>1. x \in T
    BY <1>1
  <2>2. \A j \in T : j \in Nat /\ j <= x
    OBVIOUS
  <2>3. \A j \in T : j \in 0 .. (x + 1) - 1
    BY <1>1, <2>2
  <2> HIDE DEF T
  <2> QED
    BY <1>1, <2>1, <2>3
<1>3. First(T) \in T /\ \A j \in T : First(T) <= j
  <2> HIDE DEF T
  <2> QED
    BY <1>2, FirstIsIn
<1>4. First(T) \in S /\ \A j \in S : First(T) <= j
  <2>1. First(T) \in S /\ First(T) <= x
    BY <1>3
  <2>2. ASSUME NEW j \in S PROVE First(T) <= j
    <3>1. CASE j <= x
      BY <1>3, <3>1
    <3>2. CASE ~(j <= x)
      <4>1. First(T) \in Nat /\ j \in Nat
        BY <2>1
      <4> HIDE DEF T
      <4> QED
        BY <1>1, <2>1, <3>2, <4>1
    <3> QED
      BY <3>1, <3>2
  <2> QED
    BY <2>1, <2>2
<1> QED
  BY <1>4 DEF First

\* A loop over positions that keeps, of those seen, the best (lru.c:91,
\* aging.c:83) ends with the first of the lowest value.
LEMMA LowestFirst ==
  ASSUME NEW K \in SUBSET Nat, K # {}, NEW value, \A x \in K : value[x] \in Nat
  PROVE  \E f \in K : \A g \in K \ {f} :
           value[f] < value[g] \/ (value[f] = value[g] /\ f < g)
<1> DEFINE values == {value[x] : x \in K}
           lowest == {x \in K : value[x] = First(values)}
<1>1. values \in SUBSET Nat /\ values # {} /\ \A x \in K : value[x] \in values
  OBVIOUS
<1>2. First(values) \in values /\ \A x \in K : First(values) <= value[x]
  <2> HIDE DEF values
  <2> QED
    BY <1>1, FirstOfNaturals
<1>3. lowest \in SUBSET Nat /\ lowest # {}
  BY <1>2
<1>4. First(lowest) \in lowest /\ \A x \in lowest : First(lowest) <= x
  <2> HIDE DEF lowest
  <2> QED
    BY <1>3, FirstOfNaturals
<1>5. ASSUME NEW g \in K \ {First(lowest)}
      PROVE  \/ value[First(lowest)] < value[g]
             \/ value[First(lowest)] = value[g] /\ First(lowest) < g
  <2>1. value[First(lowest)] = First(values) /\ First(lowest) \in K
    BY <1>4
  <2>2. CASE value[g] = First(values)
    <3>1. g \in lowest /\ g # First(lowest)
      BY <2>2
    <3>2. First(lowest) <= g /\ First(lowest) \in Nat /\ g \in Nat
      BY <1>4, <3>1
    <3> HIDE DEF lowest
    <3> QED
      BY <2>1, <2>2, <3>1, <3>2
  <2>3. CASE value[g] # First(values)
    BY <1>2, <2>1, <2>3
  <2> QED
    BY <2>2, <2>3
<1> QED
  BY <1>4, <1>5

-----------------------------------------------------------------------------
(* Queues. *)

\* The items of queue q are those of K, in the order of their ranks, which are
\* all different.
Ranked(q, K, rank) ==
  /\ q \subseteq K \X K
  /\ \A x \in K : rank[x] \in Int
  /\ \A x, y \in K : <<x, y>> \in q <=> rank[x] <= rank[y]
  /\ \A x, y \in K : rank[x] = rank[y] => x = y

LEMMA RankedEmpty == ASSUME NEW rank PROVE Ranked(Nobody, {}, rank)
BY DEF Ranked, Nobody

LEMMA RankedWaiting ==
  ASSUME NEW q, NEW K, NEW rank, Ranked(q, K, rank)
  PROVE  Waiting(q) = K
<1>1. ASSUME NEW pair \in q PROVE pair[1] \in K
  BY DEF Ranked
<1>2. ASSUME NEW x \in K PROVE \E pair \in q : pair[1] = x
  <2>1. <<x, x>> \in q /\ <<x, x>>[1] = x
    BY DEF Ranked
  <2> QED
    BY <2>1
<1> QED
  BY <1>1, <1>2 DEF Waiting

\* The ranks may be replaced by others that put the items in the same order.
LEMMA RankedAlike ==
  ASSUME NEW q, NEW K, NEW rank, NEW other, Ranked(q, K, rank),
         \A x \in K : other[x] \in Int,
         \A x, y \in K : rank[x] < rank[y] => other[x] < other[y]
  PROVE  Ranked(q, K, other)
<1>1. \A x, y \in K : \/ x = y
                      \/ rank[x] < rank[y] /\ other[x] < other[y]
                      \/ rank[y] < rank[x] /\ other[y] < other[x]
  BY DEF Ranked
<1>2. \A x, y \in K : rank[x] <= rank[y] <=> other[x] <= other[y]
  BY <1>1 DEF Ranked
<1>3. \A x, y \in K : other[x] = other[y] => x = y
  BY <1>1
<1> QED
  BY <1>2, <1>3 DEF Ranked

LEMMA RankedLeft ==
  ASSUME NEW q, NEW K, NEW rank, NEW S, Ranked(q, K, rank)
  PROVE  Ranked(Left(q, S), K \ S, rank)
<1>1. ASSUME NEW pair \in Left(q, S) PROVE pair \in (K \ S) \X (K \ S)
  BY DEF Left, Ranked
<1>2. ASSUME NEW x \in K \ S, NEW y \in K \ S
      PROVE  <<x, y>> \in Left(q, S) <=> rank[x] <= rank[y]
  <2>1. <<x, y>>[1] = x /\ <<x, y>>[2] = y
    OBVIOUS
  <2> QED
    BY <2>1 DEF Left, Ranked
<1> QED
  BY <1>1, <1>2 DEF Ranked

\* Who leaves and was not there changes nothing.
LEMMA LeftAbsent ==
  ASSUME NEW q, NEW K, NEW rank, NEW S, Ranked(q, K, rank), S \cap K = {}
  PROVE  Left(q, S) = q
BY DEF Ranked, Left

\* The item that was used has the highest rank.
LEMMA RankedUsed ==
  ASSUME NEW q, NEW K, NEW rank, NEW later, NEW x, Ranked(q, K, rank),
         later[x] \in Int,
         \A y \in K \ {x} : later[y] = rank[y] /\ later[y] < later[x]
  PROVE  Ranked(Used(q, x), K \union {x}, later)
<1> DEFINE others == Left(q, {x})
<1>1. Ranked(others, K \ {x}, rank)
  BY RankedLeft
<1>2. Waiting(others) = K \ {x}
  BY <1>1, RankedWaiting
<1>3. Used(q, x) = others \union {<<y, x>> : y \in K \union {x}}
  BY <1>2 DEF Used
<1> HIDE DEF others
<1>4. ASSUME NEW pair \in Used(q, x)
      PROVE  pair \in (K \union {x}) \X (K \union {x})
  BY <1>1, <1>3 DEF Ranked
<1>5. ASSUME NEW y \in K \union {x}, NEW z \in K \union {x}
      PROVE  <<y, z>> \in Used(q, x) <=> later[y] <= later[z]
  <2>1. CASE z = x
    BY <1>3, <2>1 DEF Ranked
  <2>2. CASE z # x
    <3>1. <<y, z>> \in Used(q, x) <=> <<y, z>> \in others
      BY <1>3, <2>2
    <3>2. CASE y = x
      BY <1>1, <2>2, <3>1, <3>2 DEF Ranked
    <3>3. CASE y # x
      BY <1>1, <2>2, <3>1, <3>3 DEF Ranked
    <3> QED
      BY <3>2, <3>3
  <2> QED
    BY <2>1, <2>2
<1>6. \A y \in K \union {x} : later[y] \in Int
  BY DEF Ranked
<1>7. \A y, z \in K \union {x} : later[y] = later[z] => y = z
  BY <1>6 DEF Ranked
<1> QED
  BY <1>4, <1>5, <1>6, <1>7 DEF Ranked

\* The head of the queue is the item of the lowest rank.
LEMMA RankedForemost ==
  ASSUME NEW q, NEW K, NEW rank, NEW x \in K, Ranked(q, K, rank),
         \A y \in K : rank[x] <= rank[y]
  PROVE  Foremost(q) = x
<1>1. Waiting(q) = K
  BY RankedWaiting
<1>2. \A y \in K : <<x, y>> \in q
  BY DEF Ranked
<1>3. ASSUME NEW z \in K, \A y \in K : <<z, y>> \in q
      PROVE  z = x
  <2>1. rank[z] <= rank[x] /\ rank[x] <= rank[z]
    BY <1>3 DEF Ranked
  <2> QED
    BY <2>1 DEF Ranked
<1> QED
  BY <1>1, <1>2, <1>3 DEF Foremost

\* Who is used twice in a row is used once.
LEMMA UsedTwice ==
  ASSUME NEW q, NEW K, NEW rank, NEW x, Ranked(q, K, rank)
  PROVE  Used(Used(q, x), x) = Used(q, x)
<1>1. Left(Used(q, x), {x}) = Left(q, {x})
  <2>1. ASSUME NEW pair \in Left(Used(q, x), {x}) PROVE pair \in Left(q, {x})
    <3>1. pair \in Used(q, x) /\ pair[2] # x
      BY DEF Left
    <3>2. \A y : <<y, x>>[2] = x
      OBVIOUS
    <3> QED
      BY <3>1, <3>2 DEF Used
  <2>2. ASSUME NEW pair \in Left(q, {x}) PROVE pair \in Left(Used(q, x), {x})
    BY DEF Used, Left
  <2> QED
    BY <2>1, <2>2
<1> QED
  BY <1>1 DEF Used

\* Who leaves and comes back is used.
LEMMA UsedAfterLeft == ASSUME NEW q, NEW x PROVE Used(Left(q, {x}), x) = Used(q, x)
<1>1. Left(Left(q, {x}), {x}) = Left(q, {x})
  BY DEF Left
<1> QED
  BY <1>1 DEF Used

\* Who comes and leaves was never there.
LEMMA LeftAfterUsed ==
  ASSUME NEW q, NEW K, NEW rank, NEW x, Ranked(q, K, rank), x \notin K
  PROVE  Left(Used(q, x), {x}) = q
<1>1. Left(q, {x}) = q
  BY LeftAbsent
<1>2. ASSUME NEW pair \in q PROVE pair[1] # x /\ pair[2] # x
  BY DEF Ranked
<1>3. \A y : <<y, x>>[2] = x
  OBVIOUS
<1> QED
  BY <1>1, <1>2, <1>3 DEF Used, Left

LEMMA LeftTogether ==
  ASSUME NEW q, NEW S, NEW T PROVE Left(Left(q, S), T) = Left(q, S \union T)
BY DEF Left

=============================================================================

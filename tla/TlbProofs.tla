----------------------------- MODULE TlbProofs -----------------------------
(***************************************************************************)
(* For any capacity and any numbers of processes and pages, tlb->size is   *)
(* the number of valid entries, a lookup answers the frame last inserted,  *)
(* and a full TLB gives up the entry used longest ago.  No stamp is later  *)
(* than the clock: that is what makes the search for the oldest entry find *)
(* one, and what puts the entry just stamped behind all the others.        *)
(***************************************************************************)
EXTENDS Tlb, ArrayScanProofs

USE TlbAssumption DEF Index

IInv ==
  /\ TypeOK
  /\ SizeIsCount
  /\ AnswersAsTold
  /\ \A i \in Index : entries[i].last <= clock

-----------------------------------------------------------------------------

LEMMA FirstEntry ==
  ASSUME NEW S \in SUBSET Index, S # {}
  PROVE  First(S) \in S
BY FirstIsIn

LEMMA EntriesFinite == \A S \in SUBSET Index : IsFiniteSet(S) /\ Cardinality(S) \in Nat
<1>1. IsFiniteSet(Index)
  BY FS_Interval
<1>2. ASSUME NEW S \in SUBSET Index PROVE IsFiniteSet(S)
  BY <1>1, FS_Subset
<1> QED BY <1>2, FS_CardinalityType

\* tlb_find_lru_entry finds a valid entry when there is one.
LEMMA OldestIsValid ==
  ASSUME IInv, Valid # {}
  PROVE  /\ Oldest \in Valid
         /\ \A j \in Valid : entries[Oldest].last <= entries[j].last
<1> DEFINE stamps == {entries[i].last : i \in Valid}
           oldest == {i \in Valid : \A j \in Valid : entries[i].last <= entries[j].last}
<1>1. \A i \in Valid : i \in Index /\ entries[i].last \in 0 .. clock
  BY DEF Valid, IInv, TypeOK
<1>2. stamps \in SUBSET (0 .. (clock + 1) - 1) /\ stamps # {} /\ clock + 1 \in Nat
  BY <1>1 DEF IInv, TypeOK
<1>3. First(stamps) \in stamps /\ \A s \in stamps : First(stamps) <= s
  <2> HIDE DEF stamps
  <2> QED BY <1>2, FirstIsIn
<1>4. oldest # {}
  <2>1. PICK i \in Valid : entries[i].last = First(stamps)
    BY <1>3
  <2>2. \A j \in Valid : entries[j].last \in stamps
    OBVIOUS
  <2>3. \A j \in Valid : entries[i].last <= entries[j].last
    <3> HIDE DEF stamps
    <3> QED BY <1>3, <2>1, <2>2
  <2> QED BY <2>1, <2>3
<1>5. oldest \in SUBSET Index /\ oldest \subseteq Valid
  BY <1>1
<1> QED BY <1>4, <1>5, FirstEntry DEF Oldest

\* A key goes to its own entry, and to one of another key only if it has none.
LEMMA PlaceFacts ==
  ASSUME IInv, NEW k \in Key
  PROVE  /\ Place(k) \in Index
         /\ \A i \in Index : entries[i].key = k => i = Place(k)
<1>1. CASE Holding(k) # {}
  <2>1. Place(k) \in Index /\ entries[Place(k)].key = k
    BY <1>1, FirstEntry DEF Place, Holding
  <2> QED BY <2>1 DEF IInv, AnswersAsTold, Valid
<1>2. CASE Holding(k) = {} /\ Valid # Index
  BY <1>2, FirstEntry DEF Place, Holding, Valid
<1>3. CASE Holding(k) = {} /\ Valid = Index
  BY <1>3, OldestIsValid DEF Place, Holding
<1> QED BY <1>1, <1>2, <1>3

-----------------------------------------------------------------------------

LEMMA InvInit == Init => IInv
<1> SUFFICES ASSUME Init PROVE IInv
  OBVIOUS
<1>1. Valid = {}
  BY DEF Init, Invalid, Valid
<1> QED BY <1>1, FS_EmptySet
        DEF Init, Invalid, IInv, TypeOK, SizeIsCount, AnswersAsTold

LEMMA InvHit ==
  ASSUME IInv, NEW k \in Key, Hit(k)
  PROVE  IInv'
<1> DEFINE h == First(Holding(k))
<1>1. h \in Index
  BY FirstEntry DEF Hit, Holding
<1>2. /\ entries' = [entries EXCEPT ![h].last = clock + 1]
      /\ clock' = clock + 1
      /\ UNCHANGED <<size, told>>
  BY DEF Hit
<1> HIDE DEF h
<1>3. \A i \in Index : /\ entries'[i].key = entries[i].key
                       /\ entries'[i].frame = entries[i].frame
  BY <1>1, <1>2 DEF IInv, TypeOK
<1>4. Valid' = Valid
  BY <1>3 DEF Valid
<1>5. TypeOK'
  <2>1. entries[h] \in [key : Key \union {NoKey}, frame : Frame \union {0}, last : Nat]
    BY <1>1 DEF IInv, TypeOK
  <2>2. [entries[h] EXCEPT !.last = clock + 1]
          \in [key : Key \union {NoKey}, frame : Frame \union {0}, last : Nat]
    BY <2>1 DEF IInv, TypeOK
  <2>3. entries' = [entries EXCEPT ![h] = [entries[h] EXCEPT !.last = clock + 1]]
    BY <1>2
  <2> QED BY <1>2, <2>2, <2>3 DEF IInv, TypeOK
<1>6. SizeIsCount' /\ AnswersAsTold'
  BY <1>2, <1>3, <1>4 DEF IInv, SizeIsCount, AnswersAsTold, Valid
<1>7. \A i \in Index : entries'[i].last <= clock'
  BY <1>1, <1>2 DEF IInv, TypeOK
<1> QED BY <1>5, <1>6, <1>7 DEF IInv

LEMMA InvInsert ==
  ASSUME IInv, NEW k \in Key, NEW f \in Frame, Insert(k, f)
  PROVE  IInv'
<1> DEFINE p == Place(k)
<1>1. p \in Index /\ \A i \in Index : entries[i].key = k => i = p
  BY PlaceFacts
<1>2. /\ entries' = [entries EXCEPT ![p] =
                       [key |-> k, frame |-> f, last |-> clock + 1]]
      /\ clock' = clock + 1
      /\ size' = IF entries[p].key = NoKey THEN size + 1 ELSE size
      /\ told' = [told EXCEPT ![k] = f]
  BY DEF Insert
<1> HIDE DEF p
<1>3. Valid' = Valid \union {p}
  BY <1>1, <1>2 DEF IInv, TypeOK, Valid
<1>4. IsFiniteSet(Valid) /\ IsFiniteSet(Valid') /\ Cardinality(Valid') <= Capacity
  <2>1. Valid \in SUBSET Index /\ Valid' \in SUBSET Index
    BY DEF Valid
  <2>2. IsFiniteSet(Index) /\ Cardinality(Index) = Capacity
    BY FS_Interval
  <2> QED BY <2>1, <2>2, FS_Subset
<1>5. SizeIsCount'
  <2>1. p \in Valid <=> entries[p].key # NoKey
    BY <1>1 DEF Valid
  <2> QED BY <1>2, <1>3, <1>4, <2>1, FS_AddElement DEF IInv, SizeIsCount
<1>6. TypeOK'
  <2>1. size' \in 0 .. Capacity
    BY <1>2, <1>4, <1>5 DEF IInv, TypeOK, SizeIsCount
  <2> QED BY <1>1, <1>2, <2>1 DEF IInv, TypeOK
<1>7. AnswersAsTold'
  <2>1. /\ entries'[p].key = k /\ entries'[p].frame = f
        /\ told'[k] = f
    BY <1>1, <1>2 DEF IInv, TypeOK
  <2>2. ASSUME NEW i \in Valid', i # p
        PROVE  i \in Valid /\ entries'[i] = entries[i] /\ entries[i].key # k
    BY <1>1, <1>2, <1>3, <2>2 DEF IInv, TypeOK, Valid
  <2>3. ASSUME NEW i \in Valid', i # p
        PROVE  entries'[i].key # k /\ entries'[i].frame = told'[entries'[i].key]
    <3>1. entries[i].key \in Key
      BY <2>2, <2>3 DEF Valid, IInv, TypeOK
    <3>2. told'[entries[i].key] = told[entries[i].key]
      BY <1>2, <2>2, <2>3, <3>1 DEF IInv, TypeOK
    <3> QED BY <2>2, <2>3, <3>2 DEF IInv, AnswersAsTold
  <2>4. \A i, j \in Valid' : entries'[i].key = entries'[j].key => i = j
    BY <2>1, <2>2, <2>3 DEF IInv, AnswersAsTold
  <2> QED BY <2>1, <2>3, <2>4 DEF AnswersAsTold
<1>8. \A i \in Index : entries'[i].last <= clock'
  BY <1>1, <1>2 DEF IInv, TypeOK
<1> QED BY <1>5, <1>6, <1>7, <1>8 DEF IInv

\* Entries that are invalidated, with all that was told of their keys.
LEMMA InvInvalidated ==
  ASSUME IInv, NEW S \in SUBSET Valid,
         entries' = [i \in Index |-> IF i \in S THEN Invalid ELSE entries[i]],
         size' = size - Cardinality(S),
         told' \in [Key -> Frame \union {NoFrame}],
         \A i \in Valid \ S : told'[entries[i].key] = told[entries[i].key],
         UNCHANGED clock
  PROVE  IInv'
<1>1. Valid' = Valid \ S
  BY DEF Valid, Invalid
<1>2. IsFiniteSet(Valid) /\ Cardinality(Valid) \in Nat
  BY EntriesFinite DEF Valid
<1>3. IsFiniteSet(S) /\ Cardinality(S) \in Nat /\ Cardinality(S) <= Cardinality(Valid)
  BY <1>2, FS_Subset, FS_CardinalityType
<1>4. Valid \cap S = S
  OBVIOUS
<1>5. Cardinality(Valid \ S) = Cardinality(Valid) - Cardinality(S)
  BY <1>2, <1>4, FS_Difference
<1>6. SizeIsCount'
  BY <1>1, <1>5 DEF IInv, SizeIsCount
<1>7. TypeOK'
  BY <1>2, <1>3 DEF IInv, TypeOK, SizeIsCount, Invalid
<1>8. AnswersAsTold'
  BY <1>1 DEF IInv, AnswersAsTold, Valid
<1>9. \A i \in Index : entries'[i].last <= clock'
  BY DEF IInv, TypeOK, Invalid
<1> QED BY <1>6, <1>7, <1>8, <1>9 DEF IInv

LEMMA InvInvalidate ==
  ASSUME IInv, NEW k \in Key, Invalidate(k)
  PROVE  IInv'
<1> DEFINE h == First(Holding(k))
<1>1. h \in Index /\ entries[h].key = k
  BY FirstEntry DEF Invalidate, Holding
<1>2. {h} \in SUBSET Valid /\ Cardinality({h}) = 1
  BY <1>1, FS_Singleton DEF Valid
<1>3. entries' = [i \in Index |-> IF i \in {h} THEN Invalid ELSE entries[i]]
  BY DEF Invalidate, IInv, TypeOK
<1>4. size' = size - 1 /\ told' = [told EXCEPT ![k] = NoFrame] /\ UNCHANGED clock
  BY DEF Invalidate
<1> HIDE DEF h
<1>5. told' \in [Key -> Frame \union {NoFrame}]
  BY <1>4 DEF IInv, TypeOK
<1>6. \A i \in Valid \ {h} : told'[entries[i].key] = told[entries[i].key]
  BY <1>1, <1>2, <1>4 DEF IInv, TypeOK, AnswersAsTold, Valid
<1> QED BY <1>2, <1>3, <1>4, <1>5, <1>6, InvInvalidated

LEMMA InvInvalidateProcess ==
  ASSUME IInv, NEW p \in Proc, InvalidateProcess(p)
  PROVE  IInv'
<1>1. OfProcess(p) \in SUBSET Valid
  BY DEF OfProcess
<1>2. told' \in [Key -> Frame \union {NoFrame}]
  BY DEF InvalidateProcess, IInv, TypeOK
<1>3. \A i \in Valid \ OfProcess(p) : told'[entries[i].key] = told[entries[i].key]
  BY DEF InvalidateProcess, OfProcess, Valid, IInv, TypeOK
<1> QED BY <1>1, <1>2, <1>3, InvInvalidated DEF InvalidateProcess

LEMMA InvClear == ASSUME IInv, Clear PROVE IInv'
<1>1. Valid' = {}
  BY DEF Clear, Invalid, Valid
<1> QED BY <1>1, FS_EmptySet
        DEF Clear, Invalid, IInv, TypeOK, SizeIsCount, AnswersAsTold

LEMMA InvNext == IInv /\ [Next]_vars => IInv'
<1> SUFFICES ASSUME IInv, [Next]_vars PROVE IInv'
  OBVIOUS
<1>1. ASSUME NEW k \in Key, Hit(k) PROVE IInv'
  BY <1>1, InvHit
<1>2. ASSUME NEW k \in Key, Invalidate(k) PROVE IInv'
  BY <1>2, InvInvalidate
<1>3. ASSUME NEW k \in Key, NEW f \in Frame, Insert(k, f) PROVE IInv'
  BY <1>3, InvInsert
<1>4. ASSUME NEW p \in Proc, InvalidateProcess(p) PROVE IInv'
  BY <1>4, InvInvalidateProcess
<1>5. CASE Clear
  BY <1>5, InvClear
<1>6. CASE UNCHANGED vars
  BY <1>6 DEF vars, IInv, TypeOK, SizeIsCount, AnswersAsTold, Valid
<1> QED BY <1>1, <1>2, <1>3, <1>4, <1>5, <1>6 DEF Next

LEMMA InvAlways == Spec => []IInv
BY InvInit, InvNext, PTL DEF Spec

\* The variables of the TLB keep their types; in particular size and clock stay
\* natural numbers.
THEOREM TlbTyped == Spec => []TypeOK
<1>1. IInv => TypeOK
  BY DEF IInv
<1> QED BY <1>1, InvAlways, PTL

\* tlb->size is the number of valid entries after every call.
THEOREM SizeCorrect == Spec => []SizeIsCount
<1>1. IInv => SizeIsCount
  BY DEF IInv
<1> QED BY <1>1, InvAlways, PTL

\* tlb_lookup answers the frame that the last tlb_insert gave the key, and no
\* key is in two entries.
THEOREM AnswersCorrect == Spec => []AnswersAsTold
<1>1. IInv => AnswersAsTold
  BY DEF IInv
<1> QED BY <1>1, InvAlways, PTL

-----------------------------------------------------------------------------
(* The order of use. *)

Keys == {entries[i].key : i \in Valid}

\* The stamp of each key that has an entry.
Stamps ==
  [k \in Key |-> IF Holding(k) = {} THEN 0 ELSE entries[First(Holding(k))].last]

\* The history of the keys is the queue that their stamps stand for.
InOrder == Ranked(recent, Keys, Stamps)

StampsAgree ==
  /\ Keys \subseteq Key
  /\ \A i \in Valid : /\ entries[i].key \in Keys
                      /\ Stamps[entries[i].key] = entries[i].last
                      /\ entries[i].last \in Nat /\ entries[i].last <= clock
  /\ \A k \in Keys : \E i \in Valid : entries[i].key = k

LEMMA StampFacts == IInv => StampsAgree
<1> SUFFICES ASSUME IInv PROVE StampsAgree
  OBVIOUS
<1>1. ASSUME NEW i \in Valid
      PROVE  entries[i].key \in Key /\ entries[i].last \in Nat /\ entries[i].last <= clock
  BY DEF Valid, IInv, TypeOK
<1>2. ASSUME NEW i \in Valid
      PROVE  Stamps[entries[i].key] = entries[i].last
  <2> DEFINE k == entries[i].key
  <2>1. i \in Holding(k) /\ Holding(k) \in SUBSET Index
    BY DEF Holding, Valid
  <2>2. First(Holding(k)) \in Holding(k)
    BY <2>1, FirstEntry
  <2>3. First(Holding(k)) = i
    BY <2>1, <2>2 DEF Holding, Valid, IInv, AnswersAsTold
  <2>4. k \in Key
    BY <1>1
  <2> QED
    BY <2>1, <2>3, <2>4 DEF Stamps
<1> QED
  BY <1>1, <1>2 DEF Keys, StampsAgree

LEMMA StampFactsNext == IInv' => StampsAgree'
BY StampFacts, PTL

\* No two keys have the same entry.
LEMMA KeysCounted ==
  ASSUME IInv
  PROVE  IsFiniteSet(Keys) /\ Cardinality(Keys) = Cardinality(Valid)
<1> DEFINE key == [i \in Valid |-> entries[i].key]
<1>1. key \in Bijection(Valid, Keys)
  BY DEF Bijection, Injection, IsInjective, Surjection, Keys, IInv, AnswersAsTold
<1>2. IsFiniteSet(Valid)
  BY EntriesFinite DEF Valid
<1>3. ExistsBijection(Valid, Keys)
  BY <1>1 DEF ExistsBijection
<1> QED
  BY <1>2, <1>3, FS_Bijection

\* The oldest entry is that of the key at the head of the queue.
LEMMA OldestIsForemost ==
  ASSUME IInv, InOrder, Valid # {}
  PROVE  entries[Oldest].key = Foremost(recent)
<1>1. Oldest \in Valid /\ \A j \in Valid : entries[Oldest].last <= entries[j].last
  BY OldestIsValid
<1>2. entries[Oldest].key \in Keys
  BY <1>1, StampFacts DEF StampsAgree
<1>3. \A k \in Keys : Stamps[entries[Oldest].key] <= Stamps[k]
  BY <1>1, StampFacts DEF StampsAgree
<1> QED
  BY <1>2, <1>3, RankedForemost DEF InOrder

\* The queue after key k got the newest stamp and the keys of S have left.
LEMMA OrderAfterUse ==
  ASSUME IInv, InOrder, IInv', NEW S \in SUBSET Keys, NEW k \in Key, NEW h \in Index,
         Keys' = (Keys \ S) \union {k},
         h \in Valid', entries'[h].key = k, entries'[h].last = clock + 1,
         \A i \in Valid' \ {h} : entries'[i] = entries[i],
         \/ S = {} /\ recent' = Used(recent, k)
         \/ recent' = Used(Left(recent, S), k)
  PROVE  InOrder'
<1>1. PICK q : Ranked(q, Keys \ S, Stamps) /\ recent' = Used(q, k)
  <2>1. Ranked(recent, Keys, Stamps)
    BY DEF InOrder
  <2>2. Ranked(Left(recent, S), Keys \ S, Stamps)
    BY <2>1, RankedLeft
  <2>3. S = {} => Keys \ S = Keys
    OBVIOUS
  <2> QED
    BY <2>1, <2>2, <2>3
<1>2. Stamps'[k] = clock + 1 /\ clock \in Nat
  BY StampFactsNext DEF IInv, TypeOK, StampsAgree
<1>3. ASSUME NEW l \in (Keys \ S) \ {k}
      PROVE  Stamps'[l] = Stamps[l] /\ Stamps[l] \in Nat /\ Stamps[l] <= clock
  <2>1. PICK i \in Valid' : entries'[i].key = l
    BY <1>3, StampFactsNext DEF StampsAgree
  <2>2. i # h /\ entries'[i] = entries[i]
    BY <1>3, <2>1
  <2>3. i \in Valid
    BY <2>1, <2>2 DEF Valid
  <2> QED
    BY <2>1, <2>2, <2>3, StampFacts, StampFactsNext DEF StampsAgree
<1>4. Ranked(Used(q, k), (Keys \ S) \union {k}, Stamps')
  <2>1. Stamps'[k] \in Int
    BY <1>2
  <2>2. \A l \in (Keys \ S) \ {k} : Stamps'[l] = Stamps[l] /\ Stamps'[l] < Stamps'[k]
    BY <1>2, <1>3
  <2> HIDE DEF Keys, Stamps
  <2> QED
    BY <1>1, <2>1, <2>2, RankedUsed
<1> QED
  BY <1>1, <1>4 DEF InOrder

LEMMA OrderHit ==
  ASSUME IInv, InOrder, NEW k \in Key, Hit(k)
  PROVE  InOrder'
<1> DEFINE h == First(Holding(k))
<1>1. h \in Index /\ entries[h].key = k
  BY FirstEntry DEF Hit, Holding
<1>2. /\ entries' = [entries EXCEPT ![h].last = clock + 1]
      /\ recent' = Used(recent, k)
  BY DEF Hit
<1>3. IInv'
  BY InvHit
<1> HIDE DEF h
<1>4. /\ \A i \in Index : entries'[i].key = entries[i].key
      /\ \A i \in Index \ {h} : entries'[i] = entries[i]
      /\ entries'[h].last = clock + 1
  BY <1>1, <1>2 DEF IInv, TypeOK
<1>5. Valid' = Valid
  BY <1>4 DEF Valid
<1>6. h \in Valid /\ k \in Keys /\ Keys' = Keys
  BY <1>1, <1>4, <1>5 DEF Keys, Valid
<1>7. Keys' = (Keys \ {}) \union {k}
  BY <1>6
<1> QED
  BY <1>1, <1>2, <1>3, <1>4, <1>5, <1>6, <1>7, OrderAfterUse DEF Valid

LEMMA OrderInsert ==
  ASSUME IInv, InOrder, NEW k \in Key, NEW f \in Frame, Insert(k, f)
  PROVE  InOrder'
<1> DEFINE p == Place(k)
           others == Left(recent, {k})
<1>1. p \in Index /\ \A i \in Index : entries[i].key = k => i = p
  BY PlaceFacts
<1>2. /\ entries' = [entries EXCEPT ![p] = [key |-> k, frame |-> f, last |-> clock + 1]]
      /\ recent' = Entered(recent, k, Capacity)
  BY DEF Insert
<1>3. IInv'
  BY InvInsert
<1>4. /\ entries'[p].key = k /\ entries'[p].last = clock + 1
      /\ \A i \in Index \ {p} : entries'[i] = entries[i]
  BY <1>1, <1>2 DEF IInv, TypeOK
<1>5. Valid' = Valid \union {p}
  BY <1>1, <1>4 DEF Valid
<1>6. Ranked(others, Keys \ {k}, Stamps)
  BY RankedLeft DEF InOrder
<1>7. Waiting(others) = Keys \ {k}
  BY <1>6, RankedWaiting
<1>8. /\ IsFiniteSet(Keys) /\ IsFiniteSet(Valid) /\ Cardinality(Keys) \in Nat
      /\ Cardinality(Keys) = Cardinality(Valid) /\ Cardinality(Valid) <= Capacity
      /\ Cardinality(Valid) = Capacity => Valid = Index
  <2>1. IsFiniteSet(Index) /\ Cardinality(Index) = Capacity /\ Valid \in SUBSET Index
    BY FS_Interval DEF Valid
  <2> QED
    BY <2>1, KeysCounted, EntriesFinite, FS_Subset
<1> HIDE DEF p, others
<1>9. CASE k \in Keys
  <2>1. p \in Valid /\ entries[p].key = k
    BY <1>1, <1>9, StampFacts DEF Valid, StampsAgree
  <2>2. Cardinality(Keys \ {k}) = Cardinality(Keys) - 1
    BY <1>8, <1>9, FS_RemoveElement
  <2>3. recent' = Used(others, k)
    <3>1. Cardinality(Waiting(others)) # Capacity
      BY <1>7, <1>8, <2>2
    <3> QED
      BY <1>2, <3>1 DEF Entered, others
  <2>4. others = Left(recent, {k})
    BY DEF others
  <2>5. Keys' = (Keys \ {k}) \union {k}
    BY <1>4, <1>5, <1>9, <2>1 DEF Keys, IInv, AnswersAsTold, Valid
  <2>6. p \in Valid' /\ {k} \in SUBSET Keys
    BY <1>5, <1>9
  <2> QED
    BY <1>1, <1>3, <1>4, <2>3, <2>4, <2>5, <2>6, OrderAfterUse DEF Valid
<1>10. CASE k \notin Keys
  <2>1. Keys \ {k} = Keys /\ {k} \cap Keys = {} /\ Holding(k) = {}
    BY <1>10 DEF Keys, Holding, Valid
  <2>2. others = recent
    BY <2>1, LeftAbsent DEF others, InOrder
  <2>3. CASE Valid # Index
    <3>1. p \notin Valid
      BY <2>1, <2>3, FirstEntry DEF p, Place, Valid
    <3>2. Keys' = (Keys \ {}) \union {k}
      BY <1>4, <1>5, <3>1 DEF Keys, Valid
    <3>3. recent' = Used(recent, k)
      BY <1>2, <1>7, <1>8, <2>1, <2>2, <2>3 DEF Entered, others
    <3> QED
      BY <1>1, <1>3, <1>4, <1>5, <3>2, <3>3, OrderAfterUse DEF Valid
  <2>4. CASE Valid = Index
    <3>1. p = Oldest /\ p \in Valid
      BY <1>1, <2>1, <2>4 DEF p, Place
    <3>2. entries[p].key = Foremost(recent)
      BY <3>1, OldestIsForemost
    <3>3. Cardinality(Index) = Capacity
      BY FS_Interval
    <3>4. recent' = Used(Left(recent, {entries[p].key}), k)
      BY <1>2, <1>7, <1>8, <2>1, <2>2, <2>4, <3>2, <3>3 DEF Entered, others
    <3>5. Keys' = (Keys \ {entries[p].key}) \union {k}
      BY <1>4, <1>5, <3>1 DEF Keys, IInv, AnswersAsTold, Valid
    <3>6. p \in Valid' /\ {entries[p].key} \in SUBSET Keys
      BY <1>5, <3>1 DEF Keys
    <3> QED
      BY <1>1, <1>3, <1>4, <3>4, <3>5, <3>6, OrderAfterUse DEF Valid
  <2> QED
    BY <2>3, <2>4
<1> QED
  BY <1>9, <1>10

\* The queue after the keys of S were invalidated.
LEMMA OrderInvalidated ==
  ASSUME IInv, InOrder, IInv', NEW S \in SUBSET Key,
         \A i \in Index : entries'[i] = IF entries[i].key \in S THEN Invalid ELSE entries[i],
         recent' = Left(recent, S)
  PROVE  InOrder'
<1>1. Ranked(Left(recent, S), Keys \ S, Stamps)
  BY RankedLeft DEF InOrder
<1>2. Valid' = {i \in Valid : entries[i].key \notin S}
  BY DEF Valid, Invalid
<1>3. Keys' = Keys \ S
  BY <1>2 DEF Keys, Valid
<1>4. ASSUME NEW k \in Keys \ S
      PROVE  Stamps'[k] = Stamps[k] /\ Stamps[k] \in Int
  <2>1. PICK i \in Valid' : entries'[i].key = k
    BY <1>3, StampFactsNext DEF StampsAgree
  <2>2. i \in Valid /\ entries'[i] = entries[i]
    BY <1>2, <2>1 DEF Valid
  <2> QED
    BY <2>1, <2>2, StampFacts, StampFactsNext DEF StampsAgree
<1> HIDE DEF Keys, Stamps
<1>5. Ranked(recent', Keys \ S, Stamps')
  BY <1>1, <1>4, RankedAlike
<1> QED
  BY <1>3, <1>5 DEF InOrder

LEMMA OrderNext == IInv /\ InOrder /\ [Next]_vars => InOrder'
<1> SUFFICES ASSUME IInv, InOrder, [Next]_vars PROVE InOrder'
  OBVIOUS
<1>1. IInv'
  BY InvNext
<1>2. ASSUME NEW k \in Key, Invalidate(k) PROVE InOrder'
  <2> DEFINE h == First(Holding(k))
  <2>1. h \in Index /\ entries[h].key = k
    BY <1>2, FirstEntry DEF Invalidate, Holding
  <2>2. \A i \in Index : entries[i].key \in {k} <=> i = h
    BY <2>1 DEF IInv, AnswersAsTold, Valid
  <2>3. entries' = [entries EXCEPT ![h] = Invalid] /\ recent' = Left(recent, {k})
    BY <1>2 DEF Invalidate
  <2> HIDE DEF h
  <2>4. \A i \in Index :
          entries'[i] = IF entries[i].key \in {k} THEN Invalid ELSE entries[i]
    BY <2>1, <2>2, <2>3 DEF IInv, TypeOK
  <2> QED
    BY <1>1, <2>3, <2>4, OrderInvalidated
<1>3. ASSUME NEW p \in Proc, InvalidateProcess(p) PROVE InOrder'
  <2> DEFINE S == {k \in Key : k[1] = p}
  <2>1. recent' = Left(recent, S)
    BY <1>3 DEF InvalidateProcess
  <2>2. \A i \in Index : entries[i].key \in S <=> i \in OfProcess(p)
    BY DEF OfProcess, Valid, IInv, TypeOK
  <2>3. \A i \in Index :
          entries'[i] = IF entries[i].key \in S THEN Invalid ELSE entries[i]
    BY <1>3, <2>2 DEF InvalidateProcess
  <2> HIDE DEF S
  <2>4. S \in SUBSET Key
    BY DEF S
  <2> QED
    BY <1>1, <2>1, <2>3, <2>4, OrderInvalidated
<1>4. CASE Clear
  <2>1. Valid' = {} /\ recent' = Nobody
    BY <1>4 DEF Clear, Invalid, Valid
  <2>2. Keys' = {}
    BY <2>1 DEF Keys
  <2> QED
    BY <2>1, <2>2, RankedEmpty DEF InOrder
<1>5. CASE UNCHANGED vars
  BY <1>5 DEF vars, InOrder, Keys, Stamps, Valid, Holding
<1> QED
  BY <1>2, <1>3, <1>4, <1>5, OrderHit, OrderInsert DEF Next

LEMMA OrderInit == Init => InOrder
<1> SUFFICES ASSUME Init PROVE InOrder
  OBVIOUS
<1>1. Valid = {}
  BY DEF Init, Invalid, Valid
<1>2. Keys = {} /\ recent = Nobody
  BY <1>1 DEF Init, Keys
<1> QED
  BY <1>2, RankedEmpty DEF InOrder

\* A full TLB gives up the translation that was used longest ago, and its stamps
\* order the others as a queue of recent use, whatever was invalidated before.
THEOREM LruOrderCorrect == Spec => []LeastRecentlyUsed
<1>1. IInv /\ InOrder => LeastRecentlyUsed
  <2> SUFFICES ASSUME IInv, InOrder PROVE LeastRecentlyUsed
    OBVIOUS
  <2>1. Waiting(recent) = Keys
    BY RankedWaiting DEF InOrder
  <2>2. ASSUME NEW i \in Valid, NEW j \in Valid
        PROVE  /\ <<entries[i].key, entries[j].key>> \in recent
                     <=> entries[i].last <= entries[j].last
               /\ entries[i].last = entries[j].last => i = j
    BY StampFacts DEF InOrder, Ranked, IInv, AnswersAsTold, StampsAgree
  <2> QED
    BY <2>1, <2>2, OldestIsForemost DEF LeastRecentlyUsed, Keys
<1> QED
  BY <1>1, InvAlways, OrderInit, OrderNext, PTL DEF Spec

=============================================================================

---------------------------- MODULE SwapProofs ----------------------------
(***************************************************************************)
(* The swap area implements the page store, for any number of processes,   *)
(* pages and slots.  The inductive invariant is that no page has two slots *)
(* and that the count is right; the promise of PageStore that a page can   *)
(* be put while fewer than Capacity are kept needs the former: the pages   *)
(* kept are then no more than the slots used.                              *)
(***************************************************************************)
EXTENDS Swap, ArrayScanProofs

USE SwapAssumption DEF Slot

IInv == TypeOK /\ OneSlotPerPage /\ CountIsUsedSlots

-----------------------------------------------------------------------------
(* Facts about slots. *)

LEMMA FirstSlot ==
  ASSUME NEW S \in SUBSET Slot, S # {}
  PROVE  First(S) \in S
BY FirstIsIn

LEMMA SlotsFinite == \A S \in SUBSET Slot : IsFiniteSet(S) /\ Cardinality(S) \in Nat
<1>1. IsFiniteSet(Slot)
  BY FS_Interval
<1>2. ASSUME NEW S \in SUBSET Slot PROVE IsFiniteSet(S)
  BY <1>1, FS_Subset
<1> QED BY <1>2, FS_CardinalityType

\* A page has one slot or none.
LEMMA OnlySlot ==
  ASSUME IInv, NEW k \in Key, NEW i \in Slot, slots[i] = k
  PROVE  PageSlots(k) = {i} /\ First(PageSlots(k)) = i
<1>1. PageSlots(k) = {i}
  BY DEF IInv, OneSlotPerPage, PageSlots, UsedSlots
<1> QED BY <1>1, FirstSlot DEF PageSlots

\* What is written goes to a slot of the page, or to a free one if it has none.
LEMMA TargetFacts ==
  ASSUME NEW k \in Key, Targets(k) # {}
  PROVE  LET i == First(Targets(k))
         IN  /\ i \in Slot
             /\ PageSlots(k) # {} => i = First(PageSlots(k)) /\ slots[i] = k
             /\ PageSlots(k) = {} => slots[i] = NoKey
<1>1. CASE PageSlots(k) # {}
  BY <1>1, FirstSlot DEF Targets, PageSlots
<1>2. CASE PageSlots(k) = {}
  BY <1>2, FirstSlot DEF Targets, FreeSlots, UsedSlots
<1> QED BY <1>1, <1>2

LEMMA PageSlotsIn ==
  ASSUME NEW k \in Key, PageSlots(k) # {}
  PROVE  First(PageSlots(k)) \in Slot /\ slots[First(PageSlots(k))] = k
BY FirstSlot DEF PageSlots

-----------------------------------------------------------------------------
(* The invariant. *)

LEMMA CallTypes ==
  /\ <<>> \in Call
  /\ \A k \in Key, a \in Answer : <<"write", k, a>> \in Call /\ <<"read", k, a>> \in Call
  /\ \A k \in Key : <<"remove page", k>> \in Call
  /\ \A p \in Proc : <<"remove process", p>> \in Call
  /\ Missing \in Answer /\ Content \subseteq Answer
BY DEF Call, Answer

LEMMA InvInit == Init => IInv
<1> SUFFICES ASSUME Init PROVE IInv
  OBVIOUS
<1>1. UsedSlots = {}
  BY DEF Init, UsedSlots
<1> QED BY <1>1, FS_EmptySet, CallTypes DEF Init, IInv, TypeOK, OneSlotPerPage, CountIsUsedSlots

LEMMA InvWrite ==
  ASSUME IInv, NEW k \in Key, NEW c \in Content, Write(k, c)
  PROVE  IInv'
<1> DEFINE i == First(Targets(k))
<1>1. /\ i \in Slot
      /\ PageSlots(k) # {} => slots[i] = k
      /\ PageSlots(k) = {} => slots[i] = NoKey
  BY TargetFacts DEF Write
<1>2. /\ slots' = [slots EXCEPT ![i] = k] /\ file' = [file EXCEPT ![i] = c]
      /\ used' = IF PageSlots(k) = {} THEN used + 1 ELSE used
      /\ call' \in Call
  BY CallTypes DEF Write
<1> HIDE DEF i
<1>3. TypeOK'
  BY <1>1, <1>2 DEF IInv, TypeOK
<1>4. OneSlotPerPage'
  <2>1. CASE PageSlots(k) # {}
    <3>1. slots' = slots
      BY <1>1, <1>2, <2>1 DEF IInv, TypeOK
    <3> QED BY <3>1 DEF IInv, OneSlotPerPage, UsedSlots
  <2>2. CASE PageSlots(k) = {}
    BY <1>1, <1>2, <2>2 DEF IInv, TypeOK, OneSlotPerPage, UsedSlots, PageSlots
  <2> QED BY <2>1, <2>2
<1>5. CountIsUsedSlots'
  <2>1. UsedSlots' = UsedSlots \union {i}
    BY <1>1, <1>2 DEF IInv, TypeOK, UsedSlots
  <2>2. i \in UsedSlots <=> PageSlots(k) # {}
    BY <1>1 DEF UsedSlots
  <2>3. IsFiniteSet(UsedSlots)
    BY SlotsFinite DEF UsedSlots
  <2> QED BY <1>2, <2>1, <2>2, <2>3, FS_AddElement DEF IInv, CountIsUsedSlots
<1> QED BY <1>3, <1>4, <1>5 DEF IInv

\* Slots that are left by the pages in them.
LEMMA InvSlotsLeft ==
  ASSUME IInv, NEW S \in SUBSET UsedSlots,
         slots' = [i \in Slot |-> IF i \in S THEN NoKey ELSE slots[i]],
         used' = used - Cardinality(S),
         call' \in Call, file' = file
  PROVE  IInv'
<1>1. UsedSlots' = UsedSlots \ S
  BY DEF UsedSlots
<1>2. IsFiniteSet(UsedSlots) /\ Cardinality(UsedSlots) \in Nat
  BY SlotsFinite DEF UsedSlots
<1>3. IsFiniteSet(S) /\ Cardinality(S) \in Nat /\ Cardinality(S) <= Cardinality(UsedSlots)
  BY <1>2, FS_Subset, FS_CardinalityType
<1>4. UsedSlots \cap S = S
  OBVIOUS
<1>5. Cardinality(UsedSlots \ S) = Cardinality(UsedSlots) - Cardinality(S)
  BY <1>2, <1>4, FS_Difference
<1>6. CountIsUsedSlots'
  BY <1>1, <1>5 DEF IInv, CountIsUsedSlots
<1>7. TypeOK'
  BY <1>2, <1>3 DEF IInv, TypeOK, CountIsUsedSlots
<1>8. OneSlotPerPage'
  BY <1>1 DEF IInv, OneSlotPerPage, UsedSlots
<1> QED BY <1>6, <1>7, <1>8 DEF IInv

LEMMA InvRemovePage ==
  ASSUME IInv, NEW k \in Key, RemovePage(k)
  PROVE  IInv'
<1> DEFINE i == First(PageSlots(k))
<1>1. i \in Slot /\ slots[i] = k
  BY PageSlotsIn DEF RemovePage
<1>2. {i} \in SUBSET UsedSlots /\ Cardinality({i}) = 1
  BY <1>1, FS_Singleton DEF UsedSlots
<1>3. slots' = [j \in Slot |-> IF j \in {i} THEN NoKey ELSE slots[j]]
  BY DEF RemovePage, IInv, TypeOK
<1>4. used' = used - 1 /\ file' = file /\ call' \in Call
  BY CallTypes DEF RemovePage
<1> HIDE DEF i
<1> QED BY <1>2, <1>3, <1>4, InvSlotsLeft

LEMMA InvRemoveProcess ==
  ASSUME IInv, NEW p \in Proc, RemoveProcess(p)
  PROVE  IInv'
BY InvSlotsLeft, CallTypes DEF RemoveProcess, SlotsOfProcess

LEMMA InvNext == IInv /\ [Next]_vars => IInv'
<1> SUFFICES ASSUME IInv, [Next]_vars PROVE IInv'
  OBVIOUS
<1>1. ASSUME NEW k \in Key, NEW c \in Content, Write(k, c) PROVE IInv'
  BY <1>1, InvWrite
<1>2. ASSUME NEW k \in Key, WriteFails(k) PROVE IInv'
  <2>1. slots' = slots /\ used' = used /\ call' \in Call
    BY <1>2, CallTypes DEF WriteFails
  <2>2. file' \in [Slot -> Content]
    BY <1>2 DEF WriteFails, IInv, TypeOK
  <2> QED
    BY <2>1, <2>2 DEF IInv, TypeOK, OneSlotPerPage, CountIsUsedSlots, UsedSlots
<1>3. ASSUME NEW k \in Key, Read(k) PROVE IInv'
  BY <1>3, PageSlotsIn, CallTypes
     DEF Read, IInv, TypeOK, OneSlotPerPage, CountIsUsedSlots, UsedSlots
<1>4. ASSUME NEW k \in Key, RemovePage(k) PROVE IInv'
  BY <1>4, InvRemovePage
<1>5. ASSUME NEW k \in Key, ReadFails(k) PROVE IInv'
  BY <1>5, CallTypes DEF ReadFails, IInv, TypeOK, OneSlotPerPage, CountIsUsedSlots, UsedSlots
<1>6. ASSUME NEW p \in Proc, RemoveProcess(p) PROVE IInv'
  BY <1>6, InvRemoveProcess
<1>7. CASE UNCHANGED vars
  BY <1>7 DEF vars, IInv, TypeOK, OneSlotPerPage, CountIsUsedSlots, UsedSlots
<1> QED BY <1>1, <1>2, <1>3, <1>4, <1>5, <1>6, <1>7 DEF Next

LEMMA InvAlways == Spec => []IInv
BY InvInit, InvNext, PTL DEF Spec

\* The variables of the swap area keep their types; in particular the count of
\* used slots stays a natural number when slots are removed.
THEOREM SwapTyped == Spec => []TypeOK
<1>1. IInv => TypeOK
  BY DEF IInv
<1> QED BY <1>1, InvAlways, PTL

\* The count of used slots, from which swap_used_slot_count answers, is right
\* after every call, failed ones included.
THEOREM CountCorrect == Spec => []CountIsUsedSlots
<1>1. IInv => CountIsUsedSlots
  BY DEF IInv
<1> QED BY <1>1, InvAlways, PTL

\* swap_write_page never gives a page a second slot.
THEOREM OneSlotCorrect == Spec => []OneSlotPerPage
<1>1. IInv => OneSlotPerPage
  BY DEF IInv
<1> QED BY <1>1, InvAlways, PTL

-----------------------------------------------------------------------------
(* The refinement. *)

\* While a slot is free, fewer pages are kept than there are slots.
LEMMA KeptFewer ==
  ASSUME IInv, UsedSlots # Slot
  PROVE  Cardinality(Store!Kept) < SlotCount
<1>1. Store!Kept = {k \in Key : PageSlots(k) # {}}
  <2>1. ASSUME NEW k \in Key, PageSlots(k) # {} PROVE Stored[k] # Missing
    BY <2>1, PageSlotsIn DEF Stored, IInv, TypeOK
  <2>2. ASSUME NEW k \in Key, PageSlots(k) = {} PROVE Stored[k] = Missing
    BY <2>2 DEF Stored
  <2> QED BY <2>1, <2>2 DEF Store!Kept, Store!Key, Key
<1> DEFINE f == [i \in UsedSlots |-> slots[i]]
<1>2. f \in Surjection(UsedSlots, Store!Kept)
  <2>1. \A i \in UsedSlots : slots[i] \in Key /\ i \in PageSlots(slots[i])
    BY DEF UsedSlots, PageSlots, IInv, TypeOK
  <2>2. f \in [UsedSlots -> Store!Kept]
    BY <1>1, <2>1
  <2>3. ASSUME NEW k \in Store!Kept PROVE \E i \in UsedSlots : f[i] = k
    BY <1>1, PageSlotsIn DEF UsedSlots
  <2> HIDE DEF f
  <2> QED BY <2>2, <2>3 DEF Surjection
<1>3. UsedSlots \in SUBSET Slot
  BY DEF UsedSlots
<1>4. IsFiniteSet(UsedSlots) /\ Cardinality(UsedSlots) \in Nat
  BY <1>3, SlotsFinite
<1>5. Cardinality(Slot) = SlotCount /\ IsFiniteSet(Slot)
  BY FS_Interval
<1>6. Cardinality(UsedSlots) < SlotCount
  <2>1. Cardinality(UsedSlots) <= SlotCount /\ Cardinality(UsedSlots) # SlotCount
    BY <1>3, <1>5, FS_Subset
  <2> QED BY <1>4, <2>1
<1> HIDE DEF f
<1>7. IsFiniteSet(Store!Kept) /\ Cardinality(Store!Kept) <= Cardinality(UsedSlots)
  BY <1>2, <1>4, FS_Surjection
<1> QED BY <1>4, <1>6, <1>7, FS_CardinalityType

LEMMA StoreInit == Init => Store!Init
BY DEF Init, Store!Init, Stored, Store!Key, Key, PageSlots

\* The content of each page, in a state with the invariant.
StoredMatches ==
  \A k \in Key :
    /\ \A i \in Slot : slots[i] = k => Stored[k] = file[i]
    /\ (\A i \in Slot : slots[i] # k) => Stored[k] = Missing
    /\ k \in Store!Kept <=> \E i \in Slot : slots[i] = k

LEMMA StoredIs == IInv => StoredMatches
<1> SUFFICES ASSUME IInv PROVE StoredMatches
  OBVIOUS
<1>1. ASSUME NEW k \in Key, NEW i \in Slot, slots[i] = k
      PROVE  Stored[k] = file[i] /\ k \in Store!Kept
  <2>1. Stored[k] = file[i]
    BY <1>1, OnlySlot DEF Stored
  <2> QED BY <1>1, <2>1 DEF Store!Kept, Store!Key, Key, IInv, TypeOK
<1>2. ASSUME NEW k \in Key, \A i \in Slot : slots[i] # k
      PROVE  Stored[k] = Missing /\ k \notin Store!Kept
  BY <1>2 DEF Stored, PageSlots, Store!Kept
<1> QED BY <1>1, <1>2 DEF StoredMatches

LEMMA StoredIsNext == IInv' => StoredMatches'
BY StoredIs, PTL

LEMMA StoreWrite ==
  ASSUME IInv, IInv', NEW k \in Key, NEW c \in Content, Write(k, c)
  PROVE  Store!Put(k, c)
<1> DEFINE i == First(Targets(k))
<1>1. /\ i \in Slot
      /\ PageSlots(k) # {} => slots[i] = k
      /\ PageSlots(k) = {} => slots[i] = NoKey
  BY TargetFacts DEF Write
<1>2. /\ slots' = [slots EXCEPT ![i] = k] /\ file' = [file EXCEPT ![i] = c]
      /\ call' = <<"write", k, c>> /\ Targets(k) # {}
  BY DEF Write
<1> HIDE DEF i
<1>3. k \in Store!Kept \/ Cardinality(Store!Kept) < SlotCount
  <2>1. CASE PageSlots(k) # {}
    BY <2>1, <1>1, StoredIs DEF StoredMatches
  <2>2. CASE PageSlots(k) = {}
    BY <2>2, <1>2, KeptFewer DEF Targets, FreeSlots
  <2> QED BY <2>1, <2>2
<1>4. Stored' = [Stored EXCEPT ![k] = c]
  <2>1. Stored'[k] = c
    <3>1. slots'[i] = k /\ file'[i] = c
      BY <1>1, <1>2 DEF IInv, TypeOK
    <3> QED BY <1>1, <3>1, StoredIsNext DEF StoredMatches
  <2>2. ASSUME NEW l \in Key, l # k PROVE Stored'[l] = Stored[l]
    <3>1. \A j \in Slot : slots'[j] = l <=> slots[j] = l
      BY <1>1, <1>2, <2>2 DEF IInv, TypeOK, PageSlots
    <3>2. \A j \in Slot : slots[j] = l => file'[j] = file[j]
      BY <1>1, <1>2, <2>2 DEF IInv, TypeOK, PageSlots
    <3> QED BY <3>1, <3>2, StoredIs, StoredIsNext DEF StoredMatches
  <2> QED BY <2>1, <2>2 DEF Stored
<1>5. Store!Cardinality(Store!Kept) = Cardinality(Store!Kept)
  BY DEF Store!Cardinality, Cardinality
<1> QED BY <1>2, <1>3, <1>4, <1>5 DEF Store!Put

LEMMA StoreWriteFails ==
  ASSUME IInv, IInv', NEW k \in Key, WriteFails(k)
  PROVE  Store!PutFails(k)
<1> DEFINE i == First(Targets(k))
<1>1. slots' = slots /\ call' = <<"write", k, Missing>>
  BY DEF WriteFails
<1>2. CASE Targets(k) = {}
  <2>1. Stored' = Stored
    BY <1>1, <1>2 DEF WriteFails, Stored, PageSlots
  <2> QED BY <1>1, <2>1 DEF Store!PutFails
<1>3. CASE Targets(k) # {}
  <2>1. PICK c \in Content : file' = [file EXCEPT ![i] = c]
    BY <1>3 DEF WriteFails
  <2>2. /\ i \in Slot
        /\ PageSlots(k) # {} => slots[i] = k
        /\ PageSlots(k) = {} => slots[i] = NoKey
    BY <1>3, TargetFacts
  <2> HIDE DEF i
  <2>3. CASE PageSlots(k) # {}
    <3>1. k \in Store!Kept
      BY <2>2, <2>3, StoredIs DEF StoredMatches
    <3>2. Stored'[k] = c
      <4>1. slots'[i] = k /\ file'[i] = c
        BY <1>1, <2>1, <2>2, <2>3 DEF IInv, TypeOK
      <4> QED BY <2>2, <4>1, StoredIsNext DEF StoredMatches
    <3>3. ASSUME NEW l \in Key, l # k PROVE Stored'[l] = Stored[l]
      <4>1. \A j \in Slot : slots[j] = l => file'[j] = file[j]
        BY <2>1, <2>2, <2>3, <3>3 DEF IInv, TypeOK
      <4> QED BY <1>1, <4>1, StoredIs, StoredIsNext DEF StoredMatches
    <3>4. Stored' = [Stored EXCEPT ![k] = c]
      BY <3>2, <3>3 DEF Stored
    <3> QED BY <1>1, <3>1, <3>4 DEF Store!PutFails
  <2>4. CASE PageSlots(k) = {}
    <3>1. ASSUME NEW l \in Key PROVE Stored'[l] = Stored[l]
      <4>1. \A j \in Slot : slots[j] = l => file'[j] = file[j]
        BY <2>1, <2>2, <2>4 DEF IInv, TypeOK
      <4> QED BY <1>1, <4>1, StoredIs, StoredIsNext DEF StoredMatches
    <3>2. Stored' = Stored
      BY <3>1 DEF Stored
    <3> QED BY <1>1, <3>2 DEF Store!PutFails
  <2> QED BY <2>3, <2>4
<1> QED BY <1>2, <1>3

LEMMA StoreRead ==
  ASSUME IInv, NEW k \in Key, Read(k)
  PROVE  Store!Get(k)
<1>1. PageSlots(k) # {} /\ slots' = slots /\ file' = file
      /\ call' = <<"read", k, file[First(PageSlots(k))]>>
  BY DEF Read
<1>2. k \in Store!Kept
  BY <1>1, PageSlotsIn, StoredIs DEF StoredMatches
<1>3. call' = <<"read", k, Stored[k]>>
  BY <1>1 DEF Stored
<1>4. Stored' = Stored
  BY <1>1 DEF Stored, PageSlots
<1> QED BY <1>2, <1>3, <1>4 DEF Store!Get

\* The pages whose slots are freed lose their content, the others do not.
LEMMA StoreSlotsLeft ==
  ASSUME IInv, IInv', NEW S \in SUBSET UsedSlots,
         slots' = [i \in Slot |-> IF i \in S THEN NoKey ELSE slots[i]],
         file' = file
  PROVE  Stored' = [k \in Key |-> IF \E i \in S : slots[i] = k
                                    THEN Missing ELSE Stored[k]]
<1>1. ASSUME NEW k \in Key, \E i \in S : slots[i] = k PROVE Stored'[k] = Missing
  <2>1. \A i \in Slot : slots'[i] # k
    BY <1>1 DEF IInv, OneSlotPerPage, UsedSlots
  <2> QED BY <2>1, StoredIsNext DEF StoredMatches
<1>2. ASSUME NEW k \in Key, ~ \E i \in S : slots[i] = k PROVE Stored'[k] = Stored[k]
  <2>1. \A i \in Slot : slots'[i] = k <=> slots[i] = k
    BY <1>2
  <2> QED BY <2>1, StoredIs, StoredIsNext DEF StoredMatches
<1> QED BY <1>1, <1>2 DEF Stored

LEMMA StoreRemovePage ==
  ASSUME IInv, IInv', NEW k \in Key, RemovePage(k)
  PROVE  Store!RemovePage(k)
<1> DEFINE i == First(PageSlots(k))
<1>1. i \in Slot /\ slots[i] = k
  BY PageSlotsIn DEF RemovePage
<1>2. {i} \in SUBSET UsedSlots
  BY <1>1 DEF UsedSlots
<1>3. slots' = [j \in Slot |-> IF j \in {i} THEN NoKey ELSE slots[j]]
  BY DEF RemovePage, IInv, TypeOK
<1>4. file' = file /\ call' = <<"remove page", k>>
  BY DEF RemovePage
<1> HIDE DEF i
<1>5. Stored' = [l \in Key |-> IF \E j \in {i} : slots[j] = l
                                 THEN Missing ELSE Stored[l]]
  BY <1>2, <1>3, <1>4, StoreSlotsLeft
<1>6. Stored' = [Stored EXCEPT ![k] = Missing]
  BY <1>1, <1>5 DEF Stored
<1>7. k \in Store!Kept
  BY <1>1, StoredIs DEF StoredMatches
<1> QED BY <1>4, <1>6, <1>7 DEF Store!RemovePage

LEMMA StoreRemoveProcess ==
  ASSUME IInv, IInv', NEW p \in Proc, RemoveProcess(p)
  PROVE  Store!RemoveProcess(p)
<1> DEFINE S == SlotsOfProcess(p)
<1>1. S \in SUBSET UsedSlots
  BY DEF SlotsOfProcess
<1>2. /\ slots' = [i \in Slot |-> IF i \in S THEN NoKey ELSE slots[i]]
      /\ file' = file /\ call' = <<"remove process", p>>
  BY DEF RemoveProcess
<1>3. ASSUME NEW k \in Key
      PROVE  (IF \E i \in S : slots[i] = k THEN Missing ELSE Stored[k])
               = IF k[1] = p THEN Missing ELSE Stored[k]
  <2>1. CASE \E i \in S : slots[i] = k
    BY <2>1 DEF SlotsOfProcess
  <2>2. CASE ~ \E i \in S : slots[i] = k
    <3>1. k[1] = p => \A i \in Slot : slots[i] # k
      BY <2>2 DEF SlotsOfProcess, UsedSlots, IInv, TypeOK
    <3>2. k[1] = p => Stored[k] = Missing
      BY <3>1, StoredIs DEF StoredMatches
    <3> QED BY <2>2, <3>2
  <2> QED BY <2>1, <2>2
<1> HIDE DEF S
<1>4. Stored' = [k \in Key |-> IF \E i \in S : slots[i] = k
                                 THEN Missing ELSE Stored[k]]
  BY <1>1, <1>2, StoreSlotsLeft
<1>5. Stored' = [k \in Key |-> IF k[1] = p THEN Missing ELSE Stored[k]]
  BY <1>3, <1>4
<1> QED BY <1>2, <1>5 DEF Store!RemoveProcess, Store!Key, Key

LEMMA StoreNext ==
  IInv /\ IInv' /\ [Next]_vars => [Store!Next]_<<Stored, call>>
<1> SUFFICES ASSUME IInv, IInv', [Next]_vars
             PROVE  Store!Next \/ UNCHANGED <<Stored, call>>
  OBVIOUS
<1> USE DEF Store!Key, Key
<1>1. ASSUME NEW k \in Key, NEW c \in Content, Write(k, c) PROVE Store!Next
  BY <1>1, StoreWrite DEF Store!Next
<1>2. ASSUME NEW k \in Key, WriteFails(k) PROVE Store!Next
  BY <1>2, StoreWriteFails DEF Store!Next
<1>3. ASSUME NEW k \in Key, Read(k) PROVE Store!Next
  BY <1>3, StoreRead DEF Store!Next
<1>4. ASSUME NEW k \in Key, RemovePage(k) PROVE Store!Next
  BY <1>4, StoreRemovePage DEF Store!Next
<1>5. ASSUME NEW k \in Key, ReadFails(k) PROVE Store!Next
  <2>1. Stored' = Stored
    BY <1>5 DEF ReadFails, Stored, PageSlots
  <2> QED BY <1>5, <2>1 DEF ReadFails, Store!GetFails, Store!Next
<1>6. ASSUME NEW p \in Proc, RemoveProcess(p) PROVE Store!Next
  BY <1>6, StoreRemoveProcess DEF Store!Next
<1>7. CASE UNCHANGED vars
  BY <1>7 DEF vars, Stored, PageSlots
<1> QED BY <1>1, <1>2, <1>3, <1>4, <1>5, <1>6, <1>7 DEF Next

\* For any number of processes, pages and slots the slot array, its counter and
\* the file behave as the store of PageStore: a page that swap_write_page took
\* is read back as it was until it is overwritten or removed, and a failed write
\* harms no other page.
THEOREM SwapImplementsPageStore == Spec => ImplementsPageStore
BY InvAlways, StoreInit, StoreNext, PTL DEF Spec, Store!Spec, ImplementsPageStore

=============================================================================

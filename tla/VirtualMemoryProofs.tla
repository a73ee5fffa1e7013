------------------------ MODULE VirtualMemoryProofs ------------------------
(***************************************************************************)
(* Proofs about the state of VirtualMemory, for every value of the         *)
(* constants: its types, its capacities, and the coherence of its          *)
(* structures when the addresses in use are canonical.                     *)
(***************************************************************************)
EXTENDS OutOfMemory, FiniteSetTheorems, TLAPS

Tables == [Proc -> [Path -> Frame \union {NoFrame}]]
Tlbs == [Proc -> [Page -> Frame \union {NoFrame}]]
Swaps == [Proc -> [Page -> Value \union {NoData}]]
Contents == [Frame -> Value]

USE SizesAssumption, PathAssumption, SentinelAssumption

-----------------------------------------------------------------------------
(* The helpers: what they return, and what they leave alone. *)

\* Frames are numbers of a finite interval and NoFrame is none of them.
LEMMA FrameFacts ==
  /\ IsFiniteSet(Frame)
  /\ NoFrame \notin Frame
  /\ Cardinality(Frame) = FrameCount
  /\ Frame \subseteq Int
<1>1. IsFiniteSet(0 .. FrameCount - 1)
      /\ Cardinality(0 .. FrameCount - 1) = FrameCount
  BY FS_Interval, FrameCount - 1 \in Int
<1> QED
  BY <1>1 DEF Frame, NoFrame

\* An insertion into the TLB adds one translation and may drop another; no
\* translation of a page changes otherwise.
LEMMA TlbInsertEffect ==
  ASSUME NEW t \in Tlbs, NEW p \in Proc, NEW v \in Page, NEW f \in Frame,
         NEW r \in TlbInsert(t, p, v, f)
  PROVE  /\ r \in Tlbs
         /\ \A q \in Proc, u \in Page :
              r[q][u] # NoFrame =>
                r[q][u] = IF q = p /\ u = v THEN f ELSE t[q][u]
<1> DEFINE inserted == [t EXCEPT ![p][v] = f]
<1>1. inserted \in Tlbs
  BY DEF Tlbs
<1>2. \A q \in Proc, u \in Page :
        inserted[q][u] = IF q = p /\ u = v THEN f ELSE t[q][u]
  BY DEF Tlbs
<1>3. CASE r = inserted
  BY <1>1, <1>2, <1>3
<1>4. CASE \E m \in TlbUsed(t) :
             r = [t EXCEPT ![m[1]][m[2]] = NoFrame, ![p][v] = f]
  <2>1. PICK m \in TlbUsed(t) :
          r = [t EXCEPT ![m[1]][m[2]] = NoFrame, ![p][v] = f]
    BY <1>4
  <2>2. m[1] \in Proc /\ m[2] \in Page
    BY <2>1 DEF TlbUsed, Mapping
  <2> DEFINE without == [t EXCEPT ![m[1]][m[2]] = NoFrame]
  <2>3. without \in Tlbs
    BY <2>2 DEF Tlbs
  <2>4. \A q \in Proc, u \in Page :
          without[q][u] = NoFrame \/ without[q][u] = t[q][u]
    BY <2>2 DEF Tlbs
  <2>5. r = [without EXCEPT ![p][v] = f]
    BY <2>1
  <2>6. r \in Tlbs
    BY <2>3, <2>5 DEF Tlbs
  <2>7. \A q \in Proc, u \in Page :
          r[q][u] = IF q = p /\ u = v THEN f ELSE without[q][u]
    BY <2>3, <2>5 DEF Tlbs
  <2> QED
    BY <2>4, <2>6, <2>7
<1> QED
  BY <1>3, <1>4 DEF TlbInsert

\* A store changes at most the frame its page is mapped to.
LEMMA StoredEffect ==
  ASSUME NEW c \in Contents, NEW table \in Tables, NEW p \in Proc, NEW v \in Page,
         NEW x \in Value \union {NoData}
  PROVE  /\ Stored(c, table, p, v, x) \in Contents
         /\ \A f \in Frame : f # table[p][PathOf[v]] =>
              Stored(c, table, p, v, x)[f] = c[f]
BY FrameFacts DEF Stored, Contents, Tables

\* The swap area stays one after a save.
LEMMA SavedType ==
  ASSUME NEW set, NEW x \in Value, swap \in Swaps
  PROVE  Saved(set, x) \in Swaps
BY DEF Saved, Swaps

LEMMA RestoredType ==
  ASSUME NEW s \in Swaps, NEW p \in Proc, NEW v \in Page
  PROVE  Restored(s, p, v) \in Value
BY DEF Restored, Swaps

\* The frame an access reaches, when there is one.
LEMMA TranslationType ==
  ASSUME TypeOK, NEW p \in Proc, NEW v \in Page
  PROVE  Translation(p, v) \in Frame \union {NoFrame}
BY DEF Translation, TypeOK

LEMMA MarkAccessType ==
  ASSUME NEW bits \in [Frame -> BOOLEAN], NEW f \in Frame, NEW w \in BOOLEAN
  PROVE  MarkAccess(bits, f, w) \in [Frame -> BOOLEAN]
BY DEF MarkAccess

LEMMA SwapAfterSaveType ==
  ASSUME TypeOK, NEW f \in Frame
  PROVE  SwapAfterSave(f) \in Swaps
<1>1. data[f] \in Value
  BY DEF TypeOK
<1> QED
  BY <1>1 DEF SwapAfterSave, TypeOK, Swaps

-----------------------------------------------------------------------------
(* The type invariant. *)

LEMMA TypeInit == Init => TypeOK
BY FrameFacts DEF Init, TypeOK, NoTranslation, NoSlot, Mapping

LEMMA TypeAccessResident ==
  ASSUME TypeOK, NEW p \in Proc, NEW v \in Page, NEW w \in BOOLEAN,
         NEW x \in Value \union {NoData}, AccessResident(p, v, w, x)
  PROVE  TypeOK'
<1> DEFINE f == Translation(p, v)
<1>1. f \in Frame
  BY TranslationType DEF AccessResident
<1>2. tlb' \in Tlbs
  BY <1>1, TlbInsertEffect DEF AccessResident, TypeOK, Tlbs
<1>3. dirty' \in [Frame -> BOOLEAN]
  BY <1>1, MarkAccessType DEF AccessResident, TypeOK
<1>4. data' \in Contents
  BY StoredEffect DEF AccessResident, TypeOK, Contents, Tables
<1> QED
  BY <1>2, <1>3, <1>4 DEF AccessResident, Call, TypeOK, Tlbs, Contents

LEMMA TypeCowCopy ==
  ASSUME TypeOK, NEW p \in Proc, NEW v \in Page,
         NEW x \in Value \union {NoData}, CowCopy(p, v, x)
  PROVE  TypeOK'
<1> DEFINE f == Translation(p, v)
<1>1. f \in Frame
  BY TranslationType DEF CowCopy
<1>2. PICK g \in Frame :
        /\ FirstFree(g)
        /\ pt' = [pt EXCEPT ![p][PathOf[v]] = g]
        /\ cow' = [cow EXCEPT ![f] = @ \ {<<p, v>>}, ![g] = @ \union {<<p, v>>}]
        /\ loaded' = loaded \union {g}
        /\ IF owner[f] = p
             THEN \E q \in FrameUsers(f, v, p) :
                    owner' = Reassigned([owner EXCEPT ![g] = p], f, q)
             ELSE owner' = [owner EXCEPT ![g] = p]
        /\ page' = [page EXCEPT ![g] = v, ![f] = IF owner[f] = p THEN v ELSE @]
        /\ tlb' \in TlbInsert(tlb, p, v, g)
        /\ dirty' = MarkAccess(dirty, g, TRUE)
        /\ data' = Stored([data EXCEPT ![g] = data[f]], pt', p, v, x)
  BY DEF CowCopy
<1>3. pt' \in Tables
  BY <1>2 DEF TypeOK, Tables
<1>4. cow' \in [Frame -> SUBSET Mapping]
  <2>1. <<p, v>> \in Mapping
    BY DEF Mapping
  <2>2. cow[f] \ {<<p, v>>} \in SUBSET Mapping
    BY <1>1 DEF TypeOK
  <2>3. [cow EXCEPT ![f] = @ \ {<<p, v>>}] \in [Frame -> SUBSET Mapping]
    BY <2>2, <1>1 DEF TypeOK
  <2> QED
    BY <1>2, <2>1, <2>3
<1>5. owner' \in [Frame -> Proc \union {NoProc}]
  BY <1>1, <1>2 DEF TypeOK, FrameUsers, Reassigned
<1>6. page' \in [Frame -> Page \union {NoPage}]
  BY <1>1, <1>2 DEF TypeOK
<1>7. tlb' \in Tlbs
  BY <1>2, TlbInsertEffect DEF TypeOK, Tlbs
<1>8. dirty' \in [Frame -> BOOLEAN]
  BY <1>2, MarkAccessType DEF TypeOK
<1>9. data' \in Contents
  <2>1. [data EXCEPT ![g] = data[f]] \in Contents
    BY <1>1, <1>2 DEF TypeOK, Contents
  <2> QED
    BY <1>2, <1>3, <2>1, StoredEffect
<1>10. freeCount' \in Nat
  BY <1>2 DEF CowCopy, FirstFree, TypeOK
<1>11. /\ live' = live /\ swap' = swap
       /\ registered' \subseteq Proc
       /\ loaded' \subseteq Frame
  BY <1>2 DEF CowCopy, Call, TypeOK
<1> QED
  BY <1>3, <1>4, <1>5, <1>6, <1>7, <1>8, <1>9, <1>10, <1>11
  DEF TypeOK, Tlbs, Contents, Tables

LEMMA TypeCowTakeOver ==
  ASSUME TypeOK, NEW p \in Proc, NEW v \in Page,
         NEW x \in Value \union {NoData}, CowTakeOver(p, v, x)
  PROVE  TypeOK'
<1> DEFINE f == Translation(p, v)
           R == Readers(f, p, v)
           emptied == [q \in Proc |-> [u \in Page |->
                         IF <<q, u>> \in R THEN NoFrame ELSE tlb[q][u]]]
<1>1. f \in Frame
  BY TranslationType DEF CowTakeOver
<1>2. swap' \in Swaps
  BY <1>1, SavedType DEF CowTakeOver, TypeOK, Swaps
<1>3. pt' \in Tables
  BY DEF CowTakeOver, TypeOK, Tables
<1>4. tlb' \in Tlbs
  <2>1. emptied \in Tlbs
    BY DEF TypeOK, Tlbs
  <2>2. tlb' \in TlbInsert(emptied, p, v, f)
    BY DEF CowTakeOver
  <2> QED
    BY <1>1, <2>1, <2>2, TlbInsertEffect
<1>5. cow' \in [Frame -> SUBSET Mapping]
  BY <1>1 DEF CowTakeOver, TypeOK
<1>6. /\ owner' \in [Frame -> Proc \union {NoProc}]
      /\ page' \in [Frame -> Page \union {NoPage}]
  BY <1>1 DEF CowTakeOver, TypeOK, Reassigned
<1>7. dirty' \in [Frame -> BOOLEAN]
  BY <1>1, MarkAccessType DEF CowTakeOver, TypeOK
<1>8. data' \in Contents
  BY <1>3, StoredEffect DEF CowTakeOver, TypeOK, Contents
<1> QED
  BY <1>2, <1>3, <1>4, <1>5, <1>6, <1>7, <1>8
  DEF CowTakeOver, Call, TypeOK, Tlbs, Contents, Tables, Swaps

LEMMA TypeCowFails ==
  ASSUME TypeOK, NEW p \in Proc, NEW v \in Page, CowFails(p, v)
  PROVE  TypeOK'
<1>1. Translation(p, v) \in Frame
  BY TranslationType DEF CowFails
<1>2. data[Translation(p, v)] \in Value
  BY <1>1 DEF TypeOK
<1>3. swap' \in Swaps
  <2>1. swap \in Swaps
    BY DEF TypeOK, Swaps
  <2>2. swap' = swap \/ \E W : swap' = Saved(W, data[Translation(p, v)])
    BY DEF CowFails
  <2> QED
    BY <1>2, <2>1, <2>2, SavedType
<1> QED
  BY <1>3 DEF CowFails, Call, TypeOK, frameVars, Swaps

LEMMA TypeLoadFreeFrame ==
  ASSUME TypeOK, NEW p \in Proc, NEW v \in Page, NEW w \in BOOLEAN,
         NEW x \in Value \union {NoData}, LoadFreeFrame(p, v, w, x)
  PROVE  TypeOK'
<1>1. PICK g \in Frame :
        /\ FirstFree(g)
        /\ owner' = [owner EXCEPT ![g] = p]
        /\ page' = [page EXCEPT ![g] = v]
        /\ dirty' = MarkAccess(dirty, g, w)
        /\ pt' = [pt EXCEPT ![p][PathOf[v]] = g]
        /\ cow' = [cow EXCEPT ![g] = @ \union {<<p, v>>}]
        /\ loaded' = loaded \union {g}
        /\ data' = Stored([data EXCEPT ![g] = Restored(swap, p, v)],
                          pt', p, v, x)
        /\ tlb' \in TlbInsert(tlb, p, v, g)
  BY DEF LoadFreeFrame
<1>2. /\ owner' \in [Frame -> Proc \union {NoProc}]
      /\ page' \in [Frame -> Page \union {NoPage}]
      /\ cow' \in [Frame -> SUBSET Mapping]
  BY <1>1 DEF TypeOK, Mapping
<1>3. pt' \in Tables
  BY <1>1 DEF TypeOK, Tables
<1>4. tlb' \in Tlbs
  BY <1>1, TlbInsertEffect DEF TypeOK, Tlbs
<1>5. dirty' \in [Frame -> BOOLEAN]
  BY <1>1, MarkAccessType DEF TypeOK
<1>6. data' \in Contents
  <2>1. [data EXCEPT ![g] = Restored(swap, p, v)] \in Contents
    BY <1>1, RestoredType DEF TypeOK, Contents, Swaps
  <2> QED
    BY <1>1, <1>3, <2>1, StoredEffect
<1>7. swap' \in Swaps
  BY DEF LoadFreeFrame, TypeOK, Swaps
<1>8. /\ freeCount' \in Nat /\ live' = live
      /\ registered' \subseteq Proc /\ loaded' \subseteq Frame
  BY <1>1 DEF LoadFreeFrame, FirstFree, Call, TypeOK
<1> QED
  BY <1>2, <1>3, <1>4, <1>5, <1>6, <1>7, <1>8
  DEF TypeOK, Tlbs, Contents, Tables, Swaps

\* What Reuse, common to both endings of a replacement, does to the types.
LEMMA TypeReuse ==
  ASSUME TypeOK, NEW p \in Proc, NEW v \in Page, NEW f \in Frame,
         Evictable(f), Reuse(f, p, v)
  PROVE  /\ owner[f] \in Proc /\ page[f] \in Page
         /\ pt' \in Tables
         /\ cow' \in [Frame -> SUBSET Mapping]
         /\ owner' \in [Frame -> Proc \union {NoProc}]
         /\ page' \in [Frame -> Page \union {NoPage}]
         /\ TlbWithoutVictim(f) \in Tlbs
         /\ live' = live /\ freeCount' = freeCount /\ loaded' = loaded
         /\ registered' \subseteq Proc
<1>1. owner[f] \in Proc /\ page[f] \in Page
  BY DEF Evictable, TypeOK, Mapping
<1>2. pt' \in Tables
  BY <1>1 DEF Reuse, TypeOK, Tables
<1>3. /\ cow' \in [Frame -> SUBSET Mapping]
      /\ owner' \in [Frame -> Proc \union {NoProc}]
      /\ page' \in [Frame -> Page \union {NoPage}]
  BY DEF Reuse, TypeOK, Mapping
<1>4. TlbWithoutVictim(f) \in Tlbs
  BY <1>1 DEF TlbWithoutVictim, TypeOK, Tlbs
<1> QED
  BY <1>1, <1>2, <1>3, <1>4 DEF Reuse, Call, TypeOK

LEMMA TypeReplacePage ==
  ASSUME TypeOK, NEW p \in Proc, NEW v \in Page, NEW w \in BOOLEAN,
         NEW x \in Value \union {NoData}, ReplacePage(p, v, w, x)
  PROVE  TypeOK'
<1>1. PICK f \in Frame :
        /\ Evictable(f)
        /\ Reuse(f, p, v)
        /\ tlb' \in TlbInsert(TlbWithoutVictim(f), p, v, f)
        /\ dirty' = MarkAccess([dirty EXCEPT ![f] = FALSE], f, w)
        /\ data' = Stored([data EXCEPT ![f] = Restored(SwapAfterSave(f), p, v)],
                          pt', p, v, x)
        /\ swap' = [SwapAfterSave(f) EXCEPT ![p][v] = NoData]
  BY DEF ReplacePage
<1>2. /\ pt' \in Tables
      /\ TlbWithoutVictim(f) \in Tlbs
  BY <1>1, TypeReuse
<1>3. tlb' \in Tlbs
  BY <1>1, <1>2, TlbInsertEffect
<1>4. dirty' \in [Frame -> BOOLEAN]
  BY <1>1, MarkAccessType DEF TypeOK
<1>5. SwapAfterSave(f) \in Swaps
  BY SwapAfterSaveType
<1>6. data' \in Contents
  <2>1. [data EXCEPT ![f] = Restored(SwapAfterSave(f), p, v)] \in Contents
    BY <1>5, RestoredType DEF TypeOK, Contents
  <2> QED
    BY <1>1, <1>2, <2>1, StoredEffect
<1>7. swap' \in Swaps
  BY <1>1, <1>5 DEF Swaps
<1> QED
  BY <1>1, <1>3, <1>4, <1>6, <1>7, TypeReuse
  DEF TypeOK, Tlbs, Contents, Tables, Swaps

LEMMA TypeReplaceRefused ==
  ASSUME TypeOK, NEW p \in Proc, NEW v \in Page, ReplaceRefused(p, v)
  PROVE  TypeOK'
<1>1. swap' \in Swaps
  BY SwapAfterSaveType DEF ReplaceRefused, TypeOK, Swaps
<1> QED
  BY <1>1 DEF ReplaceRefused, Call, TypeOK, frameVars, Swaps

LEMMA TypeReplaceRestoreFails ==
  ASSUME TypeOK, NEW p \in Proc, NEW v \in Page, ReplaceRestoreFails(p, v)
  PROVE  TypeOK'
<1>1. PICK f \in Frame :
        /\ Evictable(f)
        /\ Reuse(f, p, v)
        /\ tlb' = TlbWithoutVictim(f)
        /\ dirty' = [dirty EXCEPT ![f] = FALSE]
        /\ data' = [data EXCEPT ![f] = Zero]
        /\ swap' = SwapAfterSave(f)
  BY DEF ReplaceRestoreFails
<1>2. /\ dirty' \in [Frame -> BOOLEAN]
      /\ data' \in Contents
  BY <1>1 DEF TypeOK, Contents
<1>3. swap' \in Swaps
  BY <1>1, SwapAfterSaveType
<1> QED
  BY <1>1, <1>2, <1>3, TypeReuse DEF TypeOK, Tlbs, Contents, Tables, Swaps

LEMMA TypeFork ==
  ASSUME TypeOK, NEW p \in Proc, NEW c \in Proc, Fork(p, c)
  PROVE  TypeOK'
<1>1. cow' \in [Frame -> SUBSET Mapping]
  BY DEF Fork, Held, TypeOK, Mapping
<1>2. pt' \in Tables
  BY DEF Fork, TypeOK, Tables
<1>3. tlb' \in Tlbs
  BY DEF Fork, TlbWithoutProcess, NoTranslation, TypeOK, Tlbs
<1> QED
  BY <1>1, <1>2, <1>3 DEF Fork, TypeOK, frameVars, Tables, Tlbs

LEMMA TypeRelease ==
  ASSUME TypeOK, NEW p \in Proc, Release(p)
  PROVE  TypeOK'
<1> DEFINE freed == {f \in Held(p) : cow[f] = {<<p, page[f]>>}}
           inherited == {f \in Held(p) \ freed : owner[f] = p}
<1>1. PICK heir \in [inherited -> registered] :
        owner' = [f \in Frame |-> IF f \in freed THEN NoProc
                                  ELSE IF f \in inherited THEN heir[f]
                                  ELSE owner[f]]
  BY DEF Release
<1>2. owner' \in [Frame -> Proc \union {NoProc}]
  BY <1>1 DEF TypeOK
<1>3. /\ page' \in [Frame -> Page \union {NoPage}]
      /\ dirty' \in [Frame -> BOOLEAN]
      /\ data' \in Contents
  BY DEF Release, TypeOK, Contents
<1>4. freeCount' \in Nat
  <2>1. freed \in SUBSET Frame
    BY DEF Held
  <2>2. Cardinality(freed) \in Nat
    BY <2>1, FrameFacts, FS_Subset, FS_CardinalityType
  <2> QED
    BY <2>2 DEF Release, TypeOK
<1>5. cow' \in [Frame -> SUBSET Mapping]
  BY DEF Release, TypeOK
<1>6. pt' \in Tables
  BY DEF Release, TypeOK, Tables
<1>7. tlb' \in Tlbs /\ swap' \in Swaps
  BY DEF Release, TlbWithoutProcess, SwapWithoutProcess, NoTranslation, NoSlot,
         TypeOK, Tlbs, Swaps
<1>8. live' = live /\ registered' \subseteq Proc /\ loaded' \subseteq Frame
  BY DEF Release, TypeOK
<1> QED
  BY <1>2, <1>3, <1>4, <1>5, <1>6, <1>7, <1>8
  DEF TypeOK, Tables, Tlbs, Swaps, Contents

\* A step is one of the calls, or changes nothing.
LEMMA StepCases ==
  ASSUME [Next]_vars
  PROVE  \/ \E p \in Proc, v \in Page, w \in BOOLEAN, x \in Value \union {NoData} :
              /\ x # NoData => w /\ Write(p, v, x)
              /\ \/ AccessResident(p, v, w, x)
                 \/ LoadFreeFrame(p, v, w, x)
                 \/ ReplacePage(p, v, w, x)
                 \/ CowCopy(p, v, x)
                 \/ CowTakeOver(p, v, x)
         \/ \E p \in Proc, v \in Page :
              \/ CowFails(p, v)
              \/ LoadFreeFrameFails(p, v)
              \/ ReplaceRefused(p, v)
              \/ ReplaceRestoreFails(p, v)
         \/ \E p \in Proc : CreateProcess(p) \/ DestroyProcess(p) \/ Release(p)
         \/ \E p, c \in Proc : Fork(p, c)
         \/ UNCHANGED vars
<1>1. ASSUME NEW p \in Proc, NEW v \in Page, Read(p, v)
      PROVE  \/ AccessResident(p, v, FALSE, NoData)
             \/ LoadFreeFrame(p, v, FALSE, NoData)
             \/ ReplacePage(p, v, FALSE, NoData)
  BY <1>1 DEF Read
<1>2. ASSUME NEW p \in Proc, NEW v \in Page, NEW x \in Value \union {NoData},
             Write(p, v, x)
      PROVE  \/ AccessResident(p, v, TRUE, x)
             \/ LoadFreeFrame(p, v, TRUE, x)
             \/ ReplacePage(p, v, TRUE, x)
             \/ CowCopy(p, v, x)
             \/ CowTakeOver(p, v, x)
  BY <1>2 DEF Write
<1>3. ASSUME NEW p \in Proc, NEW v \in Page, AccessFails(p, v)
      PROVE  \/ CowFails(p, v)
             \/ LoadFreeFrameFails(p, v)
             \/ ReplaceRefused(p, v)
             \/ ReplaceRestoreFails(p, v)
  BY <1>3 DEF AccessFails
<1> QED
  BY <1>1, <1>2, <1>3 DEF Next

LEMMA TypeNext == TypeOK /\ [Next]_vars => TypeOK'
<1> SUFFICES ASSUME TypeOK, [Next]_vars PROVE TypeOK'
  OBVIOUS
<1>1. ASSUME NEW p \in Proc, NEW v \in Page, LoadFreeFrameFails(p, v)
      PROVE  TypeOK'
  BY <1>1 DEF LoadFreeFrameFails, Call, TypeOK, frameVars
<1>2. ASSUME NEW p \in Proc, CreateProcess(p) PROVE TypeOK'
  BY <1>2 DEF CreateProcess, TypeOK, frameVars
<1>3. ASSUME NEW p \in Proc, DestroyProcess(p) PROVE TypeOK'
  BY <1>3 DEF DestroyProcess, TypeOK, frameVars
<1>4. ASSUME UNCHANGED vars PROVE TypeOK'
  BY <1>4 DEF vars, frameVars, TypeOK
<1> QED
  BY <1>1, <1>2, <1>3, <1>4, StepCases, TypeAccessResident, TypeCowCopy,
     TypeCowTakeOver, TypeCowFails, TypeLoadFreeFrame, TypeReplacePage,
     TypeReplaceRefused, TypeReplaceRestoreFails, TypeFork, TypeRelease

\* Every variable keeps its type, whatever the parameters: canonical addresses
\* or not, with swap or without, and with failures of the swap file.
THEOREM TypeCorrect == Spec => []TypeOK
<1>1. Init => TypeOK
  BY TypeInit
<1>2. TypeOK /\ [Next]_vars => TypeOK'
  BY TypeNext
<1> QED
  BY <1>1, <1>2, PTL DEF Spec

-----------------------------------------------------------------------------
(***************************************************************************)
(* Capacities.  Neither the TLB nor the swap area ever holds more than it  *)
(* has room for, canonical addresses or not.  The hard calls are those     *)
(* that write several slots and those that take one translation out and    *)
(* put another in.                                                         *)
(***************************************************************************)

Bounded == TypeOK /\ WithinCapacity

-----------------------------------------------------------------------------
(* Sets of mappings. *)

LEMMA MappingsFinite ==
  ASSUME NEW S \in SUBSET Mapping
  PROVE  IsFiniteSet(S) /\ Cardinality(S) \in Nat
<1>1. IsFiniteSet(Mapping)
  BY FiniteAssumption, FS_Product DEF Mapping
<1> QED
  BY <1>1, FS_Subset, FS_CardinalityType

LEMMA FewerMappings ==
  ASSUME NEW S \in SUBSET Mapping, NEW T \in SUBSET S
  PROVE  Cardinality(T) <= Cardinality(S)
BY MappingsFinite, FS_Subset

-----------------------------------------------------------------------------
(* The TLB. *)

\* A table with no translation that the TLB did not have.
LEMMA FewerTranslations ==
  ASSUME Bounded, NEW t \in Tlbs,
         \A q \in Proc, u \in Page : t[q][u] # NoFrame => tlb[q][u] # NoFrame
  PROVE  Cardinality(TlbUsed(t)) <= TlbEntries
<1>1. TlbUsed(tlb) \in SUBSET Mapping /\ TlbUsed(t) \in SUBSET TlbUsed(tlb)
  BY DEF TlbUsed, Mapping
<1>2. /\ Cardinality(TlbUsed(t)) <= Cardinality(TlbUsed(tlb))
      /\ Cardinality(TlbUsed(t)) \in Nat /\ Cardinality(TlbUsed(tlb)) \in Nat
  BY <1>1, FewerMappings, MappingsFinite
<1> QED
  BY <1>2 DEF Bounded, WithinCapacity

\* An insertion evicts a translation rather than exceed the capacity.
LEMMA InsertionFits ==
  ASSUME NEW t \in Tlbs, Cardinality(TlbUsed(t)) <= TlbEntries,
         NEW p \in Proc, NEW v \in Page, NEW f \in Frame,
         NEW r \in TlbInsert(t, p, v, f)
  PROVE  Cardinality(TlbUsed(r)) <= TlbEntries
<1> DEFINE used == TlbUsed(t)
           m0 == <<p, v>>
<1>1. /\ f # NoFrame
      /\ m0 \in Mapping /\ used \in SUBSET Mapping
      /\ IsFiniteSet(used) /\ Cardinality(used) \in Nat
  BY MappingsFinite, FrameFacts DEF Mapping, TlbUsed
<1>2. m0 \in used <=> t[p][v] # NoFrame
  BY <1>1 DEF TlbUsed
<1>3. CASE /\ t[p][v] # NoFrame \/ Cardinality(used) < TlbEntries
           /\ r = [t EXCEPT ![p][v] = f]
  <2>1. \A q \in Proc, u \in Page :
          r[q][u] # NoFrame <=> t[q][u] # NoFrame \/ <<q, u>> = m0
    BY <1>1, <1>3 DEF Tlbs
  <2>2. TlbUsed(r) = used \union {m0}
    BY <1>1, <2>1 DEF TlbUsed, Mapping
  <2> HIDE DEF used, m0
  <2>3. Cardinality(used \union {m0})
          = IF m0 \in used THEN Cardinality(used) ELSE Cardinality(used) + 1
    BY <1>1, FS_AddElement
  <2>4. Cardinality(used) <= TlbEntries
    BY DEF used
  <2>5. CASE m0 \in used
    BY <2>2, <2>3, <2>4, <2>5
  <2>6. CASE m0 \notin used
    <3>1. Cardinality(used) < TlbEntries
      BY <1>2, <1>3, <2>6
    <3> QED
      BY <1>1, <2>2, <2>3, <2>6, <3>1
  <2> QED
    BY <2>5, <2>6
<1>4. CASE \E m \in used : r = [t EXCEPT ![m[1]][m[2]] = NoFrame, ![p][v] = f]
  <2>1. PICK m \in used : r = [t EXCEPT ![m[1]][m[2]] = NoFrame, ![p][v] = f]
    BY <1>4
  <2>2. m[1] \in Proc /\ m[2] \in Page /\ m = <<m[1], m[2]>>
    BY <2>1 DEF TlbUsed, Mapping
  <2> DEFINE without == [t EXCEPT ![m[1]][m[2]] = NoFrame]
  <2>3. without \in Tlbs
    BY <2>2 DEF Tlbs
  <2>4. \A q \in Proc, u \in Page :
          without[q][u] # NoFrame => t[q][u] # NoFrame /\ <<q, u>> # m
    BY <2>2 DEF Tlbs
  <2>5. r = [without EXCEPT ![p][v] = f]
    BY <2>1
  <2> HIDE DEF without
  <2>6. \A q \in Proc, u \in Page :
          r[q][u] # NoFrame => <<q, u>> = m0 \/ without[q][u] # NoFrame
    BY <2>3, <2>5 DEF Tlbs
  <2>7. TlbUsed(r) \subseteq (used \ {m}) \union {m0}
    BY <2>4, <2>6 DEF TlbUsed, Mapping
  <2>8. /\ IsFiniteSet(used \ {m})
        /\ Cardinality(used \ {m}) = Cardinality(used) - 1
    BY <1>1, <2>1, FS_RemoveElement
  <2> DEFINE rest == used \ {m}
  <2>9. /\ rest \union {m0} \in SUBSET Mapping
        /\ Cardinality(rest \union {m0}) <= Cardinality(used)
    <3> HIDE DEF used, m0
    <3>1. rest \in SUBSET Mapping
      BY <1>1
    <3>2. Cardinality(rest \union {m0})
            = IF m0 \in rest THEN Cardinality(rest) ELSE Cardinality(rest) + 1
      BY <2>8, FS_AddElement
    <3> QED
      BY <1>1, <2>8, <3>1, <3>2
  <2>10. /\ Cardinality(TlbUsed(r)) <= Cardinality(rest \union {m0})
         /\ Cardinality(TlbUsed(r)) \in Nat
         /\ Cardinality(rest \union {m0}) \in Nat
    BY <2>7, <2>9, FewerMappings, MappingsFinite
  <2> QED
    BY <1>1, <2>9, <2>10
<1> QED
  BY <1>3, <1>4 DEF TlbInsert

\* Both together: what every access does to the TLB.
LEMMA AccessFits ==
  ASSUME Bounded, NEW t \in Tlbs,
         \A q \in Proc, u \in Page : t[q][u] # NoFrame => tlb[q][u] # NoFrame,
         NEW p \in Proc, NEW v \in Page, NEW f \in Frame,
         tlb' \in TlbInsert(t, p, v, f)
  PROVE  Cardinality(TlbUsed(tlb')) <= TlbEntries
BY FewerTranslations, InsertionFits

-----------------------------------------------------------------------------
(* The swap area. *)

\* An area with no slots but those that were in use and those of set, for
\* which there was room.
LEMMA SlotsFit ==
  ASSUME Bounded, NEW s, NEW set \in SUBSET Mapping, SwapRoom(set),
         UsedSlots(s) \subseteq UsedSlots(swap) \union set
  PROVE  Cardinality(UsedSlots(s)) <= SlotCount
<1> DEFINE used == UsedSlots(swap)
           new == set \ used
<1>1. /\ used \in SUBSET Mapping /\ new \in SUBSET Mapping
      /\ used \union new \in SUBSET Mapping
      /\ UsedSlots(s) \in SUBSET (used \union new)
      /\ used \cap new = {}
  BY DEF UsedSlots
<1>2. /\ IsFiniteSet(used) /\ Cardinality(used) \in Nat
      /\ IsFiniteSet(new) /\ Cardinality(new) \in Nat
  BY <1>1, MappingsFinite
<1>3. /\ Cardinality(used) <= SlotCount
      /\ Cardinality(new) <= SlotCount - Cardinality(used)
  BY DEF Bounded, WithinCapacity, SwapRoom, FreeSlots
<1> HIDE DEF used, new
<1>4. Cardinality(used \union new)
        = Cardinality(used) + Cardinality(new) - Cardinality(used \cap new)
  BY <1>2, FS_Union
<1>5. Cardinality(used \cap new) = 0
  BY <1>1, FS_EmptySet
<1>6. /\ Cardinality(UsedSlots(s)) <= Cardinality(used \union new)
      /\ Cardinality(UsedSlots(s)) \in Nat
  BY <1>1, FewerMappings, MappingsFinite DEF UsedSlots
<1> QED
  BY <1>2, <1>3, <1>4, <1>5, <1>6

\* An area without new slots.
LEMMA FewerSlots ==
  ASSUME Bounded, NEW s,
         \A q \in Proc, u \in Page : s[q][u] # NoData => swap[q][u] # NoData
  PROVE  Cardinality(UsedSlots(s)) <= SlotCount
<1>1. UsedSlots(s) \in SUBSET UsedSlots(swap) /\ UsedSlots(swap) \in SUBSET Mapping
  BY DEF UsedSlots, Mapping
<1>2. /\ Cardinality(UsedSlots(s)) <= Cardinality(UsedSlots(swap))
      /\ Cardinality(UsedSlots(s)) \in Nat /\ Cardinality(UsedSlots(swap)) \in Nat
  BY <1>1, FewerMappings, MappingsFinite
<1> QED
  BY <1>2 DEF Bounded, WithinCapacity

\* The mappings of set were written.
LEMMA SavedSlots ==
  ASSUME NEW set \in SUBSET Mapping, NEW x
  PROVE  UsedSlots(Saved(set, x)) \subseteq UsedSlots(swap) \union set
BY DEF UsedSlots, Saved, Mapping

\* The victim was written, if it had to be.
LEMMA VictimSlots ==
  ASSUME TypeOK, NEW f \in Frame, <<owner[f], page[f]>> \in Mapping
  PROVE  /\ MustSave(f) =>
              UsedSlots(SwapAfterSave(f))
                \subseteq UsedSlots(swap) \union {<<owner[f], page[f]>>}
         /\ ~MustSave(f) => SwapAfterSave(f) = swap
<1> DEFINE s == [swap EXCEPT ![owner[f]][page[f]] = data[f]]
<1>1. owner[f] \in Proc /\ page[f] \in Page
  BY DEF Mapping
<1>2. \A q \in Proc, u \in Page :
        s[q][u] # NoData => swap[q][u] # NoData \/ <<q, u>> = <<owner[f], page[f]>>
  BY <1>1 DEF TypeOK
<1> HIDE DEF s
<1>3. UsedSlots(s) \subseteq UsedSlots(swap) \union {<<owner[f], page[f]>>}
  BY <1>2 DEF UsedSlots, Mapping
<1> QED
  BY <1>3 DEF SwapAfterSave, s

LEMMA VictimFits ==
  ASSUME Bounded, NEW f \in Frame, Evictable(f)
  PROVE  Cardinality(UsedSlots(SwapAfterSave(f))) <= SlotCount
<1>1. <<owner[f], page[f]>> \in Mapping
  BY DEF Evictable, Bounded, TypeOK
<1>2. CASE MustSave(f)
  BY <1>1, <1>2, VictimSlots, SlotsFit DEF Evictable, Bounded
<1>3. CASE ~MustSave(f)
  BY <1>1, <1>3, VictimSlots DEF Bounded, WithinCapacity
<1> QED
  BY <1>2, <1>3

-----------------------------------------------------------------------------
(* The calls. *)

LEMMA CapacityAccessResident ==
  ASSUME Bounded, NEW p \in Proc, NEW v \in Page, NEW w \in BOOLEAN,
         NEW x \in Value \union {NoData}, AccessResident(p, v, w, x)
  PROVE  WithinCapacity'
<1>1. Translation(p, v) \in Frame /\ tlb \in Tlbs
  BY TranslationType DEF AccessResident, Bounded, TypeOK, Tlbs
<1>2. /\ tlb' \in TlbInsert(tlb, p, v, Translation(p, v))
      /\ swap' = swap
  BY DEF AccessResident
<1> QED
  BY <1>1, <1>2, AccessFits DEF Bounded, WithinCapacity

LEMMA CapacityCowCopy ==
  ASSUME Bounded, NEW p \in Proc, NEW v \in Page,
         NEW x \in Value \union {NoData}, CowCopy(p, v, x)
  PROVE  WithinCapacity'
<1>1. PICK g \in Frame : tlb' \in TlbInsert(tlb, p, v, g)
  BY DEF CowCopy
<1>2. tlb \in Tlbs /\ swap' = swap
  BY DEF Bounded, TypeOK, Tlbs, CowCopy
<1> QED
  BY <1>1, <1>2, AccessFits DEF Bounded, WithinCapacity

LEMMA CapacityCowTakeOver ==
  ASSUME Bounded, NEW p \in Proc, NEW v \in Page,
         NEW x \in Value \union {NoData}, CowTakeOver(p, v, x)
  PROVE  WithinCapacity'
<1> DEFINE f == Translation(p, v)
           R == Readers(f, p, v)
           emptied == [q \in Proc |-> [u \in Page |->
                         IF <<q, u>> \in R THEN NoFrame ELSE tlb[q][u]]]
<1>1. f \in Frame /\ R \in SUBSET Mapping
  <2>1. f \in Frame
    BY TranslationType DEF CowTakeOver, Bounded
  <2> QED
    BY <2>1 DEF Readers, Bounded, TypeOK
<1>2. Cardinality(UsedSlots(swap')) <= SlotCount
  <2>1. swap' = Saved(R, data[f]) /\ SwapRoom(R)
    BY DEF CowTakeOver
  <2> QED
    BY <1>1, <2>1, SavedSlots, SlotsFit
<1>3. Cardinality(TlbUsed(tlb')) <= TlbEntries
  <2>1. emptied \in Tlbs
    BY DEF Bounded, TypeOK, Tlbs
  <2>2. \A q \in Proc, u \in Page : emptied[q][u] # NoFrame => tlb[q][u] # NoFrame
    OBVIOUS
  <2>3. tlb' \in TlbInsert(emptied, p, v, f)
    BY DEF CowTakeOver
  <2> QED
    BY <1>1, <2>1, <2>2, <2>3, AccessFits
<1> QED
  BY <1>2, <1>3 DEF WithinCapacity

LEMMA CapacityCowFails ==
  ASSUME Bounded, NEW p \in Proc, NEW v \in Page, CowFails(p, v)
  PROVE  WithinCapacity'
<1> DEFINE f == Translation(p, v)
           R == Readers(f, p, v)
<1>1. R \in SUBSET Mapping
  <2>1. f \in Frame
    BY TranslationType DEF CowFails, Bounded
  <2> QED
    BY <2>1 DEF Readers, Bounded, TypeOK
<1>2. tlb' = tlb
  BY DEF CowFails
<1>3. swap' = swap \/ \E W \in SUBSET R : SwapRoom(W) /\ swap' = Saved(W, data[f])
  <2>1. ASSUME NEW W \in SUBSET R, Cardinality(W \ UsedSlots(swap)) = FreeSlots
        PROVE  SwapRoom(W)
    <3>1. W \ UsedSlots(swap) \in SUBSET Mapping
      BY <1>1
    <3>2. Cardinality(W \ UsedSlots(swap)) \in Nat
      BY <3>1, MappingsFinite
    <3> QED
      BY <2>1, <3>2 DEF SwapRoom
  <2> QED
    BY <2>1 DEF CowFails
<1>4. Cardinality(UsedSlots(swap')) <= SlotCount
  <2>1. CASE swap' = swap
    BY <2>1 DEF Bounded, WithinCapacity
  <2>2. ASSUME NEW W \in SUBSET R, SwapRoom(W), swap' = Saved(W, data[f])
        PROVE  Cardinality(UsedSlots(swap')) <= SlotCount
    BY <1>1, <2>2, SavedSlots, SlotsFit
  <2> QED
    BY <1>3, <2>1, <2>2
<1> QED
  BY <1>2, <1>4 DEF Bounded, WithinCapacity

LEMMA CapacityLoadFreeFrame ==
  ASSUME Bounded, NEW p \in Proc, NEW v \in Page, NEW w \in BOOLEAN,
         NEW x \in Value \union {NoData}, LoadFreeFrame(p, v, w, x)
  PROVE  WithinCapacity'
<1>1. PICK g \in Frame : tlb' \in TlbInsert(tlb, p, v, g)
  BY DEF LoadFreeFrame
<1>2. tlb \in Tlbs
  BY DEF Bounded, TypeOK, Tlbs
<1>3. \A q \in Proc, u \in Page : swap'[q][u] # NoData => swap[q][u] # NoData
  BY DEF LoadFreeFrame, Bounded, TypeOK
<1> QED
  BY <1>1, <1>2, <1>3, AccessFits, FewerSlots DEF WithinCapacity

\* A replacement takes the translation of the victim out, whoever owned it.
LEMMA VictimTranslation ==
  ASSUME TypeOK, NEW f \in Frame
  PROVE  /\ TlbWithoutVictim(f) \in Tlbs
         /\ \A q \in Proc, u \in Page :
              TlbWithoutVictim(f)[q][u] # NoFrame => tlb[q][u] # NoFrame
BY DEF TlbWithoutVictim, TypeOK, Tlbs

LEMMA CapacityReplacePage ==
  ASSUME Bounded, NEW p \in Proc, NEW v \in Page, NEW w \in BOOLEAN,
         NEW x \in Value \union {NoData}, ReplacePage(p, v, w, x)
  PROVE  WithinCapacity'
<1>1. PICK f \in Frame :
        /\ Evictable(f)
        /\ tlb' \in TlbInsert(TlbWithoutVictim(f), p, v, f)
        /\ swap' = [SwapAfterSave(f) EXCEPT ![p][v] = NoData]
  BY DEF ReplacePage
<1>2. Cardinality(TlbUsed(tlb')) <= TlbEntries
  BY <1>1, VictimTranslation, AccessFits DEF Bounded
<1> DEFINE saved == SwapAfterSave(f)
<1>3. saved \in Swaps
  BY SwapAfterSaveType DEF Bounded
<1>4. Cardinality(UsedSlots(saved)) <= SlotCount
  BY <1>1, VictimFits
<1>5. swap' = [saved EXCEPT ![p][v] = NoData]
  BY <1>1
<1> HIDE DEF saved
<1>6. \A q \in Proc, u \in Page : swap'[q][u] # NoData => saved[q][u] # NoData
  BY <1>3, <1>5 DEF Swaps
<1>7. UsedSlots(swap') \in SUBSET UsedSlots(saved) /\ UsedSlots(saved) \in SUBSET Mapping
  BY <1>6 DEF UsedSlots, Mapping
<1>8. /\ Cardinality(UsedSlots(swap')) <= Cardinality(UsedSlots(saved))
      /\ Cardinality(UsedSlots(swap')) \in Nat /\ Cardinality(UsedSlots(saved)) \in Nat
  BY <1>7, FewerMappings, MappingsFinite
<1> QED
  BY <1>2, <1>4, <1>8 DEF WithinCapacity

LEMMA CapacityReplaceRefused ==
  ASSUME Bounded, NEW p \in Proc, NEW v \in Page, ReplaceRefused(p, v)
  PROVE  WithinCapacity'
<1>1. tlb' = tlb
  BY DEF ReplaceRefused
<1>2. \/ swap' = swap
      \/ \E f \in Frame : /\ <<owner[f], page[f]>> \in UsedSlots(swap)
                          /\ MustSave(f)
                          /\ swap' = SwapAfterSave(f)
  BY DEF ReplaceRefused, Bounded, TypeOK
<1>3. ASSUME NEW f \in Frame, <<owner[f], page[f]>> \in UsedSlots(swap),
             MustSave(f), swap' = SwapAfterSave(f)
      PROVE  Cardinality(UsedSlots(swap')) <= SlotCount
  <2>1. <<owner[f], page[f]>> \in Mapping
    BY <1>3 DEF UsedSlots
  <2>2. UsedSlots(swap') \in SUBSET UsedSlots(swap)
    BY <1>3, <2>1, VictimSlots DEF Bounded
  <2>3. UsedSlots(swap) \in SUBSET Mapping
    BY DEF UsedSlots
  <2>4. /\ Cardinality(UsedSlots(swap')) <= Cardinality(UsedSlots(swap))
        /\ Cardinality(UsedSlots(swap')) \in Nat
        /\ Cardinality(UsedSlots(swap)) \in Nat
    BY <2>2, <2>3, FewerMappings, MappingsFinite
  <2> QED
    BY <2>4 DEF Bounded, WithinCapacity
<1> QED
  BY <1>1, <1>2, <1>3 DEF Bounded, WithinCapacity

LEMMA CapacityReplaceRestoreFails ==
  ASSUME Bounded, NEW p \in Proc, NEW v \in Page, ReplaceRestoreFails(p, v)
  PROVE  WithinCapacity'
<1>1. PICK f \in Frame : /\ Evictable(f)
                         /\ tlb' = TlbWithoutVictim(f)
                         /\ swap' = SwapAfterSave(f)
  BY DEF ReplaceRestoreFails
<1>2. Cardinality(TlbUsed(tlb')) <= TlbEntries
  BY <1>1, VictimTranslation, FewerTranslations DEF Bounded
<1>3. Cardinality(UsedSlots(swap')) <= SlotCount
  BY <1>1, VictimFits
<1> QED
  BY <1>2, <1>3 DEF WithinCapacity

\* A fork drops the translations of the parent, a release also the slots.
LEMMA CapacityWithoutProcess ==
  ASSUME Bounded, NEW p \in Proc, tlb' = TlbWithoutProcess(p),
         swap' = swap \/ swap' = SwapWithoutProcess(p)
  PROVE  WithinCapacity'
<1>1. /\ TlbWithoutProcess(p) \in Tlbs
      /\ \A q \in Proc, u \in Page :
           TlbWithoutProcess(p)[q][u] # NoFrame => tlb[q][u] # NoFrame
  BY DEF TlbWithoutProcess, NoTranslation, Bounded, TypeOK, Tlbs
<1>2. Cardinality(TlbUsed(tlb')) <= TlbEntries
  BY <1>1, FewerTranslations
<1>3. \A q \in Proc, u \in Page : swap'[q][u] # NoData => swap[q][u] # NoData
  <2>1. CASE swap' = SwapWithoutProcess(p)
    BY <2>1 DEF SwapWithoutProcess, NoSlot, Bounded, TypeOK
  <2> QED
    BY <2>1
<1> QED
  BY <1>2, <1>3, FewerSlots DEF WithinCapacity

-----------------------------------------------------------------------------

LEMMA CapacityInit == Init => Bounded
<1> SUFFICES ASSUME Init PROVE WithinCapacity
  BY TypeInit DEF Bounded
<1>1. TlbUsed(tlb) = {} /\ UsedSlots(swap) = {}
  BY DEF Init, TlbUsed, UsedSlots, NoTranslation, NoSlot, Mapping
<1> QED
  BY <1>1, FS_EmptySet DEF WithinCapacity

LEMMA CapacityNext == Bounded /\ [Next]_vars => Bounded'
<1> SUFFICES ASSUME Bounded, [Next]_vars PROVE Bounded'
  OBVIOUS
<1>1. TypeOK'
  BY TypeNext DEF Bounded
<1>2. ASSUME tlb' = tlb, swap' = swap PROVE WithinCapacity'
  BY <1>2 DEF Bounded, WithinCapacity
<1>3. ASSUME NEW p \in Proc, NEW v \in Page, LoadFreeFrameFails(p, v)
      PROVE  WithinCapacity'
  BY <1>2, <1>3 DEF LoadFreeFrameFails
<1>4. ASSUME NEW p \in Proc, CreateProcess(p) \/ DestroyProcess(p)
      PROVE  WithinCapacity'
  BY <1>2, <1>4 DEF CreateProcess, DestroyProcess
<1>5. ASSUME NEW p \in Proc, Release(p) PROVE WithinCapacity'
  <2>1. tlb' = TlbWithoutProcess(p) /\ swap' = SwapWithoutProcess(p)
    BY <1>5 DEF Release
  <2> QED
    BY <2>1, CapacityWithoutProcess
<1>6. ASSUME NEW p \in Proc, NEW c \in Proc, Fork(p, c) PROVE WithinCapacity'
  <2>1. tlb' = TlbWithoutProcess(p) /\ swap' = swap
    BY <1>6 DEF Fork
  <2> QED
    BY <2>1, CapacityWithoutProcess
<1>7. ASSUME UNCHANGED vars PROVE WithinCapacity'
  BY <1>2, <1>7 DEF vars
<1>8. WithinCapacity'
  BY <1>3, <1>4, <1>5, <1>6, <1>7, StepCases, CapacityAccessResident,
     CapacityCowCopy, CapacityCowTakeOver, CapacityCowFails,
     CapacityLoadFreeFrame, CapacityReplacePage, CapacityReplaceRefused,
     CapacityReplaceRestoreFails
<1> QED
  BY <1>1, <1>8 DEF Bounded

\* No call fills the TLB or the swap area beyond its capacity: not a write to a
\* shared page that sends many readers to swap, not one that gives up half way.
THEOREM CapacityCorrect == Spec => []WithinCapacity
<1>1. Bounded => WithinCapacity
  BY DEF Bounded
<1> QED
  BY <1>1, CapacityInit, CapacityNext, PTL DEF Spec

-----------------------------------------------------------------------------
(***************************************************************************)
(* Coherence.  The structures that virtual_memory.c keeps for one page -   *)
(* its entry in the page table, the list of the COW manager, the header of *)
(* its frame, the replacement policy, the registry, the TLB - agree after  *)
(* every call, when addresses are canonical.                               *)
(*                                                                         *)
(* The invariant is inductive as soon as coherence of the TLB is part of   *)
(* it: an access trusts a cached translation, so a stale one would be      *)
(* carried into the COW lists by the next write.                           *)
(***************************************************************************)

Inv == TypeOK /\ Coherent /\ TlbCoherent

-----------------------------------------------------------------------------
(* What the invariant says of one page, one frame, one process. *)

\* A TLB hit and a page walk reach the same frame.
LEMMA TranslationIsFrame ==
  ASSUME Inv, NEW p \in Proc, NEW v \in Page
  PROVE  Translation(p, v) = FrameOf(p, v)
BY DEF Inv, Translation, TlbCoherent, FrameOf

\* All that the structures know of a resident page.
LEMMA ResidentFacts ==
  ASSUME Inv, NEW p \in Proc, NEW v \in Page, FrameOf(p, v) # NoFrame
  PROVE  /\ FrameOf(p, v) \in Frame
         /\ <<p, v>> \in cow[FrameOf(p, v)]
         /\ owner[FrameOf(p, v)] \in Proc
         /\ Occupied(FrameOf(p, v))
         /\ page[FrameOf(p, v)] = v
         /\ p \in registered
<1> DEFINE f == FrameOf(p, v)
<1>1. f \in Frame
  BY DEF Inv, TypeOK, FrameOf
<1>2. <<p, v>> \in cow[f]
  BY DEF Inv, Coherent, MappedIsRecorded, Resident
<1>3. page[f] = v /\ p \in registered
  BY <1>1, <1>2 DEF Inv, Coherent, RecordedIsMapped
<1>4. Occupied(f)
  BY <1>1, <1>2 DEF Inv, Coherent, OwnersMap
<1>5. owner[f] \in Proc
  BY <1>1, <1>4 DEF Inv, TypeOK, Occupied
<1> QED
  BY <1>1, <1>2, <1>3, <1>4, <1>5

\* The mappings recorded for a frame are the residents of that frame.
LEMMA RecordedFacts ==
  ASSUME Inv, NEW f \in Frame, NEW m \in cow[f]
  PROVE  /\ m[1] \in Proc /\ m[2] \in Page /\ m = <<m[1], m[2]>>
         /\ FrameOf(m[1], m[2]) = f
         /\ m[2] = page[f]
         /\ m[1] \in registered
         /\ Occupied(f)
<1>1. m \in Mapping
  BY DEF Inv, TypeOK
<1>2. m[1] \in Proc /\ m[2] \in Page /\ m = <<m[1], m[2]>>
  BY <1>1 DEF Mapping
<1>3. FrameOf(m[1], m[2]) = f /\ m[2] = page[f] /\ m[1] \in registered
  BY DEF Inv, Coherent, RecordedIsMapped
<1>4. Occupied(f)
  BY DEF Inv, Coherent, OwnersMap
<1> QED
  BY <1>2, <1>3, <1>4

\* Nothing refers to a free frame.
LEMMA FreeFacts ==
  ASSUME Inv, NEW g \in Frame, ~Occupied(g)
  PROVE  /\ cow[g] = {}
         /\ \A q \in Proc, u \in Page : FrameOf(q, u) # g /\ tlb[q][u] # g
<1>1. cow[g] = {}
  BY DEF Inv, Coherent, OwnersMap
<1>2. ASSUME NEW q \in Proc, NEW u \in Page PROVE FrameOf(q, u) # g
  BY ResidentFacts, FrameFacts
<1>3. ASSUME NEW q \in Proc, NEW u \in Page PROVE tlb[q][u] # g
  BY <1>2, FrameFacts DEF Inv, TlbCoherent
<1> QED
  BY <1>1, <1>2, <1>3

\* Nothing is left of a process that is not registered.
LEMMA UnregisteredFacts ==
  ASSUME Inv, NEW p \in Proc, p \notin registered
  PROVE  \A u \in Page : /\ FrameOf(p, u) = NoFrame
                         /\ tlb[p][u] = NoFrame
                         /\ swap[p][u] = NoData
BY ResidentFacts, ZenonT(30) DEF Inv, TlbCoherent, Coherent, SlotsAccounted

\* free_frame_count after one free frame was taken.
LEMMA FreeFrameTaken ==
  ASSUME Inv, NEW g \in Frame, ~Occupied(g)
  PROVE  freeCount - 1 = Cardinality({f \in Frame : ~Occupied(f)} \ {g})
<1> DEFINE free == {f \in Frame : ~Occupied(f)}
<1>1. IsFiniteSet(free)
  BY FrameFacts, FS_Subset
<1>2. Cardinality(free \ {g}) = Cardinality(free) - 1
  BY <1>1, FS_RemoveElement
<1> QED
  BY <1>2 DEF Inv, Coherent, FramesAccounted

\* An insertion keeps the TLB coherent when what was in it before is.
LEMMA TlbCoherentAfterInsert ==
  ASSUME NEW t \in Tlbs, NEW p \in Proc, NEW v \in Page, NEW f \in Frame,
         tlb' \in TlbInsert(t, p, v, f),
         FrameOf(p, v)' = f,
         \A q \in Proc, u \in Page :
           <<q, u>> # <<p, v>> /\ t[q][u] # NoFrame => t[q][u] = FrameOf(q, u)'
  PROVE  TlbCoherent'
<1>1. \A q \in Proc, u \in Page :
        tlb'[q][u] # NoFrame =>
          tlb'[q][u] = IF q = p /\ u = v THEN f ELSE t[q][u]
  BY TlbInsertEffect
<1> QED
  BY <1>1 DEF TlbCoherent

-----------------------------------------------------------------------------
(* The invariant holds initially and after each call. *)

LEMMA CoherentInit == Init => Inv
<1> SUFFICES ASSUME Init PROVE Coherent /\ TlbCoherent
  BY TypeInit DEF Inv
<1>1. FramesAccounted
  <2>1. {f \in Frame : ~Occupied(f)} = Frame
    BY DEF Init, Occupied
  <2> QED
    BY <2>1, FrameFacts DEF Init, FramesAccounted, Occupied
<1> QED
  BY <1>1 DEF Init, Coherent, TlbCoherent, MappedIsRecorded, RecordedIsMapped,
     OwnersMap, SlotsAccounted, Resident, FrameOf, Occupied, NoTranslation, NoSlot

LEMMA CoherentAccessResident ==
  ASSUME Inv, NEW p \in Proc, NEW v \in Page, NEW w \in BOOLEAN,
         NEW x \in Value \union {NoData}, AccessResident(p, v, w, x)
  PROVE  Coherent' /\ TlbCoherent'
<1> DEFINE f == FrameOf(p, v)
<1>1. /\ Translation(p, v) = f
      /\ f # NoFrame
  BY TranslationIsFrame DEF AccessResident
<1>2. f \in Frame /\ Occupied(f) /\ p \in registered
  BY <1>1, ResidentFacts
<1>3. UNCHANGED <<live, registered, pt, owner, page, freeCount, cow, loaded, swap>>
  BY <1>2 DEF AccessResident, Call
<1>4. \A g \in Frame : g # f => data'[g] = data[g] /\ dirty'[g] = dirty[g]
  <2>1. data' = Stored(data, pt, p, v, x) /\ dirty' = MarkAccess(dirty, f, w)
    BY <1>1 DEF AccessResident
  <2>2. \A g \in Frame : g # f => data'[g] = data[g]
    <3>1. data \in Contents /\ pt \in Tables
      BY DEF Inv, TypeOK, Contents, Tables
    <3> QED
      BY <2>1, <3>1, StoredEffect DEF FrameOf
  <2> QED
    BY <2>1, <2>2, <1>2 DEF MarkAccess, Inv, TypeOK
<1>5. MappedIsRecorded' /\ RecordedIsMapped' /\ FramesAccounted' /\ SlotsAccounted'
  BY <1>3 DEF Inv, Coherent, MappedIsRecorded, RecordedIsMapped, FramesAccounted,
     SlotsAccounted, Resident, FrameOf, Occupied
<1>6. OwnersMap'
  BY <1>2, <1>3, <1>4 DEF Inv, Coherent, OwnersMap, Occupied
<1>7. TlbCoherent'
  <2>1. tlb' \in TlbInsert(tlb, p, v, f)
    BY <1>1 DEF AccessResident
  <2>2. \A q \in Proc, u \in Page : FrameOf(q, u)' = FrameOf(q, u)
    BY <1>3 DEF FrameOf
  <2>3. tlb \in Tlbs
    BY DEF Inv, TypeOK, Tlbs
  <2> QED
    BY <1>2, <2>1, <2>2, <2>3, TlbCoherentAfterInsert DEF Inv, TlbCoherent
<1> QED
  BY <1>5, <1>6, <1>7 DEF Coherent

LEMMA CoherentCowCopy ==
  ASSUME Inv, Canonical, NEW p \in Proc, NEW v \in Page,
         NEW x \in Value \union {NoData}, CowCopy(p, v, x)
  PROVE  Coherent' /\ TlbCoherent'
<1> DEFINE f == FrameOf(p, v)
<1>1. /\ Translation(p, v) = f
      /\ f # NoFrame
  BY TranslationIsFrame DEF CowCopy
<1>2. /\ f \in Frame /\ Occupied(f) /\ p \in registered
      /\ <<p, v>> \in cow[f] /\ page[f] = v
  BY <1>1, ResidentFacts
<1>3. PICK g \in Frame :
        /\ FirstFree(g)
        /\ pt' = [pt EXCEPT ![p][PathOf[v]] = g]
        /\ cow' = [cow EXCEPT ![f] = @ \ {<<p, v>>}, ![g] = @ \union {<<p, v>>}]
        /\ loaded' = loaded \union {g}
        /\ IF owner[f] = p
             THEN \E q \in FrameUsers(f, v, p) :
                    owner' = Reassigned([owner EXCEPT ![g] = p], f, q)
             ELSE owner' = [owner EXCEPT ![g] = p]
        /\ page' = [page EXCEPT ![g] = v, ![f] = IF owner[f] = p THEN v ELSE @]
        /\ tlb' \in TlbInsert(tlb, p, v, g)
        /\ dirty' = MarkAccess(dirty, g, TRUE)
        /\ data' = Stored([data EXCEPT ![g] = data[f]], pt', p, v, x)
  BY <1>1 DEF CowCopy
<1>4. ~Occupied(g) /\ g # f /\ cow[g] = {}
  BY <1>2, <1>3, FreeFacts DEF FirstFree
<1>5. \A q \in Proc, u \in Page :
        FrameOf(q, u)' = IF q = p /\ u = v THEN g ELSE FrameOf(q, u)
  BY <1>3 DEF FrameOf, Canonical, Inv, TypeOK
<1>6. \A h \in Frame : cow'[h] = IF h = f THEN cow[f] \ {<<p, v>>}
                                 ELSE IF h = g THEN {<<p, v>>} ELSE cow[h]
  BY <1>2, <1>3, <1>4 DEF Inv, TypeOK
<1>7. \A h \in Frame : page'[h] = IF h = g THEN v ELSE page[h]
  BY <1>2, <1>3, <1>4 DEF Inv, TypeOK
<1>8. /\ live' = live /\ registered' = registered /\ swap' = swap
      /\ freeCount' = freeCount - 1
  BY <1>2 DEF CowCopy, Call
<1>9. \A h \in Frame : h # g /\ h # f => owner'[h] = owner[h]
  BY <1>2, <1>3 DEF Inv, TypeOK, Reassigned
<1>10. /\ owner'[g] = p
       /\ owner'[f] \in Proc
       /\ <<owner'[f], page[f]>> \in cow'[f]
  <2>1. CASE owner[f] = p
    <3>1. PICK q \in FrameUsers(f, v, p) :
            owner' = Reassigned([owner EXCEPT ![g] = p], f, q)
      BY <1>3, <2>1
    <3>2. q \in Proc /\ q # p /\ <<q, v>> \in cow[f]
      BY <3>1 DEF FrameUsers, Inv, TypeOK
    <3>3. owner'[g] = p /\ owner'[f] = q
      BY <1>2, <1>4, <3>1 DEF Reassigned, Inv, TypeOK
    <3> QED
      BY <1>2, <1>6, <3>2, <3>3
  <2>2. CASE owner[f] # p
    <3>1. owner'[g] = p /\ owner'[f] = owner[f]
      BY <1>2, <1>3, <1>4, <2>2 DEF Inv, TypeOK
    <3>2. <<owner[f], page[f]>> \in cow[f] /\ owner[f] \in Proc
      BY <1>2 DEF Inv, Coherent, OwnersMap, TypeOK, Occupied
    <3> QED
      BY <1>2, <1>6, <2>2, <3>1, <3>2
  <2> QED
    BY <2>1, <2>2
<1>11. MappedIsRecorded'
  <2> SUFFICES ASSUME NEW q \in Proc, NEW u \in Page, FrameOf(q, u)' # NoFrame
               PROVE  <<q, u>> \in cow'[FrameOf(q, u)']
    BY DEF MappedIsRecorded, Resident
  <2>1. CASE q = p /\ u = v
    BY <1>4, <1>5, <1>6, <2>1
  <2>2. CASE ~(q = p /\ u = v)
    <3>1. FrameOf(q, u)' = FrameOf(q, u)
      BY <1>5, <2>2
    <3>2. /\ FrameOf(q, u) \in Frame /\ FrameOf(q, u) # g
          /\ <<q, u>> \in cow[FrameOf(q, u)]
      BY <1>4, <3>1, ResidentFacts, FreeFacts
    <3> QED
      BY <1>6, <2>2, <3>1, <3>2
  <2> QED
    BY <2>1, <2>2
<1>12. RecordedIsMapped'
  <2> SUFFICES ASSUME NEW h \in Frame, NEW m \in cow'[h]
               PROVE  /\ FrameOf(m[1], m[2])' = h
                      /\ m[2] = page'[h]
                      /\ m[1] \in registered'
    BY DEF RecordedIsMapped
  <2>1. CASE h = g
    BY <1>2, <1>4, <1>5, <1>6, <1>7, <1>8, <2>1
  <2>2. CASE h # g
    <3>1. m \in cow[h] /\ (h = f => m # <<p, v>>)
      BY <1>6, <2>2
    <3>2. /\ m[1] \in Proc /\ m[2] \in Page /\ m = <<m[1], m[2]>>
          /\ FrameOf(m[1], m[2]) = h
          /\ m[2] = page[h] /\ m[1] \in registered
      BY <3>1, RecordedFacts
    <3>3. m # <<p, v>>
      BY <3>1, <3>2
    <3> QED
      BY <1>5, <1>7, <1>8, <2>2, <3>2, <3>3
  <2> QED
    BY <2>1, <2>2
<1>13. OwnersMap'
  <2> SUFFICES ASSUME NEW h \in Frame
               PROVE  IF owner'[h] # NoProc
                        THEN <<owner'[h], page'[h]>> \in cow'[h]
                        ELSE cow'[h] = {} /\ ~dirty'[h] /\ data'[h] = Zero
    BY DEF OwnersMap, Occupied
  <2>1. CASE h = f \/ h = g
    BY <1>2, <1>4, <1>6, <1>7, <1>10, <2>1
  <2>2. CASE h # f /\ h # g
    <3>1. /\ owner'[h] = owner[h] /\ page'[h] = page[h] /\ cow'[h] = cow[h]
          /\ dirty'[h] = dirty[h]
      BY <1>3, <1>6, <1>7, <1>9, <2>2 DEF MarkAccess, Inv, TypeOK
    <3>2. data'[h] = data[h]
      <4> DEFINE copied == [data EXCEPT ![g] = data[f]]
      <4>1. data' = Stored(copied, pt', p, v, x)
        BY <1>3
      <4>2. copied \in Contents /\ pt' \in Tables
        BY <1>2, <1>3 DEF Inv, TypeOK, Contents, Tables
      <4>3. pt'[p][PathOf[v]] = g
        BY <1>5 DEF FrameOf
      <4>4. copied[h] = data[h]
        BY <2>2 DEF Inv, TypeOK
      <4> HIDE DEF copied
      <4>5. \A i \in Frame : i # pt'[p][PathOf[v]] =>
              Stored(copied, pt', p, v, x)[i] = copied[i]
        BY <4>2, StoredEffect
      <4> QED
        BY <4>1, <4>3, <4>4, <4>5, <2>2
    <3> QED
      BY <3>1, <3>2 DEF Inv, Coherent, OwnersMap, Occupied
  <2> QED
    BY <2>1, <2>2
<1>14. FramesAccounted'
  <2>1. \A h \in Frame : owner'[h] # NoProc <=> owner[h] # NoProc \/ h = g
    BY <1>2, <1>9, <1>10 DEF Occupied
  <2>2. {h \in Frame : ~(owner'[h] # NoProc)}
          = {h \in Frame : ~(owner[h] # NoProc)} \ {g}
    BY <2>1
  <2>3. freeCount' = Cardinality({h \in Frame : ~(owner'[h] # NoProc)})
    BY <1>4, <1>8, <2>2, FreeFrameTaken DEF Occupied
  <2>4. loaded' = {h \in Frame : owner'[h] # NoProc}
    BY <1>3, <2>1 DEF Inv, Coherent, FramesAccounted, Occupied
  <2> QED
    BY <2>3, <2>4 DEF FramesAccounted, Occupied
<1>15. SlotsAccounted'
  BY <1>8 DEF Inv, Coherent, SlotsAccounted
<1>16. TlbCoherent'
  <2>1. tlb \in Tlbs
    BY DEF Inv, TypeOK, Tlbs
  <2> QED
    BY <1>3, <1>5, <2>1, TlbCoherentAfterInsert DEF Inv, TlbCoherent
<1> QED
  BY <1>11, <1>12, <1>13, <1>14, <1>15, <1>16 DEF Coherent

LEMMA CoherentCowTakeOver ==
  ASSUME Inv, Canonical, NEW p \in Proc, NEW v \in Page,
         NEW x \in Value \union {NoData}, CowTakeOver(p, v, x)
  PROVE  Coherent' /\ TlbCoherent'
<1> DEFINE f == FrameOf(p, v)
           R == Readers(f, p, v)
           emptied == [q \in Proc |-> [u \in Page |->
                         IF <<q, u>> \in R THEN NoFrame ELSE tlb[q][u]]]
<1>1. Translation(p, v) = f /\ f # NoFrame
  BY TranslationIsFrame DEF CowTakeOver
<1>2. /\ f \in Frame /\ Occupied(f) /\ p \in registered
      /\ <<p, v>> \in cow[f] /\ page[f] = v
  BY <1>1, ResidentFacts
<1>3. \A m \in R : /\ m[1] \in Proc /\ m[2] \in Page /\ m = <<m[1], m[2]>>
                   /\ FrameOf(m[1], m[2]) = f
                   /\ m[1] \in registered
  BY <1>2, RecordedFacts DEF Readers
<1>4. \A q \in Proc, u \in Page :
        FrameOf(q, u)' = IF <<q, u>> \in R THEN NoFrame ELSE FrameOf(q, u)
  <2> SUFFICES ASSUME NEW q \in Proc, NEW u \in Page
               PROVE  FrameOf(q, u)' =
                        IF <<q, u>> \in R THEN NoFrame ELSE FrameOf(q, u)
    OBVIOUS
  <2>1. pt' = [r \in Proc |-> [a \in Path |->
                 IF \E m \in R : m[1] = r /\ PathOf[m[2]] = a
                   THEN NoFrame ELSE pt[r][a]]]
    BY <1>1 DEF CowTakeOver
  <2>2. (\E m \in R : m[1] = q /\ PathOf[m[2]] = PathOf[u]) <=> <<q, u>> \in R
    BY <1>3 DEF Canonical
  <2> QED
    BY <2>1, <2>2 DEF FrameOf
<1>5. \A h \in Frame : cow'[h] = IF h = f THEN {<<p, v>>} ELSE cow[h]
  <2>1. cow' = [cow EXCEPT ![f] = @ \ R]
    BY <1>1 DEF CowTakeOver
  <2>2. cow[f] \ R = {<<p, v>>}
    BY <1>2 DEF Readers
  <2> QED
    BY <1>2, <2>1, <2>2 DEF Inv, TypeOK
<1>6. \A h \in Frame : /\ owner'[h] = IF h = f THEN p ELSE owner[h]
                       /\ page'[h] = page[h]
  BY <1>1, <1>2 DEF CowTakeOver, Reassigned, Inv, TypeOK
<1>7. /\ live' = live /\ registered' = registered
      /\ freeCount' = freeCount /\ loaded' = loaded
  BY <1>2 DEF CowTakeOver, Call
<1>8. MappedIsRecorded'
  <2> SUFFICES ASSUME NEW q \in Proc, NEW u \in Page, FrameOf(q, u)' # NoFrame
               PROVE  <<q, u>> \in cow'[FrameOf(q, u)']
    BY DEF MappedIsRecorded, Resident
  <2>1. <<q, u>> \notin R /\ FrameOf(q, u)' = FrameOf(q, u)
    BY <1>4
  <2>2. FrameOf(q, u) \in Frame /\ <<q, u>> \in cow[FrameOf(q, u)]
    BY <2>1, ResidentFacts
  <2> QED
    BY <1>5, <2>1, <2>2 DEF Readers
<1>9. RecordedIsMapped'
  <2> SUFFICES ASSUME NEW h \in Frame, NEW m \in cow'[h]
               PROVE  /\ FrameOf(m[1], m[2])' = h
                      /\ m[2] = page'[h]
                      /\ m[1] \in registered'
    BY DEF RecordedIsMapped
  <2>1. m \in cow[h] /\ m \notin R
    <3>1. CASE h = f
      BY <1>2, <1>5, <3>1 DEF Readers
    <3>2. CASE h # f
      BY <1>3, <1>5, <3>2, RecordedFacts
    <3> QED
      BY <3>1, <3>2
  <2>2. /\ m[1] \in Proc /\ m[2] \in Page /\ m = <<m[1], m[2]>>
        /\ FrameOf(m[1], m[2]) = h
        /\ m[2] = page[h] /\ m[1] \in registered
    BY <2>1, RecordedFacts
  <2> QED
    BY <1>4, <1>6, <1>7, <2>1, <2>2
<1>10. OwnersMap'
  <2> SUFFICES ASSUME NEW h \in Frame
               PROVE  IF owner'[h] # NoProc
                        THEN <<owner'[h], page'[h]>> \in cow'[h]
                        ELSE cow'[h] = {} /\ ~dirty'[h] /\ data'[h] = Zero
    BY DEF OwnersMap, Occupied
  <2>1. CASE h = f
    BY <1>2, <1>5, <1>6, <2>1
  <2>2. CASE h # f
    <3>1. dirty'[h] = dirty[h]
      BY <1>1, <2>2 DEF CowTakeOver, MarkAccess, Inv, TypeOK
    <3>2. data'[h] = data[h]
      <4>1. data' = Stored(data, pt', p, v, x)
        BY DEF CowTakeOver
      <4>2. data \in Contents /\ pt' \in Tables
        BY TypeCowTakeOver DEF Inv, TypeOK, Contents, Tables
      <4>3. pt'[p][PathOf[v]] = f
        BY <1>4 DEF FrameOf, Readers
      <4> QED
        BY <4>1, <4>2, <4>3, <2>2, StoredEffect
    <3> QED
      BY <1>5, <1>6, <2>2, <3>1, <3>2 DEF Inv, Coherent, OwnersMap, Occupied
  <2> QED
    BY <2>1, <2>2
<1>11. FramesAccounted'
  <2>1. \A h \in Frame : owner'[h] # NoProc <=> owner[h] # NoProc
    BY <1>2, <1>6 DEF Occupied
  <2>2. /\ {h \in Frame : ~(owner'[h] # NoProc)}
             = {h \in Frame : ~(owner[h] # NoProc)}
        /\ {h \in Frame : owner'[h] # NoProc} = {h \in Frame : owner[h] # NoProc}
    BY <2>1
  <2> QED
    BY <1>7, <2>2 DEF Inv, Coherent, FramesAccounted, Occupied
<1>12. SlotsAccounted'
  <2>1. \A q \in Proc, u \in Page :
          swap'[q][u] # NoData => swap[q][u] # NoData \/ <<q, u>> \in R
    BY <1>1 DEF CowTakeOver, Saved
  <2>2. \A q \in Proc, u \in Page : swap'[q][u] # NoData => q \in registered
    BY <1>3, <2>1 DEF Inv, Coherent, SlotsAccounted
  <2> QED
    BY <1>7, <2>2 DEF Inv, Coherent, SlotsAccounted
<1>13. TlbCoherent'
  <2>1. emptied \in Tlbs
    BY DEF Inv, TypeOK, Tlbs
  <2>2. tlb' \in TlbInsert(emptied, p, v, f)
    BY <1>1 DEF CowTakeOver
  <2>3. \A q \in Proc, u \in Page :
          emptied[q][u] # NoFrame => emptied[q][u] = FrameOf(q, u)'
    BY <1>4 DEF Inv, TlbCoherent
  <2>4. FrameOf(p, v)' = f
    BY <1>4 DEF Readers
  <2> HIDE DEF emptied
  <2> QED
    BY <1>2, <2>1, <2>2, <2>3, <2>4, TlbCoherentAfterInsert
<1> QED
  BY <1>8, <1>9, <1>10, <1>11, <1>12, <1>13 DEF Coherent

\* The failures that leave everything but the swap area alone.
LEMMA CoherentCowFails ==
  ASSUME Inv, NEW p \in Proc, NEW v \in Page, CowFails(p, v)
  PROVE  Coherent' /\ TlbCoherent'
<1> DEFINE f == FrameOf(p, v)
           R == Readers(f, p, v)
<1>1. Translation(p, v) = f /\ f # NoFrame
  BY TranslationIsFrame DEF CowFails
<1>2. f \in Frame /\ p \in registered
  BY <1>1, ResidentFacts
<1>3. \A m \in R : m[1] \in registered
  BY <1>2, RecordedFacts DEF Readers
<1>4. UNCHANGED <<live, registered, pt, frameVars, cow, loaded, tlb>>
  BY <1>2 DEF CowFails, Call
<1>5. SlotsAccounted'
  <2>1. swap' = swap \/ \E W \in SUBSET R : swap' = Saved(W, data[f])
    BY <1>1 DEF CowFails
  <2>2. \A q \in Proc, u \in Page :
          swap'[q][u] # NoData => swap[q][u] # NoData \/ <<q, u>> \in R
    BY <2>1 DEF Saved
  <2>3. \A q \in Proc, u \in Page : swap'[q][u] # NoData => q \in registered
    BY <1>3, <2>2 DEF Inv, Coherent, SlotsAccounted
  <2> QED
    BY <1>4, <2>3 DEF Inv, Coherent, SlotsAccounted
<1> QED
  BY <1>4, <1>5 DEF Inv, Coherent, MappedIsRecorded, RecordedIsMapped, OwnersMap,
     FramesAccounted, TlbCoherent, Resident, FrameOf, Occupied, frameVars

LEMMA CoherentLoadFreeFrame ==
  ASSUME Inv, Canonical, NEW p \in Proc, NEW v \in Page, NEW w \in BOOLEAN,
         NEW x \in Value \union {NoData}, LoadFreeFrame(p, v, w, x)
  PROVE  Coherent' /\ TlbCoherent'
<1>1. FrameOf(p, v) = NoFrame
  BY TranslationIsFrame DEF LoadFreeFrame
<1>2. PICK g \in Frame :
        /\ FirstFree(g)
        /\ owner' = [owner EXCEPT ![g] = p]
        /\ page' = [page EXCEPT ![g] = v]
        /\ dirty' = MarkAccess(dirty, g, w)
        /\ pt' = [pt EXCEPT ![p][PathOf[v]] = g]
        /\ cow' = [cow EXCEPT ![g] = @ \union {<<p, v>>}]
        /\ loaded' = loaded \union {g}
        /\ data' = Stored([data EXCEPT ![g] = Restored(swap, p, v)],
                          pt', p, v, x)
        /\ tlb' \in TlbInsert(tlb, p, v, g)
  BY DEF LoadFreeFrame
<1>3. ~Occupied(g) /\ cow[g] = {}
  BY <1>2, FreeFacts DEF FirstFree
<1>4. \A q \in Proc, u \in Page :
        FrameOf(q, u)' = IF q = p /\ u = v THEN g ELSE FrameOf(q, u)
  BY <1>2 DEF FrameOf, Canonical, Inv, TypeOK
<1>5. \A h \in Frame :
        /\ cow'[h] = IF h = g THEN {<<p, v>>} ELSE cow[h]
        /\ page'[h] = IF h = g THEN v ELSE page[h]
        /\ owner'[h] = IF h = g THEN p ELSE owner[h]
  BY <1>2, <1>3 DEF Inv, TypeOK
<1>6. /\ live' = live /\ registered' = registered \union {p} /\ p \in live
      /\ freeCount' = freeCount - 1
      /\ \A q \in Proc, u \in Page : swap'[q][u] # NoData => swap[q][u] # NoData
  BY DEF LoadFreeFrame, Call, Inv, TypeOK
<1>7. MappedIsRecorded'
  <2> SUFFICES ASSUME NEW q \in Proc, NEW u \in Page, FrameOf(q, u)' # NoFrame
               PROVE  <<q, u>> \in cow'[FrameOf(q, u)']
    BY DEF MappedIsRecorded, Resident
  <2>1. CASE q = p /\ u = v
    BY <1>4, <1>5, <2>1
  <2>2. CASE ~(q = p /\ u = v)
    <3>1. FrameOf(q, u)' = FrameOf(q, u)
      BY <1>4, <2>2
    <3>2. /\ FrameOf(q, u) \in Frame /\ FrameOf(q, u) # g
          /\ <<q, u>> \in cow[FrameOf(q, u)]
      BY <1>3, <3>1, ResidentFacts, FreeFacts
    <3> QED
      BY <1>5, <3>1, <3>2
  <2> QED
    BY <2>1, <2>2
<1>8. RecordedIsMapped'
  <2> SUFFICES ASSUME NEW h \in Frame, NEW m \in cow'[h]
               PROVE  /\ FrameOf(m[1], m[2])' = h
                      /\ m[2] = page'[h]
                      /\ m[1] \in registered'
    BY DEF RecordedIsMapped
  <2>1. CASE h = g
    BY <1>4, <1>5, <1>6, <2>1
  <2>2. CASE h # g
    <3>1. m \in cow[h]
      BY <1>5, <2>2
    <3>2. /\ m[1] \in Proc /\ m[2] \in Page
          /\ FrameOf(m[1], m[2]) = h
          /\ m[2] = page[h] /\ m[1] \in registered
      BY <3>1, RecordedFacts
    <3>3. ~(m[1] = p /\ m[2] = v)
      BY <1>1, <3>2, FrameFacts
    <3> QED
      BY <1>4, <1>5, <1>6, <2>2, <3>2, <3>3
  <2> QED
    BY <2>1, <2>2
<1>9. OwnersMap'
  <2> SUFFICES ASSUME NEW h \in Frame
               PROVE  IF owner'[h] # NoProc
                        THEN <<owner'[h], page'[h]>> \in cow'[h]
                        ELSE cow'[h] = {} /\ ~dirty'[h] /\ data'[h] = Zero
    BY DEF OwnersMap, Occupied
  <2>1. CASE h = g
    BY <1>5, <2>1
  <2>2. CASE h # g
    <3>1. dirty'[h] = dirty[h]
      BY <1>2, <2>2 DEF MarkAccess, Inv, TypeOK
    <3>2. data'[h] = data[h]
      <4> DEFINE restored == [data EXCEPT ![g] = Restored(swap, p, v)]
      <4>1. data' = Stored(restored, pt', p, v, x)
        BY <1>2
      <4>2. restored \in Contents /\ pt' \in Tables
        BY TypeLoadFreeFrame, RestoredType
        DEF Inv, TypeOK, Contents, Tables, Swaps
      <4>3. pt'[p][PathOf[v]] = g
        BY <1>4 DEF FrameOf
      <4>4. restored[h] = data[h]
        BY <2>2 DEF Inv, TypeOK
      <4> HIDE DEF restored
      <4> QED
        BY <4>1, <4>2, <4>3, <4>4, <2>2, StoredEffect
    <3> QED
      BY <1>5, <2>2, <3>1, <3>2 DEF Inv, Coherent, OwnersMap, Occupied
  <2> QED
    BY <2>1, <2>2
<1>10. FramesAccounted'
  <2>1. \A h \in Frame : owner'[h] # NoProc <=> owner[h] # NoProc \/ h = g
    BY <1>5
  <2>2. {h \in Frame : ~(owner'[h] # NoProc)}
          = {h \in Frame : ~(owner[h] # NoProc)} \ {g}
    BY <2>1
  <2>3. freeCount' = Cardinality({h \in Frame : ~(owner'[h] # NoProc)})
    BY <1>3, <1>6, <2>2, FreeFrameTaken DEF Occupied
  <2>4. loaded' = {h \in Frame : owner'[h] # NoProc}
    BY <1>2, <2>1 DEF Inv, Coherent, FramesAccounted, Occupied
  <2> QED
    BY <2>3, <2>4 DEF FramesAccounted, Occupied
<1>11. SlotsAccounted'
  BY <1>6 DEF Inv, Coherent, SlotsAccounted
<1>12. TlbCoherent'
  <2>1. tlb \in Tlbs
    BY DEF Inv, TypeOK, Tlbs
  <2> QED
    BY <1>2, <1>4, <2>1, TlbCoherentAfterInsert DEF Inv, TlbCoherent
<1> QED
  BY <1>7, <1>8, <1>9, <1>10, <1>11, <1>12 DEF Coherent

\* A refused fault only registers its process and may write a slot of another.
LEMMA CoherentRefused ==
  ASSUME Inv, NEW p \in Proc, NEW v \in Page,
         LoadFreeFrameFails(p, v) \/ ReplaceRefused(p, v)
  PROVE  Coherent' /\ TlbCoherent'
<1>1. /\ UNCHANGED <<live, pt, frameVars, cow, loaded, tlb>>
      /\ registered' = registered \union {p} /\ p \in live
  BY DEF LoadFreeFrameFails, ReplaceRefused, Call
<1>2. SlotsAccounted'
  <2>1. CASE swap' = swap
    BY <1>1, <2>1 DEF Inv, Coherent, SlotsAccounted
  <2>2. CASE \E f \in loaded : swap' = SwapAfterSave(f)
    <3>1. PICK f \in loaded : swap' = SwapAfterSave(f)
      BY <2>2
    <3>2. f \in Frame /\ Occupied(f)
      BY <3>1 DEF Inv, Coherent, FramesAccounted
    <3>3. owner[f] \in registered
      BY <3>2, RecordedFacts DEF Inv, Coherent, OwnersMap
    <3>4. \A q \in Proc, u \in Page :
            swap'[q][u] # NoData => swap[q][u] # NoData \/ q = owner[f]
      BY <3>1 DEF SwapAfterSave, Inv, TypeOK
    <3> QED
      BY <1>1, <3>3, <3>4 DEF Inv, Coherent, SlotsAccounted
  <2> QED
    BY <2>1, <2>2 DEF LoadFreeFrameFails, ReplaceRefused
<1> QED
  BY <1>1, <1>2 DEF Inv, Coherent, MappedIsRecorded, RecordedIsMapped, OwnersMap,
     FramesAccounted, TlbCoherent, Resident, FrameOf, Occupied, frameVars

\* A frame passes from its old page to a page that was not resident: what both
\* endings of a replacement have in common.
LEMMA CoherentReuse ==
  ASSUME Inv, Canonical, NEW p \in Proc, NEW v \in Page, NEW f \in Frame,
         FrameOf(p, v) = NoFrame, Evictable(f), Reuse(f, p, v)
  PROVE  /\ owner[f] \in registered /\ page[f] \in Page
         /\ FrameOf(p, v)' = f
         /\ \A h \in Frame :
              /\ cow'[h] = IF h = f THEN {<<p, v>>} ELSE cow[h]
              /\ owner'[h] = IF h = f THEN p ELSE owner[h]
              /\ page'[h] = IF h = f THEN v ELSE page[h]
         /\ live' = live /\ registered' = registered \union {p} /\ p \in live
         /\ MappedIsRecorded' /\ RecordedIsMapped' /\ FramesAccounted'
         /\ TlbWithoutVictim(f) \in Tlbs
         /\ \A q \in Proc, u \in Page :
              TlbWithoutVictim(f)[q][u] # NoFrame =>
                TlbWithoutVictim(f)[q][u] = FrameOf(q, u)'
<1> DEFINE o == owner[f]
           old == page[f]
<1>1. cow[f] = {<<o, old>>}
  BY DEF Evictable, Shared
<1>2. /\ o \in Proc /\ old \in Page /\ o \in registered
      /\ FrameOf(o, old) = f /\ Occupied(f)
  <2>1. \A m \in cow[f] :
          /\ m[1] \in Proc /\ m[2] \in Page /\ m[1] \in registered
          /\ FrameOf(m[1], m[2]) = f /\ Occupied(f)
    BY RecordedFacts
  <2>2. <<o, old>> \in cow[f]
    BY <1>1
  <2> QED
    BY <2>1, <2>2
<1>3. ~(o = p /\ old = v)
  BY <1>2, FrameFacts
<1>4. \A q \in Proc, u \in Page :
        FrameOf(q, u)' = IF q = p /\ u = v THEN f
                         ELSE IF q = o /\ u = old THEN NoFrame
                         ELSE FrameOf(q, u)
  <2>1. pt' = [pt EXCEPT ![p][PathOf[v]] = f, ![o][PathOf[old]] = NoFrame]
    BY DEF Reuse
  <2>2. PathOf[v] \in Path /\ PathOf[old] \in Path
    BY <1>2
  <2>3. \A q \in Proc, a \in Path :
          pt'[q][a] = IF q = o /\ a = PathOf[old] THEN NoFrame
                      ELSE IF q = p /\ a = PathOf[v] THEN f
                      ELSE pt[q][a]
    BY <1>2, <2>1, <2>2 DEF Inv, TypeOK
  <2>4. \A u \in Page : PathOf[u] \in Path
    OBVIOUS
  <2> QED
    BY <1>2, <1>3, <2>3, <2>4 DEF FrameOf, Canonical
<1>5. \A h \in Frame :
        /\ cow'[h] = IF h = f THEN {<<p, v>>} ELSE cow[h]
        /\ owner'[h] = IF h = f THEN p ELSE owner[h]
        /\ page'[h] = IF h = f THEN v ELSE page[h]
  BY <1>1 DEF Reuse, Inv, TypeOK
<1>6. /\ live' = live /\ registered' = registered \union {p} /\ p \in live
      /\ freeCount' = freeCount /\ loaded' = loaded
  BY DEF Reuse, Call
<1>7. MappedIsRecorded'
  <2> SUFFICES ASSUME NEW q \in Proc, NEW u \in Page, FrameOf(q, u)' # NoFrame
               PROVE  <<q, u>> \in cow'[FrameOf(q, u)']
    BY DEF MappedIsRecorded, Resident
  <2>1. CASE q = p /\ u = v
    BY <1>4, <1>5, <2>1
  <2>2. CASE ~(q = p /\ u = v)
    <3>1. FrameOf(q, u)' = FrameOf(q, u) /\ ~(q = o /\ u = old)
      BY <1>4, <2>2
    <3>2. FrameOf(q, u) \in Frame /\ <<q, u>> \in cow[FrameOf(q, u)]
      BY <3>1, ResidentFacts
    <3>3. FrameOf(q, u) # f
      BY <1>1, <3>1, <3>2
    <3> QED
      BY <1>5, <3>1, <3>2, <3>3
  <2> QED
    BY <2>1, <2>2
<1>8. RecordedIsMapped'
  <2> SUFFICES ASSUME NEW h \in Frame, NEW m \in cow'[h]
               PROVE  /\ FrameOf(m[1], m[2])' = h
                      /\ m[2] = page'[h]
                      /\ m[1] \in registered'
    BY DEF RecordedIsMapped
  <2>1. CASE h = f
    BY <1>4, <1>5, <1>6, <2>1
  <2>2. CASE h # f
    <3>1. m \in cow[h]
      BY <1>5, <2>2
    <3>2. /\ m[1] \in Proc /\ m[2] \in Page
          /\ FrameOf(m[1], m[2]) = h
          /\ m[2] = page[h] /\ m[1] \in registered
      BY <3>1, RecordedFacts
    <3>3. ~(m[1] = p /\ m[2] = v) /\ ~(m[1] = o /\ m[2] = old)
      BY <1>2, <2>2, <3>2, FrameFacts
    <3> QED
      BY <1>4, <1>5, <1>6, <2>2, <3>2, <3>3
  <2> QED
    BY <2>1, <2>2
<1>9. FramesAccounted'
  <2>1. \A h \in Frame : owner'[h] # NoProc <=> owner[h] # NoProc
    BY <1>2, <1>5 DEF Occupied
  <2>2. /\ {h \in Frame : ~(owner'[h] # NoProc)}
             = {h \in Frame : ~(owner[h] # NoProc)}
        /\ {h \in Frame : owner'[h] # NoProc} = {h \in Frame : owner[h] # NoProc}
    BY <2>1
  <2> QED
    BY <1>6, <2>2 DEF Inv, Coherent, FramesAccounted, Occupied
<1>10. TlbWithoutVictim(f) \in Tlbs
  BY <1>2 DEF TlbWithoutVictim, Inv, TypeOK, Tlbs
<1>11. ASSUME NEW q \in Proc, NEW u \in Page,
              TlbWithoutVictim(f)[q][u] # NoFrame
       PROVE  TlbWithoutVictim(f)[q][u] = FrameOf(q, u)'
  <2>1. ~(q = o /\ u = old) /\ TlbWithoutVictim(f)[q][u] = tlb[q][u]
    BY <1>2, <1>11 DEF TlbWithoutVictim, Inv, TypeOK
  <2>2. tlb[q][u] = FrameOf(q, u) /\ FrameOf(q, u) # NoFrame
    BY <1>11, <2>1 DEF Inv, TlbCoherent
  <2>3. ~(q = p /\ u = v)
    BY <2>2
  <2> QED
    BY <1>4, <2>1, <2>2, <2>3
<1> QED
  BY <1>2, <1>4, <1>5, <1>6, <1>7, <1>8, <1>9, <1>10, <1>11

\* After a replacement only the slots of the two pages involved have changed.
LEMMA SlotsAfterReuse ==
  ASSUME Inv, NEW p \in Proc, NEW f \in Frame, owner[f] \in registered,
         live' = live, registered' = registered \union {p}, p \in live,
         \A q \in Proc, u \in Page :
           swap'[q][u] # NoData => SwapAfterSave(f)[q][u] # NoData
  PROVE  SlotsAccounted'
<1>1. \A q \in Proc, u \in Page :
        SwapAfterSave(f)[q][u] # NoData => swap[q][u] # NoData \/ q = owner[f]
  BY DEF SwapAfterSave, Inv, TypeOK
<1> QED
  BY <1>1 DEF Inv, Coherent, SlotsAccounted

LEMMA CoherentReplacePage ==
  ASSUME Inv, Canonical, NEW p \in Proc, NEW v \in Page, NEW w \in BOOLEAN,
         NEW x \in Value \union {NoData}, ReplacePage(p, v, w, x)
  PROVE  Coherent' /\ TlbCoherent'
<1>1. FrameOf(p, v) = NoFrame
  BY TranslationIsFrame DEF ReplacePage
<1>2. PICK f \in Frame :
        /\ Evictable(f)
        /\ Reuse(f, p, v)
        /\ tlb' \in TlbInsert(TlbWithoutVictim(f), p, v, f)
        /\ dirty' = MarkAccess([dirty EXCEPT ![f] = FALSE], f, w)
        /\ data' = Stored([data EXCEPT ![f] = Restored(SwapAfterSave(f), p, v)],
                          pt', p, v, x)
        /\ swap' = [SwapAfterSave(f) EXCEPT ![p][v] = NoData]
  BY DEF ReplacePage
<1>3. /\ FrameOf(p, v)' = f
      /\ owner[f] \in registered
      /\ \A h \in Frame :
           /\ cow'[h] = IF h = f THEN {<<p, v>>} ELSE cow[h]
           /\ owner'[h] = IF h = f THEN p ELSE owner[h]
           /\ page'[h] = IF h = f THEN v ELSE page[h]
      /\ live' = live /\ registered' = registered \union {p} /\ p \in live
      /\ MappedIsRecorded' /\ RecordedIsMapped' /\ FramesAccounted'
      /\ TlbWithoutVictim(f) \in Tlbs
      /\ \A q \in Proc, u \in Page :
           TlbWithoutVictim(f)[q][u] # NoFrame =>
             TlbWithoutVictim(f)[q][u] = FrameOf(q, u)'
  <2>1. Evictable(f) /\ Reuse(f, p, v)
    BY <1>2
  <2> QED
    BY <1>1, <2>1, CoherentReuse DEF FrameOf
<1>4. OwnersMap'
  <2> SUFFICES ASSUME NEW h \in Frame
               PROVE  IF owner'[h] # NoProc
                        THEN <<owner'[h], page'[h]>> \in cow'[h]
                        ELSE cow'[h] = {} /\ ~dirty'[h] /\ data'[h] = Zero
    BY DEF OwnersMap, Occupied
  <2>1. CASE h = f
    BY <1>3, <2>1
  <2>2. CASE h # f
    <3>1. dirty'[h] = dirty[h]
      BY <1>2, <2>2 DEF MarkAccess, Inv, TypeOK
    <3>2. data'[h] = data[h]
      <4> DEFINE restored ==
                   [data EXCEPT ![f] = Restored(SwapAfterSave(f), p, v)]
      <4>1. data' = Stored(restored, pt', p, v, x)
        BY <1>2
      <4>2. restored \in Contents /\ pt' \in Tables
        BY TypeReplacePage, SwapAfterSaveType, RestoredType
        DEF Inv, TypeOK, Contents, Tables
      <4>3. pt'[p][PathOf[v]] = f
        BY <1>3 DEF FrameOf
      <4>4. restored[h] = data[h]
        BY <2>2 DEF Inv, TypeOK
      <4> HIDE DEF restored
      <4> QED
        BY <4>1, <4>2, <4>3, <4>4, <2>2, StoredEffect
    <3> QED
      BY <1>3, <2>2, <3>1, <3>2 DEF Inv, Coherent, OwnersMap, Occupied
  <2> QED
    BY <2>1, <2>2
<1>5. SlotsAccounted'
  <2>1. SwapAfterSave(f) \in Swaps
    BY SwapAfterSaveType DEF Inv
  <2>2. \A q \in Proc, u \in Page :
          swap'[q][u] # NoData => SwapAfterSave(f)[q][u] # NoData
    BY <1>2, <2>1 DEF Swaps
  <2> QED
    BY <1>3, <2>2, SlotsAfterReuse
<1>6. TlbCoherent'
  BY <1>2, <1>3, TlbCoherentAfterInsert
<1> QED
  BY <1>3, <1>4, <1>5, <1>6 DEF Coherent

LEMMA CoherentReplaceRestoreFails ==
  ASSUME Inv, Canonical, NEW p \in Proc, NEW v \in Page,
         ReplaceRestoreFails(p, v)
  PROVE  Coherent' /\ TlbCoherent'
<1>1. FrameOf(p, v) = NoFrame
  BY TranslationIsFrame DEF ReplaceRestoreFails
<1>2. PICK f \in Frame :
        /\ Evictable(f)
        /\ Reuse(f, p, v)
        /\ tlb' = TlbWithoutVictim(f)
        /\ dirty' = [dirty EXCEPT ![f] = FALSE]
        /\ data' = [data EXCEPT ![f] = Zero]
        /\ swap' = SwapAfterSave(f)
  BY DEF ReplaceRestoreFails
<1>3. /\ owner[f] \in registered
      /\ \A h \in Frame :
           /\ cow'[h] = IF h = f THEN {<<p, v>>} ELSE cow[h]
           /\ owner'[h] = IF h = f THEN p ELSE owner[h]
           /\ page'[h] = IF h = f THEN v ELSE page[h]
      /\ live' = live /\ registered' = registered \union {p} /\ p \in live
      /\ MappedIsRecorded' /\ RecordedIsMapped' /\ FramesAccounted'
      /\ TlbWithoutVictim(f) \in Tlbs
      /\ \A q \in Proc, u \in Page :
           TlbWithoutVictim(f)[q][u] # NoFrame =>
             TlbWithoutVictim(f)[q][u] = FrameOf(q, u)'
  <2>1. Evictable(f) /\ Reuse(f, p, v)
    BY <1>2
  <2> QED
    BY <1>1, <2>1, CoherentReuse DEF FrameOf
<1>4. OwnersMap'
  BY <1>2, <1>3 DEF Inv, TypeOK, Coherent, OwnersMap, Occupied
<1>5. SlotsAccounted'
  BY <1>2, <1>3, SlotsAfterReuse
<1>6. TlbCoherent'
  BY <1>2, <1>3 DEF TlbCoherent
<1> QED
  BY <1>3, <1>4, <1>5, <1>6 DEF Coherent

LEMMA CoherentCreateProcess ==
  ASSUME Inv, NEW p \in Proc, CreateProcess(p)
  PROVE  Coherent' /\ TlbCoherent'
BY DEF CreateProcess, Inv, Coherent, MappedIsRecorded, RecordedIsMapped,
   OwnersMap, FramesAccounted, SlotsAccounted, TlbCoherent, Resident, FrameOf,
   Occupied, frameVars

\* The table that is destroyed maps nothing any more.
LEMMA CoherentDestroyProcess ==
  ASSUME Inv, NEW p \in Proc, DestroyProcess(p)
  PROVE  Coherent' /\ TlbCoherent'
<1>1. /\ p \notin registered /\ live' = live \ {p}
      /\ UNCHANGED <<registered, frameVars, cow, loaded, tlb, swap>>
  BY DEF DestroyProcess
<1>2. \A q \in Proc, u \in Page : FrameOf(q, u)' = FrameOf(q, u)
  <2>1. \A u \in Page : FrameOf(p, u) = NoFrame
    BY <1>1, UnregisteredFacts
  <2> QED
    BY <2>1 DEF DestroyProcess, FrameOf, Inv, TypeOK
<1>3. MappedIsRecorded' /\ TlbCoherent'
  BY <1>1, <1>2 DEF Inv, Coherent, MappedIsRecorded, TlbCoherent, Resident
<1>4. RecordedIsMapped'
  BY <1>1, <1>2, RecordedFacts DEF RecordedIsMapped, frameVars
<1>5. OwnersMap' /\ FramesAccounted' /\ SlotsAccounted'
  BY <1>1 DEF Inv, Coherent, OwnersMap, FramesAccounted, SlotsAccounted, Occupied,
     frameVars
<1> QED
  BY <1>3, <1>4, <1>5 DEF Coherent

\* The child takes over every resident page of its parent, no more and no less.
LEMMA CoherentFork ==
  ASSUME Inv, NEW p \in Proc, NEW c \in Proc, Fork(p, c)
  PROVE  Coherent' /\ TlbCoherent'
<1>1. /\ p \in live /\ c \notin live /\ c \notin registered /\ c # p
      /\ live' = live \union {c} /\ registered' = registered \union {p, c}
      /\ UNCHANGED <<frameVars, loaded, swap>>
  BY DEF Fork, Inv, Coherent, SlotsAccounted
<1>2. \A q \in Proc, u \in Page :
        FrameOf(q, u)' = IF q = c THEN FrameOf(p, u) ELSE FrameOf(q, u)
  BY DEF Fork, FrameOf, Inv, TypeOK
<1>3. \A f \in Frame :
        cow'[f] = IF Occupied(f) /\ <<p, page[f]>> \in cow[f]
                    THEN cow[f] \union {<<c, page[f]>>} ELSE cow[f]
  BY DEF Fork, Held
<1>4. \A f \in Frame : page'[f] = page[f] /\ owner'[f] = owner[f]
  BY <1>1 DEF frameVars
<1>5. MappedIsRecorded'
  <2> SUFFICES ASSUME NEW q \in Proc, NEW u \in Page, FrameOf(q, u)' # NoFrame
               PROVE  <<q, u>> \in cow'[FrameOf(q, u)']
    BY DEF MappedIsRecorded, Resident
  <2>1. CASE q = c
    <3>1. FrameOf(q, u)' = FrameOf(p, u)
      BY <1>2, <2>1
    <3>2. /\ FrameOf(p, u) \in Frame /\ Occupied(FrameOf(p, u))
          /\ <<p, u>> \in cow[FrameOf(p, u)] /\ page[FrameOf(p, u)] = u
      BY <3>1, ResidentFacts
    <3> QED
      BY <1>3, <2>1, <3>1, <3>2
  <2>2. CASE q # c
    <3>1. FrameOf(q, u)' = FrameOf(q, u)
      BY <1>2, <2>2
    <3>2. FrameOf(q, u) \in Frame /\ <<q, u>> \in cow[FrameOf(q, u)]
      BY <3>1, ResidentFacts
    <3> QED
      BY <1>3, <3>1, <3>2
  <2> QED
    BY <2>1, <2>2
<1>6. RecordedIsMapped'
  <2> SUFFICES ASSUME NEW f \in Frame, NEW m \in cow'[f]
               PROVE  /\ FrameOf(m[1], m[2])' = f
                      /\ m[2] = page'[f]
                      /\ m[1] \in registered'
    BY DEF RecordedIsMapped
  <2>1. CASE m \in cow[f]
    <3>1. /\ m[1] \in Proc /\ m[2] \in Page
          /\ FrameOf(m[1], m[2]) = f
          /\ m[2] = page[f] /\ m[1] \in registered
      BY <2>1, RecordedFacts
    <3> QED
      BY <1>1, <1>2, <1>4, <3>1
  <2>2. CASE m \notin cow[f]
    <3>1. m = <<c, page[f]>> /\ <<p, page[f]>> \in cow[f]
      BY <1>3, <2>2
    <3>2. \A n \in cow[f] : n[2] \in Page /\ FrameOf(n[1], n[2]) = f
      BY RecordedFacts
    <3>3. page[f] \in Page /\ FrameOf(p, page[f]) = f
      BY <3>1, <3>2
    <3> QED
      BY <1>1, <1>2, <1>4, <3>1, <3>3
  <2> QED
    BY <2>1, <2>2
<1>7. OwnersMap'
  BY <1>1, <1>3 DEF Inv, Coherent, OwnersMap, Occupied, frameVars
<1>8. FramesAccounted' /\ SlotsAccounted'
  BY <1>1 DEF Inv, Coherent, FramesAccounted, SlotsAccounted, Occupied, frameVars
<1>9. TlbCoherent'
  <2>1. \A u \in Page : tlb[c][u] = NoFrame
    BY <1>1, UnregisteredFacts
  <2>2. \A q \in Proc, u \in Page :
          tlb'[q][u] # NoFrame => q # c /\ tlb'[q][u] = tlb[q][u]
    BY <2>1 DEF Fork, TlbWithoutProcess, NoTranslation, Inv, TypeOK
  <2> QED
    BY <1>2, <2>2 DEF Inv, TlbCoherent
<1> QED
  BY <1>5, <1>6, <1>7, <1>8, <1>9 DEF Coherent

\* A release frees the frames nobody else maps and finds an heir for the rest.
LEMMA CoherentRelease ==
  ASSUME Inv, NEW p \in Proc, Release(p)
  PROVE  Coherent' /\ TlbCoherent'
<1> DEFINE freed == {f \in Held(p) : cow[f] = {<<p, page[f]>>}}
           inherited == {f \in Held(p) \ freed : owner[f] = p}
<1>1. PICK heir \in [inherited -> registered] :
        /\ \A f \in inherited : heir[f] \in FrameUsers(f, page[f], p)
        /\ owner' = [f \in Frame |-> IF f \in freed THEN NoProc
                                     ELSE IF f \in inherited THEN heir[f]
                                     ELSE owner[f]]
  BY DEF Release
<1>2. \A f \in Frame :
        /\ page'[f] = IF f \in freed THEN NoPage ELSE page[f]
        /\ cow'[f] = IF f \in Held(p) THEN cow[f] \ {<<p, page[f]>>} ELSE cow[f]
        /\ dirty'[f] = (dirty[f] /\ f \notin freed)
        /\ data'[f] = IF f \in freed THEN Zero ELSE data[f]
  BY DEF Release
<1>3. /\ live' = live /\ registered' = registered \ {p}
      /\ freeCount' = freeCount + Cardinality(freed)
      /\ loaded' = loaded \ freed
      /\ tlb' = TlbWithoutProcess(p) /\ swap' = SwapWithoutProcess(p)
  BY DEF Release
<1>4. freed \subseteq Held(p) /\ Held(p) \subseteq Frame
      /\ \A f \in Held(p) : Occupied(f)
  BY DEF Held
<1>5. \A q \in Proc, u \in Page :
        FrameOf(q, u)' = IF q = p THEN NoFrame ELSE FrameOf(q, u)
  <2> SUFFICES ASSUME NEW q \in Proc, NEW u \in Page
               PROVE  FrameOf(q, u)' = IF q = p THEN NoFrame ELSE FrameOf(q, u)
    OBVIOUS
  <2>1. pt' = [pt EXCEPT ![p] = [a \in Path |->
                 IF \E f \in Held(p) : PathOf[page[f]] = a /\ pt[p][a] = f
                   THEN NoFrame ELSE pt[p][a]]]
    BY DEF Release
  <2>2. CASE q # p
    BY <2>1, <2>2 DEF FrameOf, Inv, TypeOK
  <2>3. CASE q = p /\ FrameOf(p, u) # NoFrame
    <3>1. /\ FrameOf(p, u) \in Held(p)
          /\ PathOf[page[FrameOf(p, u)]] = PathOf[u]
      BY <2>3, ResidentFacts DEF Held
    <3> QED
      BY <2>1, <2>3, <3>1 DEF FrameOf, Inv, TypeOK
  <2>4. CASE q = p /\ FrameOf(p, u) = NoFrame
    BY <2>1, <2>4 DEF FrameOf, Inv, TypeOK
  <2> QED
    BY <2>2, <2>3, <2>4
<1>6. \A f \in Frame : owner'[f] # NoProc <=> owner[f] # NoProc /\ f \notin freed
  <2>1. \A f \in inherited : heir[f] \in Proc /\ owner[f] # NoProc
    BY DEF Inv, TypeOK
  <2> QED
    BY <1>1, <2>1
<1>7. MappedIsRecorded'
  <2> SUFFICES ASSUME NEW q \in Proc, NEW u \in Page, FrameOf(q, u)' # NoFrame
               PROVE  <<q, u>> \in cow'[FrameOf(q, u)']
    BY DEF MappedIsRecorded, Resident
  <2>1. q # p /\ FrameOf(q, u)' = FrameOf(q, u)
    BY <1>5
  <2>2. FrameOf(q, u) \in Frame /\ <<q, u>> \in cow[FrameOf(q, u)]
    BY <2>1, ResidentFacts
  <2> QED
    BY <1>2, <2>1, <2>2
<1>8. \A f \in Frame : \A m \in cow'[f] : m \in cow[f] /\ m[1] # p
  <2> SUFFICES ASSUME NEW f \in Frame, NEW m \in cow'[f]
               PROVE  m \in cow[f] /\ m[1] # p
    OBVIOUS
  <2>1. m \in cow[f]
    BY <1>2
  <2>2. m = <<m[1], m[2]>> /\ m[2] = page[f] /\ Occupied(f)
    BY <2>1, RecordedFacts
  <2>3. ASSUME m[1] = p PROVE FALSE
    <3>1. m = <<p, page[f]>>
      BY <2>2, <2>3
    <3>2. f \in Held(p)
      BY <2>1, <2>2, <3>1 DEF Held
    <3> QED
      BY <1>2, <3>1, <3>2
  <2> QED
    BY <2>1, <2>3
<1>9. RecordedIsMapped'
  <2> SUFFICES ASSUME NEW f \in Frame, NEW m \in cow'[f]
               PROVE  /\ FrameOf(m[1], m[2])' = f
                      /\ m[2] = page'[f]
                      /\ m[1] \in registered'
    BY DEF RecordedIsMapped
  <2>1. m \in cow[f] /\ m[1] # p
    BY <1>8
  <2>2. /\ m[1] \in Proc /\ m[2] \in Page
        /\ FrameOf(m[1], m[2]) = f
        /\ m[2] = page[f] /\ m[1] \in registered
    BY <2>1, RecordedFacts
  <2>3. f \notin freed
    BY <2>1
  <2> QED
    BY <1>2, <1>3, <1>5, <2>1, <2>2, <2>3
<1>10. OwnersMap'
  <2> SUFFICES ASSUME NEW f \in Frame
               PROVE  IF owner'[f] # NoProc
                        THEN <<owner'[f], page'[f]>> \in cow'[f]
                        ELSE cow'[f] = {} /\ ~dirty'[f] /\ data'[f] = Zero
    BY DEF OwnersMap, Occupied
  <2>1. CASE f \in freed
    <3>1. cow'[f] = {}
      BY <1>2, <1>4, <2>1
    <3> QED
      BY <1>2, <1>6, <2>1, <3>1
  <2>2. CASE f \in inherited
    <3>1. owner'[f] = heir[f] /\ heir[f] # p /\ <<heir[f], page[f]>> \in cow[f]
      BY <1>1, <2>2 DEF FrameUsers
    <3>2. heir[f] \in Proc
      BY <2>2 DEF Inv, TypeOK
    <3> QED
      BY <1>2, <2>2, <3>1, <3>2
  <2>3. CASE f \notin freed /\ f \notin inherited
    <3>1. owner'[f] = owner[f] /\ page'[f] = page[f]
          /\ dirty'[f] = dirty[f] /\ data'[f] = data[f]
      BY <1>1, <1>2, <2>3 DEF Inv, TypeOK
    <3>2. CASE owner[f] # NoProc
      <4>1. <<owner[f], page[f]>> \in cow[f]
        BY <3>2 DEF Inv, Coherent, OwnersMap, Occupied
      <4>2. f \in Held(p) => owner[f] # p
        BY <2>3
      <4> QED
        BY <1>2, <3>1, <3>2, <4>1, <4>2
    <3>3. CASE owner[f] = NoProc
      <4>1. cow[f] = {} /\ ~dirty[f] /\ data[f] = Zero
        BY <3>3 DEF Inv, Coherent, OwnersMap, Occupied
      <4> QED
        BY <1>2, <3>1, <3>3, <4>1
    <3> QED
      BY <3>2, <3>3
  <2> QED
    BY <2>1, <2>2, <2>3
<1>11. FramesAccounted'
  <2> DEFINE free == {f \in Frame : ~(owner[f] # NoProc)}
  <2>1. {f \in Frame : ~(owner'[f] # NoProc)} = free \union freed
    BY <1>4, <1>6
  <2>2. free \intersect freed = {}
    BY <1>4 DEF Occupied
  <2>3. IsFiniteSet(free) /\ IsFiniteSet(freed)
    BY <1>4, FrameFacts, FS_Subset
  <2>4. Cardinality(free \union freed) = Cardinality(free) + Cardinality(freed)
    <3>1. Cardinality(free \union freed)
            = Cardinality(free) + Cardinality(freed)
              - Cardinality(free \intersect freed)
      BY <2>3, FS_Union
    <3>2. Cardinality(free \intersect freed) = 0
      BY <2>2, FS_EmptySet
    <3>3. Cardinality(free) \in Nat /\ Cardinality(freed) \in Nat
      BY <2>3, FS_CardinalityType
    <3> QED
      BY <3>1, <3>2, <3>3
  <2>5. freeCount = Cardinality(free)
    BY DEF Inv, Coherent, FramesAccounted, Occupied
  <2>6. freeCount' = Cardinality({f \in Frame : ~(owner'[f] # NoProc)})
    BY <1>3, <2>1, <2>4, <2>5
  <2>7. loaded' = {f \in Frame : owner'[f] # NoProc}
    BY <1>3, <1>6 DEF Inv, Coherent, FramesAccounted, Occupied
  <2> QED
    BY <2>6, <2>7 DEF FramesAccounted, Occupied
<1>12. SlotsAccounted'
  <2>1. \A q \in Proc, u \in Page :
          swap'[q][u] # NoData => q # p /\ swap[q][u] # NoData
    BY <1>3 DEF SwapWithoutProcess, NoSlot, Inv, TypeOK
  <2> QED
    BY <1>3, <2>1 DEF Inv, Coherent, SlotsAccounted
<1>13. TlbCoherent'
  <2>1. \A q \in Proc, u \in Page :
          tlb'[q][u] # NoFrame => q # p /\ tlb'[q][u] = tlb[q][u]
    BY <1>3 DEF TlbWithoutProcess, NoTranslation, Inv, TypeOK
  <2> QED
    BY <1>5, <2>1 DEF Inv, TlbCoherent
<1> QED
  BY <1>7, <1>9, <1>10, <1>11, <1>12, <1>13 DEF Coherent

-----------------------------------------------------------------------------
(* The theorems. *)

LEMMA CoherentNext == Canonical => (Inv /\ [Next]_vars => Inv')
<1> SUFFICES ASSUME Canonical, Inv, [Next]_vars PROVE Inv'
  OBVIOUS
<1>1. TypeOK'
  BY TypeNext DEF Inv
<1>2. ASSUME UNCHANGED vars PROVE Coherent' /\ TlbCoherent'
  BY <1>2 DEF vars, frameVars, Inv, Coherent, MappedIsRecorded, RecordedIsMapped,
     OwnersMap, FramesAccounted, SlotsAccounted, TlbCoherent, Resident, FrameOf,
     Occupied
<1>3. Coherent' /\ TlbCoherent'
  BY <1>2, StepCases, CoherentAccessResident, CoherentCowCopy, CoherentCowTakeOver,
     CoherentCowFails, CoherentLoadFreeFrame, CoherentRefused,
     CoherentReplacePage, CoherentReplaceRestoreFails, CoherentCreateProcess,
     CoherentDestroyProcess, CoherentFork, CoherentRelease
<1> QED
  BY <1>1, <1>3 DEF Inv

LEMMA CoherentAlways == Canonical => (Spec => []Inv)
<1> SUFFICES ASSUME Canonical PROVE Spec => []Inv
  OBVIOUS
<1>1. Init => Inv
  BY CoherentInit
<1>2. Inv /\ [Next]_vars => Inv'
  BY CoherentNext
<1> QED
  BY <1>1, <1>2, PTL DEF Spec

\* Page tables, COW lists, frame headers, policy and registry agree after every
\* call, failed ones included.
THEOREM CoherentCorrect == Canonical => (Spec => []Coherent)
<1> SUFFICES ASSUME Canonical PROVE Spec => []Coherent
  OBVIOUS
<1>1. Inv => Coherent
  BY DEF Inv
<1> QED
  BY <1>1, CoherentAlways, PTL

\* No call leaves a translation in the TLB that the page table does not have.
THEOREM TlbCoherentCorrect == Canonical => (Spec => []TlbCoherent)
<1> SUFFICES ASSUME Canonical PROVE Spec => []TlbCoherent
  OBVIOUS
<1>1. Inv => TlbCoherent
  BY DEF Inv
<1> QED
  BY <1>1, CoherentAlways, PTL

\* virtual_memory_validate never finds anything to complain about.
THEOREM ValidateCorrect == Canonical => (Spec => []Validate)
<1> SUFFICES ASSUME Canonical PROVE Spec => []Validate
  OBVIOUS
<1>1. Inv => Validate
  <2> SUFFICES ASSUME Inv PROVE Validate
    OBVIOUS
  <2>1. ASSUME NEW f \in Frame, Occupied(f)
        PROVE  cow[f] # {} /\ pt[owner[f]][PathOf[page[f]]] = f
    <3>1. <<owner[f], page[f]>> \in cow[f]
      BY <2>1 DEF Inv, Coherent, OwnersMap
    <3>2. \A m \in cow[f] : FrameOf(m[1], m[2]) = f
      BY RecordedFacts
    <3> QED
      BY <3>1, <3>2 DEF FrameOf
  <2> QED
    BY <2>1 DEF Validate, Inv, Coherent, OwnersMap, FramesAccounted
<1> QED
  BY <1>1, CoherentAlways, PTL

\* When the last process is released, every frame, translation and slot is free.
THEOREM NothingLeaksCorrect == Canonical => (Spec => []NothingLeaks)
<1> SUFFICES ASSUME Canonical PROVE Spec => []NothingLeaks
  OBVIOUS
<1>1. Inv => NothingLeaks
  <2> SUFFICES ASSUME Inv, registered = {}
               PROVE  /\ freeCount = FrameCount
                      /\ \A f \in Frame :
                           ~Occupied(f) /\ cow[f] = {} /\ data[f] = Zero
                      /\ \A p \in Proc, v \in Page :
                           /\ tlb[p][v] = NoFrame /\ swap[p][v] = NoData
                           /\ ~Resident(p, v)
    BY DEF NothingLeaks
  <2>1. \A f \in Frame : cow[f] = {}
    BY RecordedFacts
  <2>2. \A f \in Frame : ~Occupied(f) /\ data[f] = Zero
    BY <2>1 DEF Inv, Coherent, OwnersMap
  <2>3. {f \in Frame : ~Occupied(f)} = Frame
    BY <2>2
  <2>4. freeCount = FrameCount
    BY <2>3, FrameFacts DEF Inv, Coherent, FramesAccounted
  <2> QED
    BY <2>1, <2>2, <2>4, UnregisteredFacts DEF Resident
<1> QED
  BY <1>1, CoherentAlways, PTL

USE SizesAssumption, PathAssumption, SentinelAssumption

\* Page u of process q stays where it is and as it is.
Kept(q, u) ==
  /\ FrameOf(q, u)' = FrameOf(q, u)
  /\ FrameOf(q, u) # NoFrame =>
       /\ data'[FrameOf(q, u)] = data[FrameOf(q, u)]
       /\ dirty'[FrameOf(q, u)] = dirty[FrameOf(q, u)]
  /\ swap'[q][u] = swap[q][u]

LEMMA KeptContent ==
  ASSUME NEW q \in Proc, NEW u \in Page, Kept(q, u)
  PROVE  Content(q, u)' = Content(q, u)
<1>1. CASE FrameOf(q, u) = NoFrame
  BY <1>1 DEF Kept, Content, Resident, Restored
<1>2. CASE FrameOf(q, u) # NoFrame
  BY <1>2 DEF Kept, Content, Resident
<1> QED
  BY <1>1, <1>2

\* The frames after a store through the page table.
LEMMA StoredAt ==
  ASSUME NEW c \in Contents, NEW table \in Tables, NEW p \in Proc, NEW v \in Page,
         NEW x \in Value \union {NoData}, NEW f \in Frame, table[p][PathOf[v]] = f
  PROVE  /\ \A h \in Frame : h # f => Stored(c, table, p, v, x)[h] = c[h]
         /\ x = NoData => Stored(c, table, p, v, x)[f] = c[f]
BY FrameFacts DEF Stored, Contents

\* Two pages of one frame are two mappings in its list.
LEMMA AloneInFrame ==
  ASSUME Inv, NEW p \in Proc, NEW v \in Page, FrameOf(p, v) # NoFrame,
         ~Shared(FrameOf(p, v)), NEW q \in Proc, NEW u \in Page,
         FrameOf(q, u) = FrameOf(p, v)
  PROVE  q = p /\ u = v
<1>1. <<p, v>> \in cow[FrameOf(p, v)] /\ <<q, u>> \in cow[FrameOf(p, v)]
  BY ResidentFacts
<1> QED
  BY <1>1 DEF Shared

-----------------------------------------------------------------------------
(* The calls. *)

LEMMA EffectAccessResident ==
  ASSUME Inv, NEW p \in Proc, NEW v \in Page, NEW w \in BOOLEAN,
         NEW x \in Value \union {NoData}, x # NoData => w,
         AccessResident(p, v, w, x)
  PROVE  /\ \A q \in Proc, u \in Page : <<q, u>> # <<p, v>> => Kept(q, u)
         /\ x = NoData => Content(p, v)' = Content(p, v)
         /\ FrameOf(p, v)' = FrameOf(p, v) /\ FrameOf(p, v) # NoFrame
         /\ dirty'[FrameOf(p, v)] \/ Kept(p, v)
<1> DEFINE f == FrameOf(p, v)
<1>1. Translation(p, v) = f /\ f # NoFrame /\ f \in Frame
  BY TranslationIsFrame, ResidentFacts DEF AccessResident
<1>2. /\ w => ~Shared(f)
      /\ dirty' = MarkAccess(dirty, f, w)
      /\ data' = Stored(data, pt, p, v, x)
      /\ pt' = pt /\ swap' = swap
  BY <1>1 DEF AccessResident
<1>3. \A q \in Proc, u \in Page : FrameOf(q, u)' = FrameOf(q, u)
  BY <1>2 DEF FrameOf
<1>4. /\ \A h \in Frame : h # f => data'[h] = data[h] /\ dirty'[h] = dirty[h]
      /\ x = NoData => data'[f] = data[f]
      /\ w => dirty'[f]
      /\ ~w => dirty'[f] = dirty[f]
  <2>1. data \in Contents /\ pt \in Tables
    BY DEF Inv, TypeOK, Contents, Tables
  <2>2. /\ \A h \in Frame : h # f => data'[h] = data[h]
        /\ x = NoData => data'[f] = data[f]
    BY <1>1, <1>2, <2>1, StoredAt DEF FrameOf
  <2>3. /\ \A h \in Frame : h # f => dirty'[h] = dirty[h]
        /\ w => dirty'[f]
        /\ ~w => dirty'[f] = dirty[f]
    BY <1>1, <1>2 DEF MarkAccess, Inv, TypeOK
  <2> QED
    BY <2>2, <2>3
<1>5. ASSUME NEW q \in Proc, NEW u \in Page, <<q, u>> # <<p, v>>
      PROVE  Kept(q, u)
  <2>1. FrameOf(q, u) # NoFrame => FrameOf(q, u) \in Frame
    BY ResidentFacts
  <2>2. CASE FrameOf(q, u) # f
    BY <1>2, <1>3, <1>4, <2>1, <2>2 DEF Kept
  <2>3. CASE FrameOf(q, u) = f
    <3>1. ~w
      BY <1>1, <1>2, <1>5, <2>3, AloneInFrame
    <3> QED
      BY <1>2, <1>3, <1>4, <2>3, <3>1 DEF Kept
  <2> QED
    BY <2>2, <2>3
<1>6. x = NoData => Content(p, v)' = Content(p, v)
  BY <1>1, <1>3, <1>4 DEF Content, Resident
<1>7. dirty'[f] \/ Kept(p, v)
  BY <1>2, <1>3, <1>4 DEF Kept
<1> QED
  BY <1>1, <1>3, <1>5, <1>6, <1>7

LEMMA EffectCowCopy ==
  ASSUME Inv, Canonical, NEW p \in Proc, NEW v \in Page,
         NEW x \in Value \union {NoData}, CowCopy(p, v, x)
  PROVE  /\ \A q \in Proc, u \in Page : <<q, u>> # <<p, v>> => Kept(q, u)
         /\ x = NoData => Content(p, v)' = Content(p, v)
         /\ cow'[FrameOf(p, v)'] = {<<p, v>>}
         /\ dirty'[FrameOf(p, v)']
<1> DEFINE f == FrameOf(p, v)
<1>1. Translation(p, v) = f /\ f # NoFrame /\ f \in Frame
  BY TranslationIsFrame, ResidentFacts DEF CowCopy
<1>2. PICK g \in Frame :
        /\ FirstFree(g)
        /\ pt' = [pt EXCEPT ![p][PathOf[v]] = g]
        /\ cow' = [cow EXCEPT ![f] = @ \ {<<p, v>>}, ![g] = @ \union {<<p, v>>}]
        /\ dirty' = MarkAccess(dirty, g, TRUE)
        /\ data' = Stored([data EXCEPT ![g] = data[f]], pt', p, v, x)
  BY <1>1 DEF CowCopy
<1>3. /\ cow[g] = {} /\ g # f
      /\ \A q \in Proc, u \in Page : FrameOf(q, u) # g
  BY <1>2, FreeFacts DEF FirstFree
<1>4. \A q \in Proc, u \in Page :
        FrameOf(q, u)' = IF q = p /\ u = v THEN g ELSE FrameOf(q, u)
  BY <1>2 DEF FrameOf, Canonical, Inv, TypeOK
<1>5. /\ \A h \in Frame : h # g => data'[h] = data[h]
      /\ x = NoData => data'[g] = data[f]
  <2> DEFINE copied == [data EXCEPT ![g] = data[f]]
  <2>1. copied \in Contents /\ pt' \in Tables
    BY <1>1, <1>2 DEF Inv, TypeOK, Contents, Tables
  <2>2. pt'[p][PathOf[v]] = g
    BY <1>4 DEF FrameOf
  <2>3. copied[g] = data[f] /\ \A h \in Frame : h # g => copied[h] = data[h]
    BY DEF Inv, TypeOK
  <2>4. data' = Stored(copied, pt', p, v, x)
    BY <1>2
  <2> HIDE DEF copied
  <2> QED
    BY <2>1, <2>2, <2>3, <2>4, StoredAt
<1>6. dirty'[g] /\ \A h \in Frame : h # g => dirty'[h] = dirty[h]
  BY <1>2 DEF MarkAccess, Inv, TypeOK
<1>7. swap' = swap
  BY DEF CowCopy
<1>8. ASSUME NEW q \in Proc, NEW u \in Page, <<q, u>> # <<p, v>>
      PROVE  Kept(q, u)
  <2>1. FrameOf(q, u)' = FrameOf(q, u)
    BY <1>4, <1>8
  <2>2. FrameOf(q, u) # NoFrame => FrameOf(q, u) \in Frame /\ FrameOf(q, u) # g
    BY <1>3, ResidentFacts
  <2> QED
    BY <1>5, <1>6, <1>7, <2>1, <2>2 DEF Kept
<1>9. x = NoData => Content(p, v)' = Content(p, v)
  <2>1. FrameOf(p, v)' = g /\ g # NoFrame
    BY <1>4, FrameFacts
  <2> QED
    BY <1>1, <1>5, <2>1 DEF Content, Resident
<1>10. FrameOf(p, v)' = g /\ cow'[g] = {<<p, v>>}
  BY <1>1, <1>2, <1>3, <1>4 DEF Inv, TypeOK
<1> QED
  BY <1>6, <1>8, <1>9, <1>10

LEMMA EffectCowTakeOver ==
  ASSUME Inv, Canonical, NEW p \in Proc, NEW v \in Page,
         NEW x \in Value \union {NoData}, CowTakeOver(p, v, x)
  PROVE  LET R == Readers(FrameOf(p, v), p, v)
         IN  /\ \A q \in Proc, u \in Page :
                  <<q, u>> # <<p, v>> /\ <<q, u>> \notin R => Kept(q, u)
             /\ \A q \in Proc, u \in Page : <<q, u>> \in R =>
                  FrameOf(q, u)' = NoFrame /\ Content(q, u)' = Content(q, u)
             /\ x = NoData => Content(p, v)' = Content(p, v)
             /\ cow'[FrameOf(p, v)'] = {<<p, v>>}
             /\ dirty'[FrameOf(p, v)']
<1> DEFINE f == FrameOf(p, v)
           R == Readers(f, p, v)
<1>1. Translation(p, v) = f /\ f # NoFrame /\ f \in Frame /\ <<p, v>> \in cow[f]
  BY TranslationIsFrame, ResidentFacts DEF CowTakeOver
<1>2. /\ swap' = Saved(R, data[f])
      /\ pt' = [r \in Proc |-> [a \in Path |->
                  IF \E m \in R : m[1] = r /\ PathOf[m[2]] = a
                    THEN NoFrame ELSE pt[r][a]]]
      /\ cow' = [cow EXCEPT ![f] = @ \ R]
      /\ dirty' = MarkAccess(dirty, f, TRUE)
      /\ data' = Stored(data, pt', p, v, x)
  BY <1>1 DEF CowTakeOver
<1>3. \A m \in R : /\ m[1] \in Proc /\ m[2] \in Page /\ m = <<m[1], m[2]>>
                   /\ FrameOf(m[1], m[2]) = f
  BY <1>1, RecordedFacts DEF Readers
<1>4. ASSUME NEW q \in Proc, NEW u \in Page
      PROVE  FrameOf(q, u)' = IF <<q, u>> \in R THEN NoFrame ELSE FrameOf(q, u)
  <2>1. (\E m \in R : m[1] = q /\ PathOf[m[2]] = PathOf[u]) <=> <<q, u>> \in R
    BY <1>3 DEF Canonical
  <2> QED
    BY <1>2, <2>1 DEF FrameOf
<1>5. <<p, v>> \notin R /\ FrameOf(p, v)' = f
  BY <1>4 DEF Readers
<1>6. /\ \A h \in Frame : h # f => data'[h] = data[h]
      /\ x = NoData => data'[f] = data[f]
  <2>1. data \in Contents /\ pt' \in Tables
    BY <1>2 DEF Inv, TypeOK, Contents, Tables
  <2>2. pt'[p][PathOf[v]] = f /\ data' = Stored(data, pt', p, v, x)
    BY <1>2, <1>5 DEF FrameOf
  <2> QED
    BY <1>1, <2>1, <2>2, StoredAt
<1>7. dirty'[f] /\ \A h \in Frame : h # f => dirty'[h] = dirty[h]
  BY <1>1, <1>2 DEF MarkAccess, Inv, TypeOK
<1>8. \A q \in Proc, u \in Page :
        swap'[q][u] = IF <<q, u>> \in R THEN data[f] ELSE swap[q][u]
  BY <1>2 DEF Saved
<1>9. ASSUME NEW q \in Proc, NEW u \in Page, <<q, u>> # <<p, v>>, <<q, u>> \notin R
      PROVE  Kept(q, u)
  <2>1. FrameOf(q, u) # NoFrame =>
          FrameOf(q, u) \in Frame /\ <<q, u>> \in cow[FrameOf(q, u)]
    BY ResidentFacts
  <2>2. FrameOf(q, u) # f
    BY <1>1, <1>9, <2>1 DEF Readers
  <2>3. FrameOf(q, u)' = FrameOf(q, u) /\ swap'[q][u] = swap[q][u]
    BY <1>4, <1>8, <1>9
  <2> QED
    BY <1>6, <1>7, <2>1, <2>2, <2>3 DEF Kept
<1>10. ASSUME NEW q \in Proc, NEW u \in Page, <<q, u>> \in R
       PROVE  FrameOf(q, u)' = NoFrame /\ Content(q, u)' = Content(q, u)
  <2>1. FrameOf(q, u)' = NoFrame /\ FrameOf(q, u) = f /\ swap'[q][u] = data[f]
    BY <1>3, <1>4, <1>8, <1>10
  <2>2. data[f] # NoData
    BY <1>1 DEF Inv, TypeOK
  <2> QED
    BY <1>1, <2>1, <2>2 DEF Content, Resident, Restored
<1>11. x = NoData => Content(p, v)' = Content(p, v)
  BY <1>1, <1>5, <1>6 DEF Content, Resident
<1>12. cow'[f] = {<<p, v>>}
  BY <1>1, <1>2 DEF Readers, Inv, TypeOK
<1> QED
  BY <1>5, <1>7, <1>9, <1>10, <1>11, <1>12

\* A save given up half way writes the content of the frame into slots of pages
\* that stay in it.
LEMMA EffectCowFails ==
  ASSUME Inv, NEW p \in Proc, NEW v \in Page, CowFails(p, v)
  PROVE  /\ UNCHANGED <<pt, data, dirty>>
         /\ \A q \in Proc, u \in Page :
              \/ swap'[q][u] = swap[q][u]
              \/ /\ FrameOf(q, u) # NoFrame
                 /\ swap'[q][u] = data[FrameOf(q, u)]
<1> DEFINE f == FrameOf(p, v)
           R == Readers(f, p, v)
<1>1. Translation(p, v) = f /\ f # NoFrame /\ f \in Frame
  BY TranslationIsFrame, ResidentFacts DEF CowFails
<1>2. \A m \in R : FrameOf(m[1], m[2]) = f
  BY <1>1, RecordedFacts DEF Readers
<1>3. UNCHANGED <<pt, data, dirty>>
  BY DEF CowFails, frameVars
<1>4. swap' = swap \/ \E W \in SUBSET R : swap' = Saved(W, data[f])
  BY <1>1 DEF CowFails
<1>5. ASSUME NEW q \in Proc, NEW u \in Page
      PROVE  swap'[q][u] = swap[q][u] \/ (<<q, u>> \in R /\ swap'[q][u] = data[f])
  BY <1>4 DEF Saved
<1> QED
  BY <1>1, <1>2, <1>3, <1>5, ZenonT(30)

LEMMA EffectLoadFreeFrame ==
  ASSUME Inv, Canonical, NEW p \in Proc, NEW v \in Page, NEW w \in BOOLEAN,
         NEW x \in Value \union {NoData}, LoadFreeFrame(p, v, w, x)
  PROVE  /\ \A q \in Proc, u \in Page : <<q, u>> # <<p, v>> => Kept(q, u)
         /\ FrameOf(p, v) = NoFrame
         /\ swap'[p][v] = NoData
<1>1. FrameOf(p, v) = NoFrame
  BY TranslationIsFrame DEF LoadFreeFrame
<1>2. PICK g \in Frame :
        /\ FirstFree(g)
        /\ dirty' = MarkAccess(dirty, g, w)
        /\ pt' = [pt EXCEPT ![p][PathOf[v]] = g]
        /\ data' = Stored([data EXCEPT ![g] = Restored(swap, p, v)],
                          pt', p, v, x)
  BY DEF LoadFreeFrame
<1>3. \A q \in Proc, u \in Page : FrameOf(q, u) # g
  BY <1>2, FreeFacts DEF FirstFree
<1>4. \A q \in Proc, u \in Page :
        FrameOf(q, u)' = IF q = p /\ u = v THEN g ELSE FrameOf(q, u)
  BY <1>2 DEF FrameOf, Canonical, Inv, TypeOK
<1>5. \A h \in Frame : h # g => data'[h] = data[h]
  <2> DEFINE restored == [data EXCEPT ![g] = Restored(swap, p, v)]
  <2>1. restored \in Contents /\ pt' \in Tables
    BY <1>2, RestoredType DEF Inv, TypeOK, Contents, Tables, Swaps
  <2>2. pt'[p][PathOf[v]] = g
    BY <1>4 DEF FrameOf
  <2>3. \A h \in Frame : h # g => restored[h] = data[h]
    BY DEF Inv, TypeOK
  <2>4. data' = Stored(restored, pt', p, v, x)
    BY <1>2
  <2> HIDE DEF restored
  <2> QED
    BY <2>1, <2>2, <2>3, <2>4, StoredAt
<1>6. \A h \in Frame : h # g => dirty'[h] = dirty[h]
  BY <1>2 DEF MarkAccess, Inv, TypeOK
<1>7. \A q \in Proc, u \in Page :
        swap'[q][u] = IF q = p /\ u = v THEN NoData ELSE swap[q][u]
  BY DEF LoadFreeFrame, Inv, TypeOK
<1>8. ASSUME NEW q \in Proc, NEW u \in Page, <<q, u>> # <<p, v>>
      PROVE  Kept(q, u)
  <2>1. FrameOf(q, u)' = FrameOf(q, u) /\ swap'[q][u] = swap[q][u]
    BY <1>4, <1>7, <1>8
  <2>2. FrameOf(q, u) # NoFrame => FrameOf(q, u) \in Frame /\ FrameOf(q, u) # g
    BY <1>3, ResidentFacts
  <2> QED
    BY <1>5, <1>6, <2>1, <2>2 DEF Kept
<1> QED
  BY <1>1, <1>7, <1>8

\* Page v of p is mapped to f, and the page that was there no more.
Remapped(f, p, v) ==
  pt' = [pt EXCEPT ![p][PathOf[v]] = f,
                   ![owner[f]][PathOf[page[f]]] = NoFrame]

\* The pages of a replacement: the new one, the victim, and the others.
LEMMA EffectRemap ==
  ASSUME Inv, Canonical, NEW p \in Proc, NEW v \in Page, NEW f \in Frame,
         FrameOf(p, v) = NoFrame, Evictable(f), Remapped(f, p, v)
  PROVE  /\ owner[f] \in Proc /\ page[f] \in Page
         /\ FrameOf(owner[f], page[f]) = f
         /\ \A q \in Proc, u \in Page :
              /\ FrameOf(q, u)' = IF q = p /\ u = v THEN f
                                  ELSE IF q = owner[f] /\ u = page[f] THEN NoFrame
                                  ELSE FrameOf(q, u)
              /\ FrameOf(q, u) = f => q = owner[f] /\ u = page[f]
<1> DEFINE o == owner[f]
           old == page[f]
<1>1. <<o, old>> \in cow[f] /\ ~Shared(f)
  BY DEF Evictable
<1>2. \A m \in cow[f] : m[1] \in Proc /\ m[2] \in Page /\ FrameOf(m[1], m[2]) = f
  BY RecordedFacts
<1>3. o \in Proc /\ old \in Page /\ FrameOf(o, old) = f
  BY <1>1, <1>2
<1>4. f # NoFrame
  BY FrameFacts
<1>5. \A q \in Proc, u \in Page : FrameOf(q, u) = f => q = o /\ u = old
  BY <1>1, <1>3, <1>4, AloneInFrame
<1>6. ~(o = p /\ old = v)
  BY <1>3, <1>4
<1>7. pt' = [pt EXCEPT ![p][PathOf[v]] = f, ![o][PathOf[old]] = NoFrame]
  BY DEF Remapped
<1>8. PathOf[v] \in Path /\ PathOf[old] \in Path /\ \A u \in Page : PathOf[u] \in Path
  BY <1>3
<1>9. \A q \in Proc, a \in Path :
        pt'[q][a] = IF q = o /\ a = PathOf[old] THEN NoFrame
                    ELSE IF q = p /\ a = PathOf[v] THEN f
                    ELSE pt[q][a]
  BY <1>3, <1>7, <1>8 DEF Inv, TypeOK
<1>10. \A q \in Proc, u \in Page :
         FrameOf(q, u)' = IF q = p /\ u = v THEN f
                          ELSE IF q = o /\ u = old THEN NoFrame
                          ELSE FrameOf(q, u)
  BY <1>3, <1>6, <1>8, <1>9 DEF FrameOf, Canonical
<1> QED
  BY <1>3, <1>5, <1>10

LEMMA EffectReuse ==
  ASSUME Inv, Canonical, NEW p \in Proc, NEW v \in Page, NEW f \in Frame,
         FrameOf(p, v) = NoFrame, Evictable(f), Reuse(f, p, v)
  PROVE  /\ owner[f] \in Proc /\ page[f] \in Page
         /\ FrameOf(owner[f], page[f]) = f
         /\ \A q \in Proc, u \in Page :
              /\ FrameOf(q, u)' = IF q = p /\ u = v THEN f
                                  ELSE IF q = owner[f] /\ u = page[f] THEN NoFrame
                                  ELSE FrameOf(q, u)
              /\ FrameOf(q, u) = f => q = owner[f] /\ u = page[f]
<1>1. Remapped(f, p, v)
  BY DEF Reuse, Remapped
<1> QED
  BY <1>1, EffectRemap

\* What the save leaves in the slots.
LEMMA SavedVictim ==
  ASSUME Inv, NEW f \in Frame, owner[f] \in Proc, page[f] \in Page
  PROVE  /\ SwapAfterSave(f) \in Swaps
         /\ \A q \in Proc, u \in Page : <<q, u>> # <<owner[f], page[f]>> =>
              SwapAfterSave(f)[q][u] = swap[q][u]
         /\ MustSave(f) => SwapAfterSave(f)[owner[f]][page[f]] = data[f]
         /\ ~MustSave(f) => SwapAfterSave(f) = swap
<1>1. SwapAfterSave(f) \in Swaps
  BY SwapAfterSaveType DEF Inv
<1> QED
  BY <1>1 DEF SwapAfterSave, Inv, TypeOK

\* Both ways of ending a replacement, seen from the pages.
Replaced(f, p, v) ==
  /\ FrameOf(p, v) = NoFrame
  /\ FrameOf(p, v)' = f
  /\ \E o \in Proc, old \in Page :
       /\ FrameOf(o, old) = f
       /\ FrameOf(o, old)' = NoFrame
       /\ swap'[o][old] = IF MustSave(f) THEN data[f] ELSE swap[o][old]
       /\ \A q \in Proc, u \in Page :
            <<q, u>> # <<p, v>> /\ <<q, u>> # <<o, old>> => Kept(q, u)

LEMMA ReplacedWhen ==
  ASSUME Inv, Canonical, NEW p \in Proc, NEW v \in Page, NEW f \in Frame,
         FrameOf(p, v) = NoFrame, Evictable(f), Reuse(f, p, v),
         \A h \in Frame : h # f => data'[h] = data[h] /\ dirty'[h] = dirty[h],
         \A q \in Proc, u \in Page : <<q, u>> # <<p, v>> =>
           swap'[q][u] = SwapAfterSave(f)[q][u]
  PROVE  Replaced(f, p, v)
<1> DEFINE o == owner[f]
           old == page[f]
<1>1. /\ o \in Proc /\ old \in Page
      /\ FrameOf(o, old) = f /\ f # NoFrame
      /\ \A q \in Proc, u \in Page :
           /\ FrameOf(q, u)' = IF q = p /\ u = v THEN f
                               ELSE IF q = o /\ u = old THEN NoFrame
                               ELSE FrameOf(q, u)
           /\ FrameOf(q, u) = f => q = o /\ u = old
  BY EffectReuse, FrameFacts
<1>2. <<o, old>> # <<p, v>>
  BY <1>1
<1>3. swap'[o][old] = IF MustSave(f) THEN data[f] ELSE swap[o][old]
  BY <1>1, <1>2, SavedVictim
<1>4. ASSUME NEW q \in Proc, NEW u \in Page,
             <<q, u>> # <<p, v>>, <<q, u>> # <<o, old>>
      PROVE  Kept(q, u)
  <2>1. FrameOf(q, u)' = FrameOf(q, u) /\ FrameOf(q, u) # f
    BY <1>1, <1>4
  <2>2. swap'[q][u] = swap[q][u]
    BY <1>1, <1>4, SavedVictim
  <2>3. FrameOf(q, u) # NoFrame => FrameOf(q, u) \in Frame
    BY ResidentFacts
  <2> QED
    BY <2>1, <2>2, <2>3 DEF Kept
<1>5. \A q \in Proc, u \in Page :
        /\ q = p /\ u = v => FrameOf(q, u)' = f
        /\ q = o /\ u = old => FrameOf(q, u)' = NoFrame
  BY <1>1, <1>2
<1>6. PICK o1 \in Proc, old1 \in Page : o1 = o /\ old1 = old
  BY <1>1
<1> HIDE DEF o, old
<1>7. /\ FrameOf(o1, old1) = f /\ FrameOf(o1, old1)' = NoFrame
      /\ swap'[o1][old1] = IF MustSave(f) THEN data[f] ELSE swap[o1][old1]
      /\ \A q \in Proc, u \in Page :
           <<q, u>> # <<p, v>> /\ <<q, u>> # <<o1, old1>> => Kept(q, u)
  BY <1>1, <1>3, <1>4, <1>5, <1>6
<1>8. FrameOf(p, v)' = f
  BY <1>5
<1> QED
  BY <1>7, <1>8 DEF Replaced

LEMMA EffectReplacePage ==
  ASSUME Inv, Canonical, NEW p \in Proc, NEW v \in Page, NEW w \in BOOLEAN,
         NEW x \in Value \union {NoData}, ReplacePage(p, v, w, x)
  PROVE  /\ \E f \in Frame : Replaced(f, p, v)
         /\ swap'[p][v] = NoData
<1>1. FrameOf(p, v) = NoFrame
  BY TranslationIsFrame DEF ReplacePage
<1>2. PICK f \in Frame :
        /\ Evictable(f)
        /\ Reuse(f, p, v)
        /\ dirty' = MarkAccess([dirty EXCEPT ![f] = FALSE], f, w)
        /\ data' = Stored([data EXCEPT ![f] = Restored(SwapAfterSave(f), p, v)],
                          pt', p, v, x)
        /\ swap' = [SwapAfterSave(f) EXCEPT ![p][v] = NoData]
  BY DEF ReplacePage
<1>3. SwapAfterSave(f) \in Swaps
  BY SwapAfterSaveType DEF Inv
<1>4. \A q \in Proc, u \in Page :
        swap'[q][u] = IF q = p /\ u = v THEN NoData ELSE SwapAfterSave(f)[q][u]
  BY <1>2, <1>3 DEF Swaps
<1>5. \A h \in Frame : h # f => dirty'[h] = dirty[h]
  BY <1>2 DEF MarkAccess, Inv, TypeOK
<1>6. \A h \in Frame : h # f => data'[h] = data[h]
  <2> DEFINE restored == [data EXCEPT ![f] = Restored(SwapAfterSave(f), p, v)]
  <2>1. restored \in Contents /\ pt' \in Tables
    BY <1>3, TypeReplacePage, RestoredType DEF Inv, TypeOK, Contents, Tables
  <2>2. pt'[p][PathOf[v]] = f
    BY <1>1, <1>2, EffectReuse DEF FrameOf
  <2>3. \A h \in Frame : h # f => restored[h] = data[h]
    BY DEF Inv, TypeOK
  <2>4. data' = Stored(restored, pt', p, v, x)
    BY <1>2
  <2> HIDE DEF restored
  <2> QED
    BY <2>1, <2>2, <2>3, <2>4, StoredAt
<1>7. Replaced(f, p, v)
  <2>1. Evictable(f) /\ Reuse(f, p, v)
    BY <1>2
  <2>2. \A h \in Frame : h # f => data'[h] = data[h] /\ dirty'[h] = dirty[h]
    BY <1>5, <1>6
  <2>3. \A q \in Proc, u \in Page : <<q, u>> # <<p, v>> =>
          swap'[q][u] = SwapAfterSave(f)[q][u]
    BY <1>4
  <2> QED
    BY <1>1, <2>1, <2>2, <2>3, ReplacedWhen
<1> QED
  BY <1>4, <1>7

LEMMA EffectReplaceRestoreFails ==
  ASSUME Inv, Canonical, NEW p \in Proc, NEW v \in Page,
         ReplaceRestoreFails(p, v)
  PROVE  \E f \in Frame : Replaced(f, p, v)
<1>1. FrameOf(p, v) = NoFrame
  BY TranslationIsFrame DEF ReplaceRestoreFails
<1>2. PICK f \in Frame :
        /\ Evictable(f)
        /\ Reuse(f, p, v)
        /\ dirty' = [dirty EXCEPT ![f] = FALSE]
        /\ data' = [data EXCEPT ![f] = Zero]
        /\ swap' = SwapAfterSave(f)
  BY DEF ReplaceRestoreFails
<1>3. \A h \in Frame : h # f => data'[h] = data[h] /\ dirty'[h] = dirty[h]
  BY <1>2 DEF Inv, TypeOK
<1> QED
  BY <1>1, <1>2, <1>3, ReplacedWhen

\* A refused replacement may have written the slot of its victim.
LEMMA EffectReplaceRefused ==
  ASSUME Inv, NEW p \in Proc, NEW v \in Page, ReplaceRefused(p, v)
  PROVE  /\ UNCHANGED <<pt, data, dirty>>
         /\ \A q \in Proc, u \in Page :
              \/ swap'[q][u] = swap[q][u]
              \/ /\ FrameOf(q, u) # NoFrame
                 /\ swap'[q][u] = data[FrameOf(q, u)]
<1>1. UNCHANGED <<pt, data, dirty>>
  BY DEF ReplaceRefused, frameVars
<1>2. swap' = swap \/ \E f \in loaded : MustSave(f) /\ swap' = SwapAfterSave(f)
  BY DEF ReplaceRefused
<1>3. ASSUME NEW f \in loaded, MustSave(f), swap' = SwapAfterSave(f),
             NEW q \in Proc, NEW u \in Page
      PROVE  \/ swap'[q][u] = swap[q][u]
             \/ FrameOf(q, u) = f /\ f # NoFrame /\ swap'[q][u] = data[f]
  <2>1. f \in Frame /\ Occupied(f) /\ f # NoFrame
    BY FrameFacts DEF Inv, Coherent, FramesAccounted
  <2>2. <<owner[f], page[f]>> \in cow[f]
    BY <2>1 DEF Inv, Coherent, OwnersMap
  <2>3. \A m \in cow[f] : m[1] \in Proc /\ m[2] \in Page /\ FrameOf(m[1], m[2]) = f
    BY <2>1, RecordedFacts
  <2>4. owner[f] \in Proc /\ page[f] \in Page /\ FrameOf(owner[f], page[f]) = f
    BY <2>2, <2>3
  <2> QED
    BY <1>3, <2>1, <2>4, SavedVictim
<1> QED
  BY <1>1, <1>2, <1>3

LEMMA EffectFork ==
  ASSUME Inv, NEW p \in Proc, NEW c \in Proc, Fork(p, c)
  PROVE  /\ \A q \in Proc, u \in Page : q # c => Kept(q, u)
         /\ \A u \in Page : FrameOf(c, u) = NoFrame /\ swap'[c][u] = NoData
<1>1. /\ c \notin registered
      /\ data' = data /\ dirty' = dirty /\ swap' = swap
  BY DEF Fork, Inv, Coherent, SlotsAccounted, frameVars
<1>2. \A q \in Proc, u \in Page : q # c => FrameOf(q, u)' = FrameOf(q, u)
  BY DEF Fork, FrameOf, Inv, TypeOK
<1>3. \A u \in Page : FrameOf(c, u) = NoFrame /\ swap[c][u] = NoData
  BY <1>1, UnregisteredFacts
<1> QED
  BY <1>1, <1>2, <1>3 DEF Kept

\* A release frees no frame that another process maps.
LEMMA EffectRelease ==
  ASSUME Inv, NEW p \in Proc, Release(p)
  PROVE  /\ \A q \in Proc, u \in Page : q # p => Kept(q, u)
         /\ \A u \in Page : swap'[p][u] = NoData
<1> DEFINE freed == {f \in Held(p) : cow[f] = {<<p, page[f]>>}}
<1>1. /\ \A f \in Frame : f \notin freed => dirty'[f] = dirty[f] /\ data'[f] = data[f]
      /\ swap' = SwapWithoutProcess(p)
  BY DEF Release, Inv, TypeOK
<1>2. \A q \in Proc, u \in Page :
        q # p => FrameOf(q, u)' = FrameOf(q, u) /\ swap'[q][u] = swap[q][u]
  BY DEF Release, SwapWithoutProcess, FrameOf, Inv, TypeOK
<1>3. \A u \in Page : swap'[p][u] = NoData
  BY <1>1 DEF SwapWithoutProcess, NoSlot, Inv, TypeOK
<1>4. ASSUME NEW q \in Proc, NEW u \in Page, q # p PROVE Kept(q, u)
  <2>1. CASE FrameOf(q, u) = NoFrame
    BY <1>2, <1>4, <2>1 DEF Kept
  <2>2. CASE FrameOf(q, u) # NoFrame
    <3>1. FrameOf(q, u) \in Frame /\ <<q, u>> \in cow[FrameOf(q, u)]
      BY <2>2, ResidentFacts
    <3>2. FrameOf(q, u) \notin freed
      BY <1>4, <3>1
    <3> QED
      BY <1>1, <1>2, <1>4, <3>1, <3>2 DEF Kept
  <2> QED
    BY <2>1, <2>2
<1> QED
  BY <1>3, <1>4

\* Creation, destruction after a release, and a load that was undone.
LEMMA EffectOthers ==
  ASSUME Inv, [Next]_vars, NEW p \in Proc, NEW v \in Page,
         \/ CreateProcess(p) \/ DestroyProcess(p)
         \/ LoadFreeFrameFails(p, v) \/ UNCHANGED vars
  PROVE  \A q \in Proc, u \in Page : Kept(q, u)
<1>1. data' = data /\ dirty' = dirty /\ swap' = swap
  BY DEF CreateProcess, DestroyProcess, LoadFreeFrameFails, vars, frameVars
<1>2. \A q \in Proc, u \in Page : FrameOf(q, u)' = FrameOf(q, u)
  <2>1. CASE DestroyProcess(p)
    <3>1. \A u \in Page : FrameOf(p, u) = NoFrame
      BY <2>1, UnregisteredFacts DEF DestroyProcess
    <3> QED
      BY <2>1, <3>1 DEF DestroyProcess, FrameOf, Inv, TypeOK
  <2>2. CASE pt' = pt
    BY <2>2 DEF FrameOf
  <2> QED
    BY <2>1, <2>2 DEF CreateProcess, LoadFreeFrameFails, vars
<1> QED
  BY <1>1, <1>2 DEF Kept

-----------------------------------------------------------------------------
(* The theorems. *)

\* A slot beside a resident page holds no more than the frame will restore.
LEMMA StaleSlotNext ==
  ASSUME Inv, Canonical, ~IoFaults, StaleSlotHarmless, [Next]_vars
  PROVE  StaleSlotHarmless'
<1> DEFINE Harmless(q, u) ==
             (Resident(q, u) /\ swap[q][u] # NoData) =>
               dirty[FrameOf(q, u)] \/ data[FrameOf(q, u)] = swap[q][u]
<1>1. ASSUME NEW q \in Proc, NEW u \in Page, Kept(q, u) PROVE Harmless(q, u)'
  BY <1>1 DEF StaleSlotHarmless, Kept, Resident
<1>2. ASSUME NEW q \in Proc, NEW u \in Page, UNCHANGED <<pt, data, dirty>>,
             \/ swap'[q][u] = swap[q][u]
             \/ FrameOf(q, u) # NoFrame /\ swap'[q][u] = data[FrameOf(q, u)]
      PROVE  Harmless(q, u)'
  BY <1>2 DEF StaleSlotHarmless, FrameOf, Resident
<1>3. ASSUME NEW p \in Proc, NEW v \in Page, NEW w \in BOOLEAN,
             NEW x \in Value \union {NoData}, x # NoData => w,
             AccessResident(p, v, w, x), NEW q \in Proc, NEW u \in Page
      PROVE  Harmless(q, u)'
  <2>1. /\ <<q, u>> # <<p, v>> => Kept(q, u)
        /\ Kept(p, v) \/ (FrameOf(p, v)' = FrameOf(p, v) /\ dirty'[FrameOf(p, v)])
    BY <1>3, EffectAccessResident
  <2> QED
    BY <1>1, <2>1
<1>4. ASSUME NEW p \in Proc, NEW v \in Page, NEW x \in Value \union {NoData},
             CowCopy(p, v, x), NEW q \in Proc, NEW u \in Page
      PROVE  Harmless(q, u)'
  BY <1>1, <1>4, EffectCowCopy
<1>5. ASSUME NEW p \in Proc, NEW v \in Page, NEW x \in Value \union {NoData},
             CowTakeOver(p, v, x), NEW q \in Proc, NEW u \in Page
      PROVE  Harmless(q, u)'
  <2> DEFINE R == Readers(FrameOf(p, v), p, v)
  <2>1. /\ <<q, u>> # <<p, v>> /\ <<q, u>> \notin R => Kept(q, u)
        /\ <<q, u>> \in R => FrameOf(q, u)' = NoFrame
        /\ dirty'[FrameOf(p, v)']
    BY <1>5, EffectCowTakeOver
  <2>2. CASE <<q, u>> \in R
    BY <2>1, <2>2 DEF Resident
  <2> QED
    BY <1>1, <2>1, <2>2
<1>6. ASSUME NEW p \in Proc, NEW v \in Page, NEW w \in BOOLEAN,
             NEW x \in Value \union {NoData},
             LoadFreeFrame(p, v, w, x), NEW q \in Proc, NEW u \in Page
      PROVE  Harmless(q, u)'
  BY <1>1, <1>6, EffectLoadFreeFrame
<1>7. ASSUME NEW p \in Proc, NEW v \in Page, NEW w \in BOOLEAN,
             NEW x \in Value \union {NoData},
             ReplacePage(p, v, w, x), NEW q \in Proc, NEW u \in Page
      PROVE  Harmless(q, u)'
  <2>1. PICK f \in Frame : Replaced(f, p, v)
    BY <1>7, EffectReplacePage
  <2>2. PICK o \in Proc, old \in Page :
          /\ FrameOf(o, old)' = NoFrame
          /\ <<q, u>> # <<p, v>> /\ <<q, u>> # <<o, old>> => Kept(q, u)
    BY <2>1 DEF Replaced
  <2>3. CASE <<q, u>> = <<p, v>>
    BY <1>7, <2>3, EffectReplacePage
  <2>4. CASE <<q, u>> = <<o, old>>
    BY <2>2, <2>4 DEF Resident
  <2> QED
    BY <1>1, <2>2, <2>3, <2>4
<1>8. ASSUME NEW p \in Proc, NEW c \in Proc, Fork(p, c),
             NEW q \in Proc, NEW u \in Page
      PROVE  Harmless(q, u)'
  BY <1>1, <1>8, EffectFork
<1>9. ASSUME NEW p \in Proc, Release(p), NEW q \in Proc, NEW u \in Page
      PROVE  Harmless(q, u)'
  BY <1>1, <1>9, EffectRelease
<1>10. ASSUME NEW q \in Proc, NEW u \in Page PROVE Harmless(q, u)'
  <2>1. ASSUME NEW p \in Proc, NEW v \in Page,
               CowFails(p, v) \/ ReplaceRefused(p, v)
        PROVE  Harmless(q, u)'
    BY <1>2, <2>1, EffectCowFails, EffectReplaceRefused
  <2>2. ASSUME NEW p \in Proc, CreateProcess(p) \/ DestroyProcess(p) \/ UNCHANGED vars
        PROVE  Harmless(q, u)'
    BY <1>1, <2>2, EffectOthers
  <2>3. ~ \E p \in Proc, v \in Page :
            LoadFreeFrameFails(p, v) \/ ReplaceRestoreFails(p, v)
    BY DEF LoadFreeFrameFails, ReplaceRestoreFails
  <2> HIDE DEF Harmless
  <2> QED
    BY <1>3, <1>4, <1>5, <1>6, <1>7, <1>8, <1>9, <2>1, <2>2, <2>3, StepCases
<1> QED
  BY <1>10 DEF StaleSlotHarmless

\* As long as the swap file works, a slot that a save given up half way left
\* beside a resident page never replaces a newer content.
THEOREM StaleSlotsCorrect == Canonical /\ ~IoFaults => (Spec => []StaleSlotHarmless)
<1> SUFFICES ASSUME Canonical, ~IoFaults PROVE Spec => []StaleSlotHarmless
  OBVIOUS
<1>1. Init => StaleSlotHarmless
  BY FrameFacts DEF Init, StaleSlotHarmless, NoSlot
<1>2. Inv /\ StaleSlotHarmless /\ [Next]_vars => StaleSlotHarmless'
  BY StaleSlotNext
<1> QED
  BY <1>1, <1>2, CoherentAlways, PTL DEF Spec

LEMMA DirtyStep ==
  ASSUME Inv, Canonical, HasSwap, [Next]_vars, NEW p \in Proc, NEW v \in Page,
         Resident(p, v), dirty[FrameOf(p, v)], Content(p, v)' # Content(p, v)
  PROVE  OwnWrite(p, v) \/ Release(p)
<1>1. ~Kept(p, v)
  BY KeptContent
<1>2. FrameOf(p, v) # NoFrame /\ FrameOf(p, v) \in Frame
      /\ Content(p, v) = data[FrameOf(p, v)] /\ data[FrameOf(p, v)] # NoData
  <2>1. FrameOf(p, v) # NoFrame /\ FrameOf(p, v) \in Frame
    BY ResidentFacts DEF Resident
  <2> QED
    BY <2>1 DEF Content, Resident, Inv, TypeOK
<1>3. ASSUME NEW q \in Proc, NEW u \in Page, NEW w \in BOOLEAN,
             NEW x \in Value \union {NoData}, x # NoData => w /\ Write(q, u, x),
             \/ AccessResident(q, u, w, x)
             \/ CowCopy(q, u, x)
             \/ CowTakeOver(q, u, x)
      PROVE  OwnWrite(p, v)
  <2> DEFINE R == Readers(FrameOf(q, u), q, u)
  <2>1. CASE AccessResident(q, u, w, x)
    <3>1. p = q /\ v = u /\ x # NoData
      BY <1>1, <1>3, <2>1, EffectAccessResident
    <3> QED
      BY <1>3, <3>1 DEF OwnWrite
  <2>2. CASE CowCopy(q, u, x)
    <3>1. p = q /\ v = u /\ x # NoData
      BY <1>1, <2>2, EffectCowCopy
    <3> QED
      BY <1>3, <3>1 DEF OwnWrite
  <2>3. CASE CowTakeOver(q, u, x)
    <3>1. p = q /\ v = u /\ x # NoData
      <4>1. /\ <<p, v>> # <<q, u>> /\ <<p, v>> \notin R => Kept(p, v)
            /\ <<p, v>> \in R => Content(p, v)' = Content(p, v)
            /\ x = NoData => Content(q, u)' = Content(q, u)
        BY <2>3, EffectCowTakeOver
      <4> QED
        BY <1>1, <4>1
    <3> QED
      BY <1>3, <3>1 DEF OwnWrite
  <2> QED
    BY <1>3, <2>1, <2>2, <2>3
<1>4. ASSUME NEW q \in Proc, NEW u \in Page, NEW w \in BOOLEAN,
             NEW x \in Value \union {NoData}, LoadFreeFrame(q, u, w, x)
      PROVE  FALSE
  BY <1>1, <1>2, <1>4, EffectLoadFreeFrame
<1>5. ASSUME NEW q \in Proc, NEW u \in Page, NEW f \in Frame, Replaced(f, q, u)
      PROVE  FALSE
  <2>1. PICK o \in Proc, old \in Page :
          /\ FrameOf(o, old) = f /\ FrameOf(o, old)' = NoFrame
          /\ MustSave(f) => swap'[o][old] = data[f]
          /\ <<p, v>> # <<q, u>> /\ <<p, v>> # <<o, old>> => Kept(p, v)
    BY <1>5 DEF Replaced
  <2>2. <<p, v>> # <<q, u>>
    BY <1>2, <1>5 DEF Replaced
  <2>3. p = o /\ v = old
    BY <1>1, <2>1, <2>2
  <2>4. FrameOf(p, v) = f /\ FrameOf(p, v)' = NoFrame /\ swap'[p][v] = data[f]
    BY <2>1, <2>3 DEF MustSave
  <2>5. Content(p, v)' = data[f]
    BY <1>2, <2>4 DEF Content, Resident, Restored
  <2> QED
    BY <1>2, <2>4, <2>5
<1>6. ASSUME NEW q \in Proc, NEW u \in Page,
             CowFails(q, u) \/ ReplaceRefused(q, u)
      PROVE  FALSE
  <2>1. UNCHANGED <<pt, data, dirty>>
    BY <1>6, EffectCowFails, EffectReplaceRefused
  <2> QED
    BY <1>2, <2>1 DEF Content, Resident, FrameOf
<1>7. ASSUME NEW q \in Proc, NEW c \in Proc, Fork(q, c) PROVE FALSE
  BY <1>1, <1>2, <1>7, EffectFork
<1>8. ASSUME NEW q \in Proc, Release(q) PROVE Release(p)
  BY <1>1, <1>8, EffectRelease
<1>9. ASSUME NEW q \in Proc, NEW u \in Page,
             \/ CreateProcess(q) \/ DestroyProcess(q)
             \/ LoadFreeFrameFails(q, u) \/ UNCHANGED vars
      PROVE  FALSE
  BY <1>1, <1>9, EffectOthers
<1>10. ASSUME NEW q \in Proc, NEW u \in Page, NEW w \in BOOLEAN,
              NEW x \in Value \union {NoData},
              ReplacePage(q, u, w, x) \/ ReplaceRestoreFails(q, u)
       PROVE  FALSE
  BY <1>5, <1>10, EffectReplacePage, EffectReplaceRestoreFails
<1> QED
  BY <1>3, <1>4, <1>6, <1>7, <1>8, <1>9, <1>10, StepCases

\* With a swap area, no call loses a page that is dirty: whatever is evicted,
\* copied, refused or given up half way, and even if the swap file fails, it is
\* only its own process that changes it, by a write or by its release.
THEOREM DirtyPagesCorrect == Canonical /\ HasSwap => (Spec => DirtyPagesSurvive)
<1> SUFFICES ASSUME Canonical, HasSwap PROVE Spec => DirtyPagesSurvive
  OBVIOUS
<1>1. Inv /\ [Next]_vars =>
        [\A p \in Proc, v \in Page :
           /\ Resident(p, v) /\ dirty[FrameOf(p, v)]
           /\ Content(p, v)' # Content(p, v)
           => OwnWrite(p, v) \/ Release(p)]_vars
  BY DirtyStep
<1> QED
  BY <1>1, CoherentAlways, PTL DEF Spec, DirtyPagesSurvive

\* A copy-on-write step changes no page but the one that is written, and leaves
\* the writer alone in a frame that is dirty.
THEOREM CowIsolatesCorrect == Canonical => (Spec => CowIsolates)
<1> SUFFICES ASSUME Canonical PROVE Spec => CowIsolates
  OBVIOUS
<1>1. ASSUME Inv, NEW p \in Proc, NEW v \in Page, NEW x \in Value \union {NoData},
             CowCopy(p, v, x) \/ CowTakeOver(p, v, x)
      PROVE  /\ \A m \in Mapping \ {<<p, v>>} :
                  Content(m[1], m[2])' = Content(m[1], m[2])
             /\ cow'[FrameOf(p, v)'] = {<<p, v>>}
             /\ dirty'[FrameOf(p, v)']
  <2>1. ASSUME NEW q \in Proc, NEW u \in Page, <<q, u>> # <<p, v>>
        PROVE  Content(q, u)' = Content(q, u)
    <3>1. CASE CowCopy(p, v, x)
      BY <1>1, <2>1, <3>1, EffectCowCopy, KeptContent
    <3>2. CASE CowTakeOver(p, v, x)
      <4> DEFINE R == Readers(FrameOf(p, v), p, v)
      <4>1. /\ <<q, u>> # <<p, v>> /\ <<q, u>> \notin R => Kept(q, u)
            /\ <<q, u>> \in R => Content(q, u)' = Content(q, u)
        BY <1>1, <3>2, EffectCowTakeOver
      <4> QED
        BY <2>1, <4>1, KeptContent
    <3> QED
      BY <1>1, <3>1, <3>2
  <2>2. \A m \in Mapping \ {<<p, v>>} :
          m[1] \in Proc /\ m[2] \in Page /\ <<m[1], m[2]>> # <<p, v>>
    BY DEF Mapping
  <2> QED
    BY <1>1, <2>1, <2>2, EffectCowCopy, EffectCowTakeOver
<1>2. Inv /\ [Next]_vars =>
        [\A p \in Proc, v \in Page, x \in Value \union {NoData} :
           CowCopy(p, v, x) \/ CowTakeOver(p, v, x) =>
             /\ \A m \in Mapping \ {<<p, v>>} :
                  Content(m[1], m[2])' = Content(m[1], m[2])
             /\ cow'[FrameOf(p, v)'] = {<<p, v>>}
             /\ dirty'[FrameOf(p, v)']]_vars
  BY <1>1
<1> QED
  BY <1>2, CoherentAlways, PTL DEF Spec, CowIsolates

-----------------------------------------------------------------------------
(***************************************************************************)
(* Private memories.  VirtualMemory implements ProcessMemory when          *)
(* addresses are canonical and the swap file works.                        *)
(*                                                                         *)
(* The invariant is that of coherence with StaleSlotHarmless: when a clean *)
(* page is evicted it reads as what is in its slot from then on, and a     *)
(* slot left by an earlier save must not hold anything else.  That there   *)
(* is no such slot without a swap area is a matter of WithinCapacity.      *)
(***************************************************************************)

MemoryInv == Inv /\ StaleSlotHarmless /\ WithinCapacity

\* What a process reads after the store of an access.
LEMMA StoreIsRead ==
  ASSUME NEW c \in Contents, pt' \in Tables, NEW p \in Proc, NEW v \in Page,
         NEW x \in Value \union {NoData}, NEW f \in Frame,
         pt'[p][PathOf[v]] = f, data' = Stored(c, pt', p, v, x)
  PROVE  Content(p, v)' = IF x = NoData THEN c[f] ELSE x
<1>1. f # NoFrame
  BY FrameFacts
<1>2. data'[f] = IF x = NoData THEN c[f] ELSE x
  BY <1>1 DEF Stored, Contents
<1> QED
  BY <1>1, <1>2 DEF Content, Resident, FrameOf

\* An access to a page that is not resident finds what is in its slot.
LEMMA AbsentContent ==
  ASSUME NEW p \in Proc, NEW v \in Page, FrameOf(p, v) = NoFrame
  PROVE  Content(p, v) = Restored(swap, p, v)
BY DEF Content, Resident

-----------------------------------------------------------------------------
(* The page that is accessed. *)

\* After an access the page holds what was stored, or else what it held.
ContentAfter(p, v, x) == Content(p, v)' = IF x = NoData THEN Content(p, v) ELSE x

LEMMA AccessedResident ==
  ASSUME Inv, NEW p \in Proc, NEW v \in Page, NEW w \in BOOLEAN,
         NEW x \in Value \union {NoData}, AccessResident(p, v, w, x)
  PROVE  ContentAfter(p, v, x)
<1> DEFINE f == FrameOf(p, v)
<1>1. Translation(p, v) = f /\ f # NoFrame /\ f \in Frame
  BY TranslationIsFrame, ResidentFacts DEF AccessResident
<1>2. pt' = pt /\ data' = Stored(data, pt', p, v, x)
  BY DEF AccessResident
<1>3. data \in Contents /\ pt' \in Tables
  BY <1>2 DEF Inv, TypeOK, Contents, Tables
<1>4. Content(p, v)' = IF x = NoData THEN data[f] ELSE x
  BY <1>1, <1>2, <1>3, StoreIsRead DEF FrameOf
<1> QED
  BY <1>1, <1>4 DEF ContentAfter, Content, Resident

LEMMA AccessedCowCopy ==
  ASSUME Inv, Canonical, NEW p \in Proc, NEW v \in Page,
         NEW x \in Value \union {NoData}, CowCopy(p, v, x)
  PROVE  ContentAfter(p, v, x)
<1> DEFINE f == FrameOf(p, v)
<1>1. Translation(p, v) = f /\ f # NoFrame /\ f \in Frame
  BY TranslationIsFrame, ResidentFacts DEF CowCopy
<1>2. PICK g \in Frame :
        /\ pt' = [pt EXCEPT ![p][PathOf[v]] = g]
        /\ data' = Stored([data EXCEPT ![g] = data[f]], pt', p, v, x)
  BY <1>1 DEF CowCopy
<1> DEFINE copied == [data EXCEPT ![g] = data[f]]
<1>3. copied \in Contents /\ pt' \in Tables /\ copied[g] = data[f]
  BY <1>1, <1>2 DEF Inv, TypeOK, Contents, Tables
<1>4. pt'[p][PathOf[v]] = g
  BY <1>2 DEF Inv, TypeOK
<1>5. data' = Stored(copied, pt', p, v, x)
  BY <1>2
<1> HIDE DEF copied
<1>6. Content(p, v)' = IF x = NoData THEN data[f] ELSE x
  BY <1>3, <1>4, <1>5, StoreIsRead
<1> QED
  BY <1>1, <1>6 DEF ContentAfter, Content, Resident

LEMMA AccessedCowTakeOver ==
  ASSUME Inv, Canonical, NEW p \in Proc, NEW v \in Page,
         NEW x \in Value \union {NoData}, CowTakeOver(p, v, x)
  PROVE  ContentAfter(p, v, x)
<1> DEFINE f == FrameOf(p, v)
           R == Readers(f, p, v)
<1>1. Translation(p, v) = f /\ f # NoFrame /\ f \in Frame
  BY TranslationIsFrame, ResidentFacts DEF CowTakeOver
<1>2. /\ pt' = [q \in Proc |-> [a \in Path |->
                  IF \E m \in R : m[1] = q /\ PathOf[m[2]] = a
                    THEN NoFrame ELSE pt[q][a]]]
      /\ data' = Stored(data, pt', p, v, x)
  BY <1>1 DEF CowTakeOver
<1>3. \A m \in R : m[2] \in Page /\ m = <<m[1], m[2]>>
  BY <1>1, RecordedFacts DEF Readers
<1>4. ~ \E m \in R : m[1] = p /\ PathOf[m[2]] = PathOf[v]
  BY <1>3 DEF Canonical, Readers
<1>5. pt'[p][PathOf[v]] = f
  BY <1>2, <1>4 DEF FrameOf
<1>6. data \in Contents /\ pt' \in Tables
  BY <1>2 DEF Inv, TypeOK, Contents, Tables
<1>7. data' = Stored(data, pt', p, v, x)
  BY <1>2
<1> HIDE DEF f, R
<1>8. Content(p, v)' = IF x = NoData THEN data[f] ELSE x
  BY <1>1, <1>5, <1>6, <1>7, StoreIsRead
<1> QED
  BY <1>1, <1>8 DEF ContentAfter, Content, Resident, f

LEMMA AccessedLoadFreeFrame ==
  ASSUME Inv, NEW p \in Proc, NEW v \in Page, NEW w \in BOOLEAN,
         NEW x \in Value \union {NoData}, LoadFreeFrame(p, v, w, x)
  PROVE  ContentAfter(p, v, x)
<1>1. FrameOf(p, v) = NoFrame
  BY TranslationIsFrame DEF LoadFreeFrame
<1>2. PICK g \in Frame :
        /\ pt' = [pt EXCEPT ![p][PathOf[v]] = g]
        /\ data' = Stored([data EXCEPT ![g] = Restored(swap, p, v)],
                          pt', p, v, x)
  BY DEF LoadFreeFrame
<1> DEFINE restored == [data EXCEPT ![g] = Restored(swap, p, v)]
<1>3. /\ restored \in Contents /\ pt' \in Tables
      /\ restored[g] = Restored(swap, p, v)
  BY <1>2, RestoredType DEF Inv, TypeOK, Contents, Tables, Swaps
<1>4. pt'[p][PathOf[v]] = g
  BY <1>2 DEF Inv, TypeOK
<1>5. data' = Stored(restored, pt', p, v, x)
  BY <1>2
<1> HIDE DEF restored
<1>6. Content(p, v)' = IF x = NoData THEN Restored(swap, p, v) ELSE x
  BY <1>3, <1>4, <1>5, StoreIsRead
<1> QED
  BY <1>1, <1>6, AbsentContent DEF ContentAfter

LEMMA AccessedReplacePage ==
  ASSUME Inv, Canonical, NEW p \in Proc, NEW v \in Page, NEW w \in BOOLEAN,
         NEW x \in Value \union {NoData}, ReplacePage(p, v, w, x)
  PROVE  ContentAfter(p, v, x)
<1>1. FrameOf(p, v) = NoFrame
  BY TranslationIsFrame DEF ReplacePage
<1>2. PICK f \in Frame :
        /\ Evictable(f)
        /\ Reuse(f, p, v)
        /\ data' = Stored([data EXCEPT ![f] = Restored(SwapAfterSave(f), p, v)],
                          pt', p, v, x)
  BY DEF ReplacePage
<1>3. /\ owner[f] \in Proc /\ page[f] \in Page
      /\ FrameOf(owner[f], page[f]) = f
      /\ FrameOf(p, v)' = f
  BY <1>1, <1>2, EffectReuse
<1>4. /\ SwapAfterSave(f) \in Swaps
      /\ SwapAfterSave(f)[p][v] = swap[p][v]
  <2>1. <<p, v>> # <<owner[f], page[f]>>
    BY <1>1, <1>3, FrameFacts
  <2> QED
    BY <1>3, <2>1, SavedVictim
<1>5. Restored(SwapAfterSave(f), p, v) = Restored(swap, p, v)
  BY <1>4 DEF Restored
<1> DEFINE restored == [data EXCEPT ![f] = Restored(swap, p, v)]
<1>6. /\ restored \in Contents /\ pt' \in Tables
      /\ restored[f] = Restored(swap, p, v)
  BY <1>2, TypeReplacePage, RestoredType DEF Inv, TypeOK, Contents, Tables, Swaps
<1>7. data' = Stored(restored, pt', p, v, x) /\ pt'[p][PathOf[v]] = f
  BY <1>2, <1>3, <1>5 DEF FrameOf
<1> HIDE DEF restored
<1>8. Content(p, v)' = IF x = NoData THEN Restored(swap, p, v) ELSE x
  BY <1>6, <1>7, StoreIsRead
<1> QED
  BY <1>1, <1>8, AbsentContent DEF ContentAfter

-----------------------------------------------------------------------------
(* The other pages. *)

\* Every page but v of p keeps its content, except for one that may be lost.
OthersKept(p, v) ==
  \E o \in Proc, old \in Page :
    \A q \in Proc, u \in Page : <<q, u>> # <<p, v>> =>
      \/ Content(q, u)' = Content(q, u)
      \/ q = o /\ u = old /\ Content(q, u)' = Zero

\* Without a swap area there are no slots.
LEMMA NoSlots ==
  ASSUME WithinCapacity, ~HasSwap, NEW p \in Proc, NEW v \in Page
  PROVE  swap[p][v] = NoData
<1>1. UsedSlots(swap) \in SUBSET Mapping
  BY DEF UsedSlots
<1>2. IsFiniteSet(UsedSlots(swap)) /\ Cardinality(UsedSlots(swap)) \in Nat
  BY <1>1, MappingsFinite
<1>3. Cardinality(UsedSlots(swap)) = 0
  BY <1>2 DEF WithinCapacity, HasSwap
<1>4. UsedSlots(swap) = {}
  BY <1>2, <1>3, FS_EmptySet
<1>5. <<p, v>> \in Mapping /\ <<p, v>> \notin UsedSlots(swap)
  BY <1>4 DEF Mapping
<1> QED
  BY <1>5 DEF UsedSlots

\* A page that was evicted reads as what was saved, or as what is in its slot;
\* it is lost when it was clean and had none.
LEMMA VictimContent ==
  ASSUME MemoryInv, NEW f \in Frame, NEW o \in Proc, NEW old \in Page,
         FrameOf(o, old) = f, FrameOf(o, old)' = NoFrame,
         swap'[o][old] = IF MustSave(f) THEN data[f] ELSE swap[o][old]
  PROVE  Content(o, old)' = Content(o, old) \/ Content(o, old)' = Zero
<1>1. f # NoFrame /\ data[f] # NoData
  BY FrameFacts DEF MemoryInv, Inv, TypeOK
<1>2. Content(o, old) = data[f]
  BY <1>1 DEF Content, Resident
<1>3. Content(o, old)' = IF swap'[o][old] # NoData THEN swap'[o][old] ELSE Zero
  BY DEF Content, Resident, Restored
<1>4. CASE MustSave(f)
  BY <1>1, <1>2, <1>3, <1>4
<1>5. CASE ~MustSave(f) /\ swap[o][old] # NoData
  <2>1. dirty[f] \/ data[f] = swap[o][old]
    BY <1>1, <1>5 DEF MemoryInv, StaleSlotHarmless, Resident
  <2>2. HasSwap
    BY <1>5, NoSlots DEF MemoryInv
  <2> QED
    BY <1>2, <1>3, <1>5, <2>1, <2>2 DEF MustSave
<1>6. CASE ~MustSave(f) /\ swap[o][old] = NoData
  BY <1>3, <1>6
<1> QED
  BY <1>4, <1>5, <1>6

\* An access that succeeds, as StepCases has it.
Access(p, v, w, x) ==
  \/ AccessResident(p, v, w, x)
  \/ LoadFreeFrame(p, v, w, x)
  \/ ReplacePage(p, v, w, x)
  \/ CowCopy(p, v, x)
  \/ CowTakeOver(p, v, x)

LEMMA AccessEffect ==
  ASSUME MemoryInv, Canonical, NEW p \in Proc, NEW v \in Page, NEW w \in BOOLEAN,
         NEW x \in Value \union {NoData}, x # NoData => w, Access(p, v, w, x)
  PROVE  ContentAfter(p, v, x) /\ OthersKept(p, v)
<1> USE DEF MemoryInv
<1>1. ContentAfter(p, v, x)
  BY AccessedResident, AccessedCowCopy, AccessedCowTakeOver,
     AccessedLoadFreeFrame, AccessedReplacePage DEF Access
<1>2. CASE \/ AccessResident(p, v, w, x) \/ LoadFreeFrame(p, v, w, x)
           \/ CowCopy(p, v, x) \/ CowTakeOver(p, v, x)
  <2>1. ASSUME NEW q \in Proc, NEW u \in Page, <<q, u>> # <<p, v>>
        PROVE  Content(q, u)' = Content(q, u)
    <3>1. CASE CowTakeOver(p, v, x)
      <4> DEFINE R == Readers(FrameOf(p, v), p, v)
      <4>1. /\ <<q, u>> \notin R => Kept(q, u)
            /\ <<q, u>> \in R => Content(q, u)' = Content(q, u)
        BY <2>1, <3>1, EffectCowTakeOver
      <4> QED
        BY <4>1, KeptContent
    <3>2. CASE ~CowTakeOver(p, v, x)
      <4>1. Kept(q, u)
        BY <1>2, <2>1, <3>2, EffectAccessResident, EffectLoadFreeFrame,
           EffectCowCopy
      <4> QED
        BY <4>1, KeptContent
    <3> QED
      BY <3>1, <3>2
  <2> QED
    BY <1>1, <2>1 DEF OthersKept
<1>3. CASE ReplacePage(p, v, w, x)
  <2>1. PICK f \in Frame : Replaced(f, p, v)
    BY <1>3, EffectReplacePage
  <2>2. PICK o \in Proc, old \in Page :
          /\ FrameOf(o, old) = f
          /\ FrameOf(o, old)' = NoFrame
          /\ swap'[o][old] = IF MustSave(f) THEN data[f] ELSE swap[o][old]
          /\ \A q \in Proc, u \in Page :
               <<q, u>> # <<p, v>> /\ <<q, u>> # <<o, old>> => Kept(q, u)
    BY <2>1 DEF Replaced
  <2>3. Content(o, old)' = Content(o, old) \/ Content(o, old)' = Zero
    BY <2>2, VictimContent
  <2>4. ASSUME NEW q \in Proc, NEW u \in Page, <<q, u>> # <<p, v>>
        PROVE  \/ Content(q, u)' = Content(q, u)
               \/ q = o /\ u = old /\ Content(q, u)' = Zero
    BY <2>2, <2>3, <2>4, KeptContent
  <2> QED
    BY <1>1, <2>4 DEF OthersKept
<1> QED
  BY <1>1, <1>2, <1>3 DEF Access

\* A call that fails changes nothing that a process reads.
LEMMA FailureEffect ==
  ASSUME MemoryInv, ~IoFaults \/ ~HasSwap,
         NEW p \in Proc, NEW v \in Page, AccessFails(p, v),
         NEW q \in Proc, NEW u \in Page
  PROVE  Content(q, u)' = Content(q, u)
<1> USE DEF MemoryInv
<1>1. CowFails(p, v) \/ ReplaceRefused(p, v)
  <2>1. ASSUME IoFaults PROVE ~LoadFreeFrameFails(p, v) /\ ~ReplaceRestoreFails(p, v)
    <3>1. ~HasSwap /\ swap[p][v] = NoData
      BY <2>1, NoSlots
    <3>2. \A f \in Frame : SwapAfterSave(f) = swap
      BY <3>1 DEF SwapAfterSave, MustSave
    <3> QED
      BY <3>1, <3>2 DEF LoadFreeFrameFails, ReplaceRestoreFails
  <2> QED
    BY <2>1 DEF AccessFails, LoadFreeFrameFails, ReplaceRestoreFails
<1>2. /\ UNCHANGED <<pt, data>>
      /\ FrameOf(q, u) = NoFrame => swap'[q][u] = swap[q][u]
  BY <1>1, EffectCowFails, EffectReplaceRefused
<1> QED
  BY <1>2 DEF Content, Resident, FrameOf, Restored

\* A child maps what its parent maps, and has no slots.
LEMMA ForkEffect ==
  ASSUME Inv, NEW p \in Proc, NEW c \in Proc, Fork(p, c)
  PROVE  /\ p # c
         /\ \A q \in Proc, u \in Page : q # c => Content(q, u)' = Content(q, u)
         /\ \A u \in Page : Content(c, u) = Zero
         /\ \A u \in Page :
              Content(c, u)' = IF Resident(p, u) THEN Content(p, u) ELSE Zero
<1>1. /\ \A q \in Proc, u \in Page : q # c => Kept(q, u)
      /\ \A u \in Page : FrameOf(c, u) = NoFrame /\ swap'[c][u] = NoData
  BY EffectFork
<1>2. p # c /\ data' = data /\ swap' = swap
  BY DEF Fork, frameVars
<1>3. \A u \in Page : FrameOf(c, u)' = FrameOf(p, u)
  BY DEF Fork, FrameOf, Inv, TypeOK
<1>4. \A u \in Page : Content(c, u) = Zero
  BY <1>1, <1>2 DEF Content, Resident, Restored
<1>5. \A u \in Page :
        Content(c, u)' = IF Resident(p, u) THEN Content(p, u) ELSE Zero
  BY <1>1, <1>2, <1>3 DEF Content, Resident, Restored
<1> QED
  BY <1>1, <1>2, <1>4, <1>5, KeptContent

\* A released process has no page in a frame and none in a slot.
LEMMA ReleaseEffect ==
  ASSUME Inv, NEW p \in Proc, Release(p)
  PROVE  /\ \A q \in Proc, u \in Page : q # p => Content(q, u)' = Content(q, u)
         /\ \A u \in Page : Content(p, u)' = Zero
<1>1. /\ \A q \in Proc, u \in Page : q # p => Kept(q, u)
      /\ \A u \in Page : swap'[p][u] = NoData
  BY EffectRelease
<1>2. ASSUME NEW u \in Page PROVE FrameOf(p, u)' = NoFrame
  <2>1. pt'[p][PathOf[u]] =
          IF \E f \in Held(p) : PathOf[page[f]] = PathOf[u] /\ pt[p][PathOf[u]] = f
            THEN NoFrame ELSE pt[p][PathOf[u]]
    BY DEF Release, Inv, TypeOK
  <2>2. CASE FrameOf(p, u) # NoFrame
    <3>1. FrameOf(p, u) \in Held(p) /\ page[FrameOf(p, u)] = u
      BY <2>2, ResidentFacts DEF Held
    <3> QED
      BY <2>1, <3>1 DEF FrameOf
  <2>3. CASE FrameOf(p, u) = NoFrame
    BY <2>1, <2>3 DEF FrameOf
  <2> QED
    BY <2>2, <2>3
<1>3. \A u \in Page : Content(p, u)' = Zero
  BY <1>1, <1>2 DEF Content, Resident, Restored
<1> QED
  BY <1>1, <1>3, KeptContent

-----------------------------------------------------------------------------
(* The steps of the memories. *)

LEMMA MemoriesAfter ==
  /\ Memories \in [Proc -> [Page -> {Content(p, v) : p \in Proc, v \in Page}]]
  /\ Memories' = [p \in Proc |-> [v \in Page |-> Content(p, v)']]
BY DEF Memories

LEMMA AccessMatches ==
  ASSUME NEW p \in Proc, NEW v \in Page, NEW x \in Value \union {NoData},
         ContentAfter(p, v, x), OthersKept(p, v)
  PROVE  IF x = NoData THEN Memory!Read ELSE Memory!Write(p, v, x)
<1>1. PICK o \in Proc, old \in Page :
        \A q \in Proc, u \in Page : <<q, u>> # <<p, v>> =>
          \/ Content(q, u)' = Content(q, u)
          \/ q = o /\ u = old /\ Content(q, u)' = Zero
  BY DEF OthersKept
<1>2. PICK m \in Memory!AfterEviction :
        /\ \A q \in Proc, u \in Page : <<q, u>> # <<p, v>> =>
             Content(q, u)' = m[q][u]
        /\ m[p][v] = Content(p, v)
        /\ m = [q \in Proc |-> [u \in Page |-> m[q][u]]]
  <2>1. CASE <<o, old>> # <<p, v>> /\ Content(o, old)' = Zero
    <3> DEFINE m == Memory!Lost(o, old)
    <3>1. m \in Memory!AfterEviction
      BY DEF Memory!AfterEviction
    <3>2. m = [q \in Proc |-> [u \in Page |->
                 IF q = o /\ u = old THEN Zero ELSE Content(q, u)]]
      BY DEF Memory!Lost, Memories
    <3> QED
      BY <1>1, <2>1, <3>1, <3>2
  <2>2. CASE <<o, old>> = <<p, v>> \/ Content(o, old)' # Zero
    <3>1. Memories \in Memory!AfterEviction
      BY DEF Memory!AfterEviction
    <3>2. \A q \in Proc, u \in Page : Memories[q][u] = Content(q, u)
      BY DEF Memories
    <3>3. Memories = [q \in Proc |-> [u \in Page |-> Memories[q][u]]]
      BY DEF Memories
    <3> QED
      BY <1>1, <2>2, <3>1, <3>2, <3>3
  <2> QED
    BY <2>1, <2>2
<1>3. Memories' = [q \in Proc |-> [u \in Page |-> Content(q, u)']]
  BY DEF Memories
<1>4. CASE x = NoData
  <2>1. \A q \in Proc, u \in Page : Content(q, u)' = m[q][u]
    BY <1>2, <1>4 DEF ContentAfter
  <2>2. Memories' = m
    BY <1>2, <1>3, <2>1
  <2> QED
    BY <1>4, <2>2 DEF Memory!Read
<1>5. CASE x # NoData
  <2>1. \A q \in Proc, u \in Page :
          Content(q, u)' = IF q = p /\ u = v THEN x ELSE m[q][u]
    BY <1>2, <1>5 DEF ContentAfter
  <2>2. Memories' = [q \in Proc |-> [u \in Page |->
                       IF q = p /\ u = v THEN x ELSE m[q][u]]]
    BY <1>3, <2>1
  <2>3. [m EXCEPT ![p][v] = x] = [q \in Proc |-> [u \in Page |->
                       IF q = p /\ u = v THEN x ELSE m[q][u]]]
    BY <1>2
  <2>4. Memories' = [m EXCEPT ![p][v] = x]
    BY <2>2, <2>3
  <2> QED
    BY <1>2, <1>5, <2>4 DEF Memory!Write
<1> QED
  BY <1>4, <1>5

LEMMA ForkMatches ==
  ASSUME Inv, NEW p \in Proc, NEW c \in Proc, Fork(p, c)
  PROVE  Memory!Fork(p, c)
<1> DEFINE inherited == {u \in Page : Resident(p, u)}
<1>1. /\ Memories = [q \in Proc |-> [u \in Page |-> Content(q, u)]]
      /\ Memories' = [q \in Proc |-> [u \in Page |-> Content(q, u)']]
  BY DEF Memories
<1>2. Memories[c] = Memory!Blank
  BY <1>1, ForkEffect DEF Memory!Blank
<1>3. Memories' = [q \in Proc |-> IF q = c
                     THEN [u \in Page |-> IF u \in inherited THEN Content(p, u) ELSE Zero]
                     ELSE [u \in Page |-> Content(q, u)]]
  <2>1. \A q \in Proc, u \in Page : Content(q, u)' =
          IF q = c THEN IF u \in inherited THEN Content(p, u) ELSE Zero
                   ELSE Content(q, u)
    BY ForkEffect
  <2> QED
    BY <1>1, <2>1
<1>4. Memories' = [Memories EXCEPT ![c] =
                     [u \in Page |-> IF u \in inherited THEN Memories[p][u] ELSE Zero]]
  BY <1>1, <1>3
<1> QED
  BY <1>2, <1>4, ForkEffect DEF Memory!Fork

LEMMA ReleaseMatches ==
  ASSUME Inv, NEW p \in Proc, Release(p)
  PROVE  Memory!Release(p)
<1>1. /\ Memories = [q \in Proc |-> [u \in Page |-> Content(q, u)]]
      /\ Memories' = [q \in Proc |-> [u \in Page |-> Content(q, u)']]
  BY DEF Memories
<1>2. \A q \in Proc, u \in Page :
        Content(q, u)' = IF q = p THEN Zero ELSE Content(q, u)
  BY ReleaseEffect
<1>3. Memories' = [q \in Proc |-> IF q = p THEN Memory!Blank ELSE Memories[q]]
  BY <1>1, <1>2 DEF Memory!Blank
<1> QED
  BY <1>1, <1>3 DEF Memory!Release

\* A step that changes no content.
LEMMA Stutters ==
  ASSUME \A q \in Proc, u \in Page : Content(q, u)' = Content(q, u)
  PROVE  UNCHANGED Memories
BY DEF Memories

LEMMA MemoryNext ==
  ASSUME MemoryInv, Canonical, ~IoFaults \/ ~HasSwap, [Next]_vars
  PROVE  [Memory!Next]_Memories
<1> USE DEF MemoryInv
<1>1. ASSUME NEW p \in Proc, NEW v \in Page, NEW w \in BOOLEAN,
             NEW x \in Value \union {NoData}, x # NoData => w, Access(p, v, w, x)
      PROVE  Memory!Next
  <2>1. ContentAfter(p, v, x) /\ OthersKept(p, v)
    BY <1>1, AccessEffect
  <2>2. IF x = NoData THEN Memory!Read ELSE Memory!Write(p, v, x)
    BY <2>1, AccessMatches
  <2> QED
    BY <2>2 DEF Memory!Next
<1>2. ASSUME NEW p \in Proc, NEW v \in Page, AccessFails(p, v)
      PROVE  UNCHANGED Memories
  BY <1>2, FailureEffect, Stutters
<1>3. ASSUME NEW p \in Proc, CreateProcess(p) \/ DestroyProcess(p) \/ UNCHANGED vars,
             NEW v \in Page
      PROVE  UNCHANGED Memories
  BY <1>3, EffectOthers, KeptContent, Stutters
<1>4. Page = {} => UNCHANGED Memories
  BY DEF Memories
<1>5. ASSUME NEW p \in Proc, Release(p) PROVE Memory!Next
  BY <1>5, ReleaseMatches DEF Memory!Next
<1>6. ASSUME NEW p \in Proc, NEW c \in Proc, Fork(p, c) PROVE Memory!Next
  BY <1>6, ForkMatches DEF Memory!Next
<1>7. CASE UNCHANGED vars
  BY <1>7 DEF vars, frameVars, Memories, Content, Resident, FrameOf, Restored
<1> QED
  BY <1>1, <1>2, <1>3, <1>4, <1>5, <1>6, <1>7, StepCases DEF Access, AccessFails

LEMMA MemoryInit == Init => Memory!Init
<1> SUFFICES ASSUME Init PROVE Memory!Init
  OBVIOUS
<1>1. \A p \in Proc, v \in Page : Content(p, v) = Zero
  BY DEF Init, Content, Resident, FrameOf, Restored, NoSlot
<1> QED
  BY <1>1 DEF Memory!Init, Memory!Blank, Memories

LEMMA MemoryInvAlways == Canonical /\ ~IoFaults => (Spec => []MemoryInv)
<1> SUFFICES ASSUME Canonical, ~IoFaults PROVE Spec => []MemoryInv
  OBVIOUS
<1>1. Spec => []Inv /\ []StaleSlotHarmless /\ []WithinCapacity
  BY CoherentAlways, StaleSlotsCorrect, CapacityCorrect
<1>2. Inv /\ StaleSlotHarmless /\ WithinCapacity => MemoryInv
  BY DEF MemoryInv
<1> QED
  BY <1>1, <1>2, PTL

-----------------------------------------------------------------------------
(* The theorems. *)

\* With canonical addresses and a swap file that works, each process sees a
\* memory of its own: every call of virtual_memory.c is a step of the private
\* memories or changes none of them.
THEOREM MemoryImplemented == Canonical /\ ~IoFaults => (Spec => ImplementsProcessMemory)
<1> SUFFICES ASSUME Canonical, ~IoFaults PROVE Spec => ImplementsProcessMemory
  OBVIOUS
<1>1. MemoryInv /\ [Next]_vars => [Memory!Next]_Memories
  BY MemoryNext
<1> QED
  BY <1>1, MemoryInit, MemoryInvAlways, PTL
     DEF Spec, Memory!Spec, ImplementsProcessMemory

\* And the step is the one of the call: a write stores its own value in the page
\* it was meant for and loses at most one other, a fork copies from this parent, a
\* release empties the memory of this process only.
THEOREM CallsMatchCorrect == Canonical /\ ~IoFaults => (Spec => CallsMatch)
<1> SUFFICES ASSUME Canonical, ~IoFaults PROVE Spec => CallsMatch
  OBVIOUS
<1>1. ASSUME MemoryInv, NEW p \in Proc, NEW v \in Page, NEW x \in Value, Write(p, v, x)
      PROVE  Memory!Write(p, v, x)
  <2>1. x # NoData /\ x \in Value \union {NoData}
    BY SentinelAssumption
  <2>2. Access(p, v, TRUE, x)
    BY <1>1 DEF Write, Access
  <2>3. ContentAfter(p, v, x) /\ OthersKept(p, v)
    BY <1>1, <2>1, <2>2, AccessEffect
  <2> QED
    BY <2>1, <2>3, AccessMatches
<1>2. MemoryInv /\ [Next]_vars =>
        [/\ \A p \in Proc, v \in Page, x \in Value :
              Write(p, v, x) => Memory!Write(p, v, x)
         /\ \A p \in Proc : Release(p) => Memory!Release(p)
         /\ \A p, c \in Proc : Fork(p, c) => Memory!Fork(p, c)]_vars
  BY <1>1, ReleaseMatches, ForkMatches DEF MemoryInv
<1> QED
  BY <1>2, MemoryInvAlways, PTL DEF Spec, CallsMatch

\* As long as the swap file works a call that returns an error changes what no
\* process reads, even if it has saved pages of several of them.
THEOREM FailedCallsCorrect == Canonical /\ ~IoFaults => (Spec => FailedCallKeepsContents)
<1> SUFFICES ASSUME Canonical, ~IoFaults PROVE Spec => FailedCallKeepsContents
  OBVIOUS
<1>1. MemoryInv /\ [Next]_vars =>
        [(\E m \in Mapping : Content(m[1], m[2])' # Content(m[1], m[2]))
          => ~ \E p \in Proc, v \in Page : AccessFails(p, v)]_vars
  BY FailureEffect DEF Mapping
<1> QED
  BY <1>1, MemoryInvAlways, PTL DEF Spec, FailedCallKeepsContents

-----------------------------------------------------------------------------
(* Failing allocation, without swap.  Until a call runs out of memory the    *)
(* invariants of VirtualMemory hold, and nothing follows it; so each         *)
(* statement is about one step from a coherent memory.                       *)

OomInv == failed \/ MemoryInv

\* Without slots there are none that could be stale.
LEMMA NoStaleSlots == ~HasSwap /\ WithinCapacity => StaleSlotHarmless
BY NoSlots DEF StaleSlotHarmless

LEMMA NoStaleSlotsNext == ~HasSwap /\ WithinCapacity' => StaleSlotHarmless'
<1> SUFFICES ASSUME ~HasSwap PROVE WithinCapacity' => StaleSlotHarmless'
  OBVIOUS
<1>1. WithinCapacity => StaleSlotHarmless
  BY NoStaleSlots
<1> QED
  BY <1>1, PTL

LEMMA NoSwapStart == OomSpec => ~HasSwap
BY PTL DEF OomSpec, OomInit

LEMMA OomInvInit == OomInit => OomInv
<1> SUFFICES ASSUME Init, ~HasSwap PROVE MemoryInv
  BY DEF OomInit, OomInv
<1>1. Inv /\ WithinCapacity
  BY CoherentInit, CapacityInit DEF Bounded
<1> QED
  BY <1>1, NoStaleSlots DEF MemoryInv

LEMMA OomInvNext == Canonical /\ ~HasSwap => (OomInv /\ [OomNext]_oomVars => OomInv')
<1> SUFFICES ASSUME Canonical, ~HasSwap, OomInv, [OomNext]_oomVars, ~failed' PROVE MemoryInv'
  BY DEF OomInv
<1>1. MemoryInv /\ [Next]_vars
  BY DEF OomInv, OomNext, oomVars
<1>2. Inv' /\ Bounded'
  BY <1>1, CoherentNext, CapacityNext DEF MemoryInv, Bounded, Inv
<1>3. WithinCapacity'
  BY <1>2 DEF Bounded
<1>4. StaleSlotHarmless'
  BY <1>3, NoStaleSlotsNext
<1> QED
  BY <1>2, <1>3, <1>4 DEF MemoryInv

LEMMA OomInvAlways == Canonical /\ ~HasSwap => (OomSpec => []OomInv)
<1> SUFFICES ASSUME Canonical, ~HasSwap PROVE OomSpec => []OomInv
  OBVIOUS
<1>1. OomInv /\ [OomNext]_oomVars => OomInv'
  BY OomInvNext
<1> QED
  BY <1>1, OomInvInit, PTL DEF OomSpec

-----------------------------------------------------------------------------
(* The frames that such a call has lost. *)

LEMMA InertWhenCoherent == Inv => LostFramesAreInert
BY DEF Inv, Coherent, OwnersMap, LostFramesAreInert

LEMMA InertAfter == Inv' => LostFramesAreInert'
BY InertWhenCoherent, PTL

\* A call after which every frame in use has a record loses none.
LEMMA InertWhenRecorded ==
  ASSUME \A f \in Frame : Occupied(f)' => cow'[f] # {}
  PROVE  LostFramesAreInert'
BY DEF LostFramesAreInert

\* The victim of an eviction has the only mapping of its frame.
LEMMA VictimAlone ==
  ASSUME Inv, NEW f \in Frame, Evictable(f)
  PROVE  /\ owner[f] \in Proc /\ page[f] \in Page
         /\ FrameOf(owner[f], page[f]) = f
         /\ cow[f] = {<<owner[f], page[f]>>}
         /\ \A q \in Proc, u \in Page :
              tlb[q][u] = f => q = owner[f] /\ u = page[f]
<1>1. <<owner[f], page[f]>> \in cow[f] /\ ~Shared(f)
  BY DEF Evictable
<1>2. owner[f] \in Proc /\ page[f] \in Page /\ FrameOf(owner[f], page[f]) = f
  BY <1>1, RecordedFacts
<1>3. cow[f] = {<<owner[f], page[f]>>}
  BY <1>1 DEF Shared
<1>4. ASSUME NEW q \in Proc, NEW u \in Page, tlb[q][u] = f
      PROVE  q = owner[f] /\ u = page[f]
  <2>1. FrameOf(q, u) = f /\ f # NoFrame
    BY <1>4, FrameFacts DEF Inv, TlbCoherent
  <2>2. <<q, u>> \in cow[f]
    BY <2>1, ResidentFacts
  <2> QED
    BY <1>3, <2>2
<1> QED
  BY <1>2, <1>3, <1>4

LEMMA InertReplaceNotRecorded ==
  ASSUME Inv, Canonical, NEW p \in Proc, NEW v \in Page, ReplaceNotRecorded(p, v)
  PROVE  LostFramesAreInert'
<1>1. FrameOf(p, v) = NoFrame
  BY TranslationIsFrame DEF ReplaceNotRecorded
<1>2. PICK f \in Frame :
        /\ Evictable(f)
        /\ Remapped(f, p, v)
        /\ cow' = [cow EXCEPT ![f] = @ \ {<<owner[f], page[f]>>}]
        /\ loaded' = loaded \ {f}
        /\ owner' = [owner EXCEPT ![f] = p]
        /\ page' = [page EXCEPT ![f] = v]
        /\ tlb' = TlbWithoutVictim(f)
  BY DEF ReplaceNotRecorded, Remapped
<1>3. /\ owner[f] \in Proc /\ page[f] \in Page
      /\ \A q \in Proc, u \in Page :
           tlb[q][u] = f => q = owner[f] /\ u = page[f]
  BY <1>2, VictimAlone
<1>4. \A q \in Proc, u \in Page : FrameOf(q, u)' = f => q = p /\ u = v
  BY <1>1, <1>2, EffectRemap, FrameFacts
<1>5. \A q \in Proc, u \in Page : tlb'[q][u] # f
  <2>1. \A q \in Proc, u \in Page :
          tlb'[q][u] = IF q = owner[f] /\ u = page[f] THEN NoFrame ELSE tlb[q][u]
    BY <1>2, <1>3 DEF TlbWithoutVictim, Inv, TypeOK
  <2> QED
    BY <1>3, <2>1, FrameFacts
<1>6. owner'[f] = p /\ page'[f] = v /\ f \notin loaded'
  BY <1>2 DEF Inv, TypeOK
<1>7. ASSUME NEW h \in Frame, h # f, Occupied(h)'
      PROVE  cow'[h] # {}
  <2>1. Occupied(h) /\ cow'[h] = cow[h]
    BY <1>2, <1>7 DEF Occupied, Inv, TypeOK
  <2> QED
    BY <2>1 DEF Inv, Coherent, OwnersMap
<1> QED
  BY <1>4, <1>5, <1>6, <1>7 DEF LostFramesAreInert

LEMMA InertCopyNotRecorded ==
  ASSUME Inv, Canonical, NEW p \in Proc, NEW v \in Page, CopyNotRecorded(p, v)
  PROVE  LostFramesAreInert'
<1> DEFINE f == FrameOf(p, v)
<1>1. Translation(p, v) = f /\ f # NoFrame /\ f \in Frame
  BY TranslationIsFrame, ResidentFacts DEF CopyNotRecorded
<1>2. PICK g \in Frame :
        /\ FirstFree(g)
        /\ pt' = [pt EXCEPT ![p][PathOf[v]] = g]
        /\ cow' = [cow EXCEPT ![f] = @ \ {<<p, v>>}]
        /\ owner' = [owner EXCEPT ![g] = p]
        /\ page' = [page EXCEPT ![g] = v]
  BY <1>1 DEF CopyNotRecorded
<1>3. /\ ~Occupied(g) /\ cow[g] = {}
      /\ \A q \in Proc, u \in Page : FrameOf(q, u) # g /\ tlb[q][u] # g
  BY <1>2, FreeFacts DEF FirstFree
<1>4. Shared(f) /\ UNCHANGED <<loaded, tlb>>
  BY <1>1 DEF CopyNotRecorded
<1>5. \A q \in Proc, u \in Page :
        FrameOf(q, u)' = IF q = p /\ u = v THEN g ELSE FrameOf(q, u)
  BY <1>2 DEF FrameOf, Canonical, Inv, TypeOK
<1>6. /\ owner'[g] = p /\ page'[g] = v /\ g \notin loaded'
      /\ \A q \in Proc, u \in Page : tlb'[q][u] # g
  BY <1>2, <1>3, <1>4 DEF Inv, TypeOK, Coherent, FramesAccounted
<1>7. ASSUME NEW h \in Frame, h # g, Occupied(h)'
      PROVE  cow'[h] # {}
  <2>1. Occupied(h) /\ cow[h] # {}
    BY <1>2, <1>7 DEF Occupied, Inv, TypeOK, Coherent, OwnersMap
  <2>2. cow'[h] = IF h = f THEN cow[h] \ {<<p, v>>} ELSE cow[h]
    BY <1>2 DEF Inv, TypeOK
  <2> QED
    BY <1>4, <2>1, <2>2 DEF Shared
<1> QED
  BY <1>3, <1>5, <1>6, <1>7 DEF LostFramesAreInert

\* A failed fork only leaves records.
LEMMA ForkLeavesRecords ==
  ASSUME NEW p \in Proc, NEW c \in Proc, TypeOK, ForkFails(p, c)
  PROVE  \A f \in Frame : cow[f] \subseteq cow'[f]
BY DEF ForkFails, RecordsBefore, TypeOK

\* What is left of a release that stops: the frames of no other process, and of
\* their lists nothing but the mappings of p.
LEMMA ReleaseLeavesRecords ==
  ASSUME Inv, NEW p \in Proc, NEW g \in Frame, ReleaseStops(p, g)
  PROVE  \A f \in Frame :
           /\ \A m \in cow[f] : m[1] # p => m \in cow'[f]
           /\ cow'[f] = {} => cow[f] = {} \/ owner'[f] = NoProc
           /\ owner[f] = NoProc => owner'[f] = NoProc
           /\ \A m \in cow[f] : m[1] # p => data'[f] = data[f]
<1> DEFINE done == {f \in Held(p) : f < g}
           freed == {f \in done : cow[f] = {<<p, page[f]>>}}
           inherited == {f \in done \ freed : owner[f] = p}
<1>1. PICK heir \in [inherited -> registered] :
        owner' = [f \in Frame |-> IF f \in freed THEN NoProc
                                  ELSE IF f \in inherited THEN heir[f]
                                  ELSE owner[f]]
  BY DEF ReleaseStops
<1>2. \A f \in Frame :
        /\ cow'[f] = IF f \in done THEN cow[f] \ {<<p, page[f]>>} ELSE cow[f]
        /\ data'[f] = IF f \in freed THEN Zero ELSE data[f]
  BY DEF ReleaseStops
<1>3. \A f \in done : owner[f] # NoProc
  BY DEF Held, Occupied
<1>4. \A f \in freed : f \in done /\ cow[f] = {<<p, page[f]>>}
  OBVIOUS
<1>5. \A f \in Frame : f \notin freed => (f \in done => cow[f] # {<<p, page[f]>>})
  OBVIOUS
<1>6. inherited \subseteq done
  OBVIOUS
<1> HIDE DEF done, freed, inherited
<1> SUFFICES ASSUME NEW f \in Frame
             PROVE  /\ \A m \in cow[f] : m[1] # p => m \in cow'[f]
                    /\ cow'[f] = {} => cow[f] = {} \/ owner'[f] = NoProc
                    /\ owner[f] = NoProc => owner'[f] = NoProc
                    /\ \A m \in cow[f] : m[1] # p => data'[f] = data[f]
  OBVIOUS
<1>7. owner'[f] = IF f \in freed THEN NoProc
                  ELSE IF f \in inherited THEN heir[f] ELSE owner[f]
  BY <1>1
<1>8. \A m \in cow[f] : m[1] # p => m # <<p, page[f]>>
  <2>1. <<p, page[f]>>[1] = p
    OBVIOUS
  <2> QED
    BY <2>1
<1>9. \A m \in cow[f] : m[1] # p => m \in cow'[f]
  BY <1>2, <1>8
<1>10. cow'[f] = {} => cow[f] = {} \/ owner'[f] = NoProc
  BY <1>2, <1>5, <1>7, ZenonT(30)
<1>11. owner[f] = NoProc => owner'[f] = NoProc
  BY <1>3, <1>6, <1>7
<1>12. ASSUME NEW m \in cow[f], m[1] # p PROVE data'[f] = data[f]
  <2>1. cow[f] # {<<p, page[f]>>}
    BY <1>8, <1>12
  <2>2. f \notin freed
    BY <1>4, <2>1
  <2> QED
    BY <1>2, <2>2
<1> QED
  BY <1>9, <1>10, <1>11, <1>12

LEMMA InertReleaseStops ==
  ASSUME Inv, NEW p \in Proc, NEW g \in Frame, ReleaseStops(p, g)
  PROVE  LostFramesAreInert'
<1>1. \A f \in Frame : /\ cow'[f] = {} => cow[f] = {} \/ owner'[f] = NoProc
                       /\ owner[f] = NoProc => owner'[f] = NoProc
  BY ReleaseLeavesRecords
<1>2. \A f \in Frame : owner[f] # NoProc => cow[f] # {}
  BY DEF Occupied, Inv, Coherent, OwnersMap
<1> QED
  BY <1>1, <1>2, InertWhenRecorded DEF Occupied

LEMMA InertNext ==
  ASSUME Inv, Canonical, NEW p \in Proc, OutOfMemory(p)
  PROVE  LostFramesAreInert'
<1>1. ASSUME NEW v \in Page,
             LoadUndone(p, v) \/ ReplaceNotMapped(p, v) \/ ReplaceNotUnmapped(p, v)
      PROVE  LostFramesAreInert'
  <2>1. UNCHANGED <<owner, cow>>
    BY <1>1 DEF LoadUndone, ReplaceNotMapped, ReplaceNotUnmapped, frameVars
  <2> QED
    BY <2>1, InertWhenRecorded DEF Occupied, Inv, Coherent, OwnersMap
<1>2. ASSUME NEW c \in Proc, ForkFails(p, c)
      PROVE  LostFramesAreInert'
  <2>1. owner' = owner
    BY <1>2 DEF ForkFails, frameVars
  <2>2. \A f \in Frame : cow[f] \subseteq cow'[f]
    BY <1>2, ForkLeavesRecords DEF Inv
  <2> QED
    BY <2>1, <2>2, InertWhenRecorded DEF Occupied, Inv, Coherent, OwnersMap
<1> QED
  BY <1>1, <1>2, InertReplaceNotRecorded, InertCopyNotRecorded, InertReleaseStops
     DEF OutOfMemory

-----------------------------------------------------------------------------
(* The pages of the other processes. *)

\* Pages that are kept, with their records, are untouched.
LEMMA KeptUntouched ==
  ASSUME Inv, NEW q \in Proc, NEW u \in Page, Kept(q, u),
         FrameOf(q, u) # NoFrame => <<q, u>> \in cow'[FrameOf(q, u)]
  PROVE  Untouched(q, u)
<1>1. Content(q, u)' = Content(q, u)
  BY KeptContent
<1>2. FrameOf(q, u) # NoFrame => <<q, u>> \in cow[FrameOf(q, u)]
  BY ResidentFacts
<1> QED
  BY <1>1, <1>2 DEF Kept, Untouched, Resident

LEMMA ContainedReplaceNotRecorded ==
  ASSUME Inv, Canonical, NEW p \in Proc, NEW v \in Page, ReplaceNotRecorded(p, v)
  PROVE  \E o \in Proc, old \in Page :
           /\ Evicted(o, old)
           /\ \A q \in Proc, u \in Page :
                <<q, u>> # <<p, v>> /\ <<q, u>> # <<o, old>> =>
                  Kept(q, u) /\ Untouched(q, u)
           /\ FrameOf(o, old)' = NoFrame /\ FrameOf(p, v) = NoFrame
           /\ FrameOf(p, v)' # NoFrame /\ data'[FrameOf(p, v)'] = Zero
           /\ swap' = swap
<1>1. FrameOf(p, v) = NoFrame
  BY TranslationIsFrame DEF ReplaceNotRecorded
<1>2. PICK f \in Frame :
        /\ Evictable(f)
        /\ Remapped(f, p, v)
        /\ cow' = [cow EXCEPT ![f] = @ \ {<<owner[f], page[f]>>}]
        /\ dirty' = [dirty EXCEPT ![f] = FALSE]
        /\ data' = [data EXCEPT ![f] = Zero]
  BY DEF ReplaceNotRecorded, Remapped
<1>3. /\ owner[f] \in Proc /\ page[f] \in Page
      /\ FrameOf(owner[f], page[f]) = f /\ f # NoFrame
      /\ \A q \in Proc, u \in Page :
           /\ FrameOf(q, u)' = IF q = p /\ u = v THEN f
                               ELSE IF q = owner[f] /\ u = page[f] THEN NoFrame
                               ELSE FrameOf(q, u)
           /\ FrameOf(q, u) = f => q = owner[f] /\ u = page[f]
  BY <1>1, <1>2, EffectRemap, FrameFacts
<1>4. /\ \A h \in Frame : h # f =>
           cow'[h] = cow[h] /\ dirty'[h] = dirty[h] /\ data'[h] = data[h]
      /\ cow'[f] = cow[f] \ {<<owner[f], page[f]>>}
      /\ data'[f] = Zero
  BY <1>2 DEF Inv, TypeOK
<1>5. swap' = swap
  BY DEF ReplaceNotRecorded
<1>6. PICK o \in Proc, old \in Page : o = owner[f] /\ old = page[f]
  BY <1>3
<1>7. /\ FrameOf(o, old) = f /\ FrameOf(o, old)' = NoFrame
      /\ <<o, old>> # <<p, v>>
  BY <1>1, <1>3, <1>6
<1>8. Evicted(o, old)
  BY <1>3, <1>4, <1>6, <1>7 DEF Evicted, Resident
<1>9. ASSUME NEW q \in Proc, NEW u \in Page,
             <<q, u>> # <<p, v>>, <<q, u>> # <<o, old>>
      PROVE  Kept(q, u) /\ Untouched(q, u)
  <2>1. FrameOf(q, u)' = FrameOf(q, u) /\ FrameOf(q, u) # f
    BY <1>3, <1>6, <1>9
  <2>2. FrameOf(q, u) # NoFrame =>
          FrameOf(q, u) \in Frame /\ <<q, u>> \in cow[FrameOf(q, u)]
    BY ResidentFacts
  <2>3. Kept(q, u)
    BY <1>4, <1>5, <2>1, <2>2 DEF Kept
  <2> QED
    BY <1>4, <2>1, <2>2, <2>3, KeptUntouched
<1>10. FrameOf(p, v)' = f
  BY <1>3
<1> QED
  BY <1>1, <1>3, <1>4, <1>5, <1>7, <1>8, <1>9, <1>10

LEMMA ContainedCopyNotRecorded ==
  ASSUME Inv, Canonical, NEW p \in Proc, NEW v \in Page, CopyNotRecorded(p, v)
  PROVE  /\ \A q \in Proc, u \in Page :
              <<q, u>> # <<p, v>> => Kept(q, u) /\ Untouched(q, u)
         /\ Content(p, v)' = Content(p, v)
<1> DEFINE f == FrameOf(p, v)
<1>1. Translation(p, v) = f /\ f # NoFrame /\ f \in Frame
  BY TranslationIsFrame, ResidentFacts DEF CopyNotRecorded
<1>2. PICK g \in Frame :
        /\ FirstFree(g)
        /\ pt' = [pt EXCEPT ![p][PathOf[v]] = g]
        /\ cow' = [cow EXCEPT ![f] = @ \ {<<p, v>>}]
        /\ data' = [data EXCEPT ![g] = data[f]]
  BY <1>1 DEF CopyNotRecorded
<1>3. dirty' = dirty /\ swap' = swap
  BY <1>1 DEF CopyNotRecorded
<1>4. \A q \in Proc, u \in Page : FrameOf(q, u) # g
  BY <1>2, FreeFacts DEF FirstFree
<1>5. \A q \in Proc, u \in Page :
        FrameOf(q, u)' = IF q = p /\ u = v THEN g ELSE FrameOf(q, u)
  BY <1>2 DEF FrameOf, Canonical, Inv, TypeOK
<1>6. /\ \A h \in Frame : data'[h] = IF h = g THEN data[f] ELSE data[h]
      /\ \A h \in Frame : \A m \in cow[h] : m # <<p, v>> => m \in cow'[h]
  BY <1>1, <1>2 DEF Inv, TypeOK
<1>7. ASSUME NEW q \in Proc, NEW u \in Page, <<q, u>> # <<p, v>>
      PROVE  Kept(q, u) /\ Untouched(q, u)
  <2>1. FrameOf(q, u)' = FrameOf(q, u) /\ FrameOf(q, u) # g
    BY <1>4, <1>5, <1>7
  <2>2. FrameOf(q, u) # NoFrame =>
          FrameOf(q, u) \in Frame /\ <<q, u>> \in cow[FrameOf(q, u)]
    BY ResidentFacts
  <2>3. Kept(q, u)
    BY <1>3, <1>6, <2>1, <2>2 DEF Kept
  <2> QED
    BY <1>6, <1>7, <2>1, <2>2, <2>3, KeptUntouched
<1>8. FrameOf(p, v)' = g /\ g # NoFrame
  BY <1>5, FrameFacts
<1> QED
  BY <1>1, <1>6, <1>7, <1>8 DEF Content, Resident

LEMMA ContainedRelease ==
  ASSUME Inv, WithinCapacity, ~HasSwap, NEW p \in Proc, NEW g \in Frame, ReleaseStops(p, g)
  PROVE  /\ \A q \in Proc, u \in Page :
              q # p => Content(q, u)' = Content(q, u) /\ Untouched(q, u)
         /\ \A u \in Page : Content(p, u)' = Content(p, u) \/ Content(p, u)' = Zero
<1> DEFINE done == {f \in Held(p) : f < g}
           freed == {f \in done : cow[f] = {<<p, page[f]>>}}
<1>1. /\ \A f \in Frame : data'[f] = IF f \in freed THEN Zero ELSE data[f]
      /\ swap' = swap
  BY DEF ReleaseStops
<1>2. \A q \in Proc, u \in Page :
        FrameOf(q, u)' = IF q = p /\ \E f \in done : PathOf[page[f]] = PathOf[u]
                           THEN NoFrame ELSE FrameOf(q, u)
  BY DEF ReleaseStops, FrameOf, Inv, TypeOK
<1>3. ASSUME NEW q \in Proc, NEW u \in Page, q # p
      PROVE  Content(q, u)' = Content(q, u) /\ Untouched(q, u)
  <2>1. FrameOf(q, u)' = FrameOf(q, u)
    BY <1>2, <1>3
  <2>2. ASSUME FrameOf(q, u) # NoFrame
        PROVE  /\ FrameOf(q, u) \in Frame
               /\ <<q, u>> \in cow[FrameOf(q, u)] /\ <<q, u>> \in cow'[FrameOf(q, u)]
               /\ data'[FrameOf(q, u)] = data[FrameOf(q, u)]
    <3>1. FrameOf(q, u) \in Frame /\ <<q, u>> \in cow[FrameOf(q, u)] /\ <<q, u>>[1] # p
      BY <1>3, <2>2, ResidentFacts
    <3> QED
      BY <3>1, ReleaseLeavesRecords
  <2>3. Content(q, u)' = Content(q, u)
    BY <1>1, <2>1, <2>2 DEF Content, Resident, Restored
  <2> QED
    BY <2>1, <2>2, <2>3 DEF Untouched, Resident
<1>4. ASSUME NEW u \in Page
      PROVE  Content(p, u)' = Content(p, u) \/ Content(p, u)' = Zero
  <2>1. CASE FrameOf(p, u)' = NoFrame
    <3>1. swap[p][u] = NoData
      BY NoSlots
    <3> QED
      BY <1>1, <2>1, <3>1 DEF Content, Resident, Restored
  <2>2. CASE FrameOf(p, u)' # NoFrame
    <3> DEFINE h == FrameOf(p, u)
    <3>1. FrameOf(p, u)' = h /\ h # NoFrame /\ ~ \E f \in done : PathOf[page[f]] = PathOf[u]
      BY <1>2, <2>2
    <3>2. h \in Frame /\ page[h] = u
      BY <3>1, ResidentFacts
    <3>3. data'[h] = data[h]
      BY <1>1, <3>1, <3>2
    <3> QED
      BY <3>1, <3>3 DEF Content, Resident
  <2> QED
    BY <2>1, <2>2
<1> QED
  BY <1>3, <1>4

\* What a process no page of which is touched reads.
LEMMA ContainedUnchanged ==
  ASSUME Inv, NEW p \in Proc,
         \/ \E v \in Page : \/ LoadUndone(p, v) \/ ReplaceNotMapped(p, v)
                            \/ ReplaceNotUnmapped(p, v)
         \/ \E c \in Proc : ForkFails(p, c)
  PROVE  \A q \in Proc, u \in Page :
           Content(q, u)' = Content(q, u) /\ Untouched(q, u)
<1>1. UNCHANGED <<pt, data, dirty, swap>>
  BY DEF LoadUndone, ReplaceNotMapped, ReplaceNotUnmapped, ForkFails, frameVars
<1>2. \A f \in Frame : cow[f] \subseteq cow'[f]
  BY ForkLeavesRecords DEF LoadUndone, ReplaceNotMapped, ReplaceNotUnmapped, Inv
<1> SUFFICES ASSUME NEW q \in Proc, NEW u \in Page
             PROVE  Content(q, u)' = Content(q, u) /\ Untouched(q, u)
  OBVIOUS
<1>3. Kept(q, u)
  BY <1>1 DEF Kept, FrameOf
<1>4. FrameOf(q, u) # NoFrame => <<q, u>> \in cow'[FrameOf(q, u)]
  BY <1>2, ResidentFacts
<1> QED
  BY <1>3, <1>4, KeptContent, KeptUntouched

\* Of the other processes a call that runs out of memory touches one page at
\* most, and only one that it has evicted.
LEMMA ContainedNext ==
  ASSUME Inv, WithinCapacity, ~HasSwap, Canonical, NEW p \in Proc, OutOfMemory(p),
         NEW m \in Mapping, NEW n \in Mapping,
         m[1] # p, ~Untouched(m[1], m[2])
  PROVE  /\ Evicted(m[1], m[2])
         /\ n[1] # p /\ ~Untouched(n[1], n[2]) => n = m
<1>1. /\ m[1] \in Proc /\ m[2] \in Page /\ m = <<m[1], m[2]>>
      /\ n[1] \in Proc /\ n[2] \in Page /\ n = <<n[1], n[2]>>
  BY DEF Mapping
<1>2. PICK v \in Page : ReplaceNotRecorded(p, v)
  <2>1. \A v \in Page : ~CopyNotRecorded(p, v)
    BY <1>1, ContainedCopyNotRecorded
  <2>2. \A g \in Frame : ~ReleaseStops(p, g)
    BY <1>1, ContainedRelease
  <2> QED
    BY <1>1, <2>1, <2>2, ContainedUnchanged DEF OutOfMemory
<1>3. PICK o \in Proc, old \in Page :
        /\ Evicted(o, old)
        /\ \A q \in Proc, u \in Page :
             <<q, u>> # <<p, v>> /\ <<q, u>> # <<o, old>> => Untouched(q, u)
  BY <1>2, ContainedReplaceNotRecorded
<1>4. <<m[1], m[2]>> = <<o, old>>
  BY <1>1, <1>3
<1>5. n[1] # p /\ ~Untouched(n[1], n[2]) => <<n[1], n[2]>> = <<o, old>>
  BY <1>1, <1>3
<1>6. Evicted(m[1], m[2])
  <2>1. m[1] = o /\ m[2] = old
    BY <1>4
  <2> QED
    BY <1>3, <2>1
<1> QED
  BY <1>1, <1>4, <1>5, <1>6

-----------------------------------------------------------------------------
(* The private memories, when a call runs out of memory. *)

\* A page that was evicted from a memory without swap reads as zero.
LEMMA EvictedReadsZero ==
  ASSUME WithinCapacity, ~HasSwap, NEW q \in Proc, NEW u \in Page,
         FrameOf(q, u)' = NoFrame, swap' = swap
  PROVE  Content(q, u)' = Zero
<1>1. swap[q][u] = NoData
  BY NoSlots
<1> QED
  BY <1>1 DEF Content, Resident, Restored

LEMMA PromiseReplaceNotRecorded ==
  ASSUME Inv, WithinCapacity, ~HasSwap, Canonical,
         NEW p \in Proc, NEW v \in Page, ReplaceNotRecorded(p, v)
  PROVE  Memory!Read
<1>1. PICK o \in Proc, old \in Page :
        /\ \A q \in Proc, u \in Page :
             <<q, u>> # <<p, v>> /\ <<q, u>> # <<o, old>> => Kept(q, u)
        /\ FrameOf(o, old)' = NoFrame /\ FrameOf(p, v) = NoFrame
        /\ FrameOf(p, v)' # NoFrame /\ data'[FrameOf(p, v)'] = Zero
        /\ swap' = swap
  BY ContainedReplaceNotRecorded
<1>2. Content(o, old)' = Zero
  BY <1>1, EvictedReadsZero
<1>3. Content(p, v) = Zero
  <2>1. swap[p][v] = NoData
    BY NoSlots
  <2> QED
    BY <1>1, <2>1 DEF Content, Resident, Restored
<1>4. ContentAfter(p, v, NoData)
  BY <1>1, <1>3 DEF ContentAfter, Content, Resident
<1>5. OthersKept(p, v)
  BY <1>1, <1>2, KeptContent DEF OthersKept
<1> QED
  BY <1>4, <1>5, AccessMatches

LEMMA PromiseRelease ==
  ASSUME Inv, WithinCapacity, ~HasSwap, NEW p \in Proc, NEW g \in Frame, ReleaseStops(p, g)
  PROVE  EmptiedInPart(p)
<1> DEFINE S == {u \in Page : Content(p, u)' # Content(p, u)}
<1>1. /\ Memories = [q \in Proc |-> [u \in Page |-> Content(q, u)]]
      /\ Memories' = [q \in Proc |-> [u \in Page |-> Content(q, u)']]
  BY DEF Memories
<1>2. \A q \in Proc, u \in Page :
        Content(q, u)' = IF q = p /\ u \in S THEN Zero ELSE Content(q, u)
  BY ContainedRelease
<1>3. S \in SUBSET Page
  OBVIOUS
<1> HIDE DEF S
<1>4. Memories' = [Memories EXCEPT ![p] =
                     [u \in Page |-> IF u \in S THEN Zero ELSE Memories[p][u]]]
  <2>1. Memories' = [q \in Proc |-> [u \in Page |->
                       IF q = p /\ u \in S THEN Zero ELSE Content(q, u)]]
    BY <1>1, <1>2
  <2>2. [Memories EXCEPT ![p] =
           [u \in Page |-> IF u \in S THEN Zero ELSE Memories[p][u]]] =
        [q \in Proc |-> IF q = p
           THEN [u \in Page |-> IF u \in S THEN Zero ELSE Content(p, u)]
           ELSE [u \in Page |-> Content(q, u)]]
    BY <1>1
  <2>3. \A q \in Proc :
          [u \in Page |-> IF q = p /\ u \in S THEN Zero ELSE Content(q, u)] =
          IF q = p THEN [u \in Page |-> IF u \in S THEN Zero ELSE Content(p, u)]
                   ELSE [u \in Page |-> Content(q, u)]
    OBVIOUS
  <2> QED
    BY <2>1, <2>2, <2>3
<1> QED
  BY <1>3, <1>4 DEF EmptiedInPart

LEMMA PromiseNext ==
  ASSUME MemoryInv, Canonical, ~HasSwap, NEW p \in Proc, OutOfMemory(p)
  PROVE  \/ [Memory!Next]_Memories
         \/ EmptiedInPart(p) /\ \E g \in Frame : ReleaseStops(p, g)
<1> USE DEF MemoryInv
<1>1. ASSUME NEW v \in Page, ReplaceNotRecorded(p, v) PROVE Memory!Next
  BY <1>1, PromiseReplaceNotRecorded DEF Memory!Next
<1>2. ASSUME NEW v \in Page, CopyNotRecorded(p, v) PROVE UNCHANGED Memories
  <2>1. /\ \A q \in Proc, u \in Page : <<q, u>> # <<p, v>> => Kept(q, u)
        /\ Content(p, v)' = Content(p, v)
    BY <1>2, ContainedCopyNotRecorded
  <2>2. \A q \in Proc, u \in Page : Content(q, u)' = Content(q, u)
    BY <2>1, KeptContent
  <2> QED
    BY <2>2, Stutters
<1>3. ASSUME \/ \E v \in Page : \/ LoadUndone(p, v) \/ ReplaceNotMapped(p, v)
                               \/ ReplaceNotUnmapped(p, v)
             \/ \E c \in Proc : ForkFails(p, c)
      PROVE  UNCHANGED Memories
  BY <1>3, ContainedUnchanged, Stutters
<1> QED
  BY <1>1, <1>2, <1>3, PromiseRelease DEF OutOfMemory

-----------------------------------------------------------------------------
(* The theorems about failing allocation. *)

\* Frames that lost their record are out of the reach of every process and of
\* the policy, whichever call ran out of memory.
THEOREM LostFramesCorrect == Canonical => (OomSpec => []LostFramesAreInert)
<1> SUFFICES ASSUME Canonical, ~HasSwap PROVE OomSpec => []LostFramesAreInert
  BY NoSwapStart
<1> DEFINE IInv == OomInv /\ LostFramesAreInert
<1>1. OomInit => IInv
  BY OomInvInit, InertWhenCoherent DEF OomInit, OomInv, MemoryInv, Init, Occupied,
     LostFramesAreInert
<1>2. IInv /\ [OomNext]_oomVars => IInv'
  <2> SUFFICES ASSUME IInv, [OomNext]_oomVars PROVE IInv'
    OBVIOUS
  <2>1. OomInv'
    BY OomInvNext
  <2>2. CASE UNCHANGED oomVars
    BY <2>1, <2>2 DEF oomVars, vars, frameVars, LostFramesAreInert, Occupied, FrameOf
  <2>3. CASE ~failed /\ Next /\ failed' = FALSE
    <3>1. Inv'
      BY <2>1, <2>3 DEF OomInv, MemoryInv
    <3> QED
      BY <2>1, <3>1, InertAfter
  <2>4. ASSUME ~failed, NEW p \in Proc, OutOfMemory(p) PROVE LostFramesAreInert'
    BY <2>4, InertNext DEF OomInv, MemoryInv
  <2> QED
    BY <2>1, <2>2, <2>3, <2>4 DEF OomNext
<1> QED
  BY <1>1, <1>2, PTL DEF OomSpec

\* A call that runs out of memory touches at most one page of the other
\* processes, and only one it had evicted.
THEOREM ContainedCorrect == Canonical => (OomSpec => OutOfMemoryIsContained)
<1> SUFFICES ASSUME Canonical, ~HasSwap PROVE OomSpec => OutOfMemoryIsContained
  BY NoSwapStart
<1>1. OomInv /\ [OomNext]_oomVars =>
        [\A p \in Proc :
           failed' /\ OutOfMemory(p) =>
             \A m, n \in Mapping :
               m[1] # p /\ ~Untouched(m[1], m[2]) =>
                 /\ Evicted(m[1], m[2])
                 /\ n[1] # p /\ ~Untouched(n[1], n[2]) => n = m]_oomVars
  BY ContainedNext DEF OomNext, OomInv, MemoryInv
<1> QED
  BY <1>1, OomInvAlways, PTL DEF OomSpec, OutOfMemoryIsContained

\* Up to and with the first call that runs out of memory, each process has a
\* memory of its own, except that a release may have emptied only a part of it.
THEOREM PromiseKept == Canonical => (OomSpec => OutOfMemoryKeepsPromise)
<1> SUFFICES ASSUME Canonical, ~HasSwap PROVE OomSpec => OutOfMemoryKeepsPromise
  BY NoSwapStart
<1>1. OomInit => Memory!Init
  BY MemoryInit DEF OomInit
<1>2. OomInv /\ [OomNext]_oomVars =>
        [\/ Memory!Next
         \/ \E p \in Proc :
              EmptiedInPart(p) /\ \E g \in Frame : ReleaseStops(p, g)]_Memories
  <2> SUFFICES ASSUME OomInv, [OomNext]_oomVars
               PROVE  \/ [Memory!Next]_Memories
                      \/ \E p \in Proc :
                           EmptiedInPart(p) /\ \E g \in Frame : ReleaseStops(p, g)
    OBVIOUS
  <2>1. CASE UNCHANGED oomVars
    BY <2>1 DEF oomVars, vars, frameVars, Memories, Content, Resident, FrameOf, Restored
  <2>2. CASE ~failed /\ Next
    BY <2>2, MemoryNext DEF OomInv
  <2>3. ASSUME ~failed, NEW p \in Proc, OutOfMemory(p)
        PROVE  \/ [Memory!Next]_Memories
               \/ EmptiedInPart(p) /\ \E g \in Frame : ReleaseStops(p, g)
    BY <2>3, PromiseNext DEF OomInv
  <2> QED
    BY <2>1, <2>2, <2>3 DEF OomNext
<1> QED
  BY <1>1, <1>2, OomInvAlways, PTL DEF OomSpec, OutOfMemoryKeepsPromise

=============================================================================

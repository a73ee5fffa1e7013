--------------------------- MODULE VirtualMemory ---------------------------
(***************************************************************************)
(* The integration layer of the simulator, src/virtual_memory.c: demand    *)
(* paging over a page table per process, a TLB, a set of physical frames,  *)
(* a replacement policy, copy-on-write sharing and an optional swap area.  *)
(*                                                                         *)
(* The program is sequential, so one call of the public interface is one   *)
(* action.  The interface is                                               *)
(*    virtual_memory_access / _read_byte / _write_byte                     *)
(*    virtual_memory_fork_process, virtual_memory_release_process          *)
(*    process_create, process_destroy                                      *)
(* and a call that returns an error is an action too: what a failed call   *)
(* leaves behind matters as much as what a successful one does.            *)
(*                                                                         *)
(* Abstractions.  The content of a page is one byte of it.  A process is   *)
(* its pid: the callers never give the same pid to two live processes.     *)
(* The replacement policy offers any loaded frame as a victim, the TLB     *)
(* replaces any entry when it is full, and the heir of a shared frame is   *)
(* any process that still maps it; malloc does not fail.                   *)
(***************************************************************************)
EXTENDS Integers, FiniteSets

CONSTANTS
  Proc,         \* processes, named by their pids
  Page,         \* the virtual page numbers in use
  Path,         \* the paths of the four-level trie
  PathOf,       \* the path that the trie gives to a page number
  FrameCount,   \* number of physical frames
  TlbEntries,   \* capacity of the TLB
  SlotCount,    \* swap slots; 0 when the memory was created without swap
  Value,        \* contents of a page
  Zero,         \* the content of a page nobody has written
  IoFaults,     \* may a read or a write of the swap file fail?
  NoProc, NoPage, NoData

Frame == 0 .. FrameCount - 1
NoFrame == -1
HasSwap == SlotCount > 0
Mapping == Proc \X Page

ASSUME SizesAssumption ==
  /\ FrameCount \in Nat \ {0}
  /\ TlbEntries \in Nat \ {0}
  /\ SlotCount \in Nat
  /\ IoFaults \in BOOLEAN

ASSUME FiniteAssumption == IsFiniteSet(Proc) /\ IsFiniteSet(Page)

ASSUME PathAssumption == PathOf \in [Page -> Path]

ASSUME SentinelAssumption ==
  /\ Zero \in Value
  /\ NoProc \notin Proc /\ NoPage \notin Page /\ NoData \notin Value

(***************************************************************************)
(* The trie is indexed with 36 of the 52 bits of a page number, the other  *)
(* structures with all of them.  An address is canonical when no other     *)
(* page in use has its path.                                               *)
(***************************************************************************)
Canonical == \A u, v \in Page : PathOf[u] = PathOf[v] => u = v

\* The actions that walk the lists of shared frames are only faithful to the
\* code for canonical addresses; a single process shares nothing.
ASSUME AliasAssumption == Canonical \/ Cardinality(Proc) = 1

VARIABLES
  live,         \* processes created and not yet destroyed
  registered,   \* memory->processes
  pt,           \* pt[p][a]: the frame at path a of p's table
  owner,        \* frames[f].owner_process, NoProc in a free frame
  page,         \* frames[f].virtual_page
  dirty,        \* frames[f].dirty
  data,         \* content of each frame
  freeCount,    \* free_frame_count
  cow,          \* cow[f]: the mappings the COW manager records for f
  loaded,       \* the frames the replacement policy knows
  tlb,          \* tlb[p][v]: cached translation
  swap          \* swap[p][v]: content of the slot of p's page v

frameVars == <<owner, page, dirty, data, freeCount>>
vars == <<live, registered, pt, frameVars, cow, loaded, tlb, swap>>

NoTranslation == [v \in Page |-> NoFrame]
NoSlot == [v \in Page |-> NoData]

Init ==
  /\ live = {} /\ registered = {}
  /\ pt = [p \in Proc |-> [a \in Path |-> NoFrame]]
  /\ owner = [f \in Frame |-> NoProc]
  /\ page = [f \in Frame |-> NoPage]
  /\ dirty = [f \in Frame |-> FALSE]
  /\ data = [f \in Frame |-> Zero]
  /\ freeCount = FrameCount
  /\ cow = [f \in Frame |-> {}]
  /\ loaded = {}
  /\ tlb = [p \in Proc |-> NoTranslation]
  /\ swap = [p \in Proc |-> NoSlot]

-----------------------------------------------------------------------------
(* The components, as far as the integration layer sees them. *)

Occupied(f) == owner[f] # NoProc

\* Mutant: no frame is ever seen as shared.
SharedNever(f) == FALSE

\* cow_manager_mapping_count(f) > 1
Shared(f) == \E m, n \in cow[f] : m # n

\* The frame the scan of physical_memory_allocate_frame finds first.
FirstFree(f) ==
  /\ freeCount > 0
  /\ ~Occupied(f)
  /\ \A g \in Frame : g < f => Occupied(g)

MemoryFull == freeCount = 0

\* What a TLB lookup, or the page walk after a miss, gives for page v of p.
Translation(p, v) ==
  IF tlb[p][v] # NoFrame THEN tlb[p][v] ELSE pt[p][PathOf[v]]

TlbUsed(t) == {m \in Mapping : t[m[1]][m[2]] # NoFrame}

\* The tables that t may become when the translation of page v is inserted.
TlbInsert(t, p, v, f) ==
  IF t[p][v] # NoFrame \/ Cardinality(TlbUsed(t)) < TlbEntries
    THEN {[t EXCEPT ![p][v] = f]}
    ELSE {[t EXCEPT ![m[1]][m[2]] = NoFrame, ![p][v] = f] : m \in TlbUsed(t)}

UsedSlots(s) == {m \in Mapping : s[m[1]][m[2]] # NoData}
FreeSlots == SlotCount - Cardinality(UsedSlots(swap))

\* Mutant: one slot too many.
SwapRoomOffByOne(set) == Cardinality(set \ UsedSlots(swap)) <= FreeSlots + 1

\* swap_write_page finds a slot for every mapping of set.
SwapRoom(set) == Cardinality(set \ UsedSlots(swap)) <= FreeSlots

\* The swap area after content x is written for the mappings of set.
Saved(set, x) ==
  [p \in Proc |-> [v \in Page |-> IF <<p, v>> \in set THEN x ELSE swap[p][v]]]

\* Mutant: the translations of a released process stay.
TlbKeepsProcess(p) == tlb

\* tlb_invalidate_process and swap_remove_process.
TlbWithoutProcess(p) == [tlb EXCEPT ![p] = NoTranslation]

\* Mutant: the slots of a released process stay.
SwapKeepsProcess(p) == swap

SwapWithoutProcess(p) == [swap EXCEPT ![p] = NoSlot]

\* Mutant: the access is not recorded as a write.
MarkAccessAsRead(bits, f, w) == bits

\* The dirty bits after physical_memory_mark_access.
MarkAccess(bits, f, w) == [bits EXCEPT ![f] = @ \/ w]

\* Mutant: the slot is read unseen.
RestoredUnseen(s, p, v) == s[p][v]

\* What virtual_memory_restore_page leaves in the frame of p's page v.
Restored(s, p, v) == IF s[p][v] # NoData THEN s[p][v] ELSE Zero

\* Mutant: the frame is looked up before the access.
StoredEarly(contents, table, p, v, x) ==
  IF x = NoData \/ pt[p][PathOf[v]] = NoFrame
    THEN contents
    ELSE [contents EXCEPT ![pt[p][PathOf[v]]] = x]

\* The store of virtual_memory_write_byte, through the page table as the
\* access left it; x = NoData when the caller only asked for the access.
Stored(contents, table, p, v, x) ==
  IF x = NoData \/ table[p][PathOf[v]] = NoFrame
    THEN contents
    ELSE [contents EXCEPT ![table[p][PathOf[v]]] = x]

\* The processes virtual_memory_find_frame_user may return for frame f.
FrameUsers(f, v, excluded) ==
  {q \in registered \ {excluded} :
      <<q, v>> \in cow[f] /\ pt[q][PathOf[v]] = f}

\* virtual_memory_reassign_frame_owner: the header changes hands, contents and
\* bits of the frame are carried over.
Reassigned(owners, f, q) == [owners EXCEPT ![f] = q]

\* An access of p registers p first, whatever becomes of it.
Call(p) == p \in live /\ registered' = registered \union {p}

-----------------------------------------------------------------------------
(* virtual_memory_access, followed by the store of a byte in write_byte.   *)
(* w: is it a write;  x: the byte stored, or NoData.                       *)

\* TLB hit, or page walk to a present entry, with nothing to copy.
AccessResident(p, v, w, x) ==
  LET f == Translation(p, v)
  IN  /\ f # NoFrame
      /\ f \in loaded
      /\ w => ~Shared(f)
      /\ Call(p)
      /\ tlb' \in TlbInsert(tlb, p, v, f)
      /\ dirty' = MarkAccess(dirty, f, w)
      /\ data' = Stored(data, pt, p, v, x)
      /\ UNCHANGED <<live, pt, owner, page, freeCount, cow, loaded, swap>>

\* Write to a shared page while a frame is free: the writer gets a copy.
CowCopy(p, v, x) ==
  LET f == Translation(p, v)
  IN  /\ f # NoFrame
      /\ Shared(f)
      /\ \E g \in Frame :
           /\ FirstFree(g)
           /\ pt' = [pt EXCEPT ![p][PathOf[v]] = g]
           /\ cow' = [cow EXCEPT ![f] = @ \ {<<p, v>>},
                                 ![g] = @ \union {<<p, v>>}]
           /\ loaded' = loaded \union {g}
           /\ IF owner[f] = p
                THEN \E q \in FrameUsers(f, v, p) :
                       owner' = Reassigned([owner EXCEPT ![g] = p], f, q)
                ELSE owner' = [owner EXCEPT ![g] = p]
           /\ page' = [page EXCEPT ![g] = v,
                                   ![f] = IF owner[f] = p THEN v ELSE @]
           /\ tlb' \in TlbInsert(tlb, p, v, g)
           /\ dirty' = MarkAccess(dirty, g, TRUE)
           /\ data' = Stored([data EXCEPT ![g] = data[f]], pt', p, v, x)
      /\ freeCount' = freeCount - 1
      /\ Call(p)
      /\ UNCHANGED <<live, swap>>

\* The other mappings of a shared frame, which lose it to the writer.
Readers(f, p, v) == cow[f] \ {<<p, v>>}

\* Write to a shared page with no frame free: the readers go to swap and the
\* writer keeps the frame.
CowTakeOver(p, v, x) ==
  LET f == Translation(p, v)
      R == Readers(f, p, v)
  IN  /\ f # NoFrame
      /\ Shared(f)
      /\ MemoryFull
      /\ HasSwap
      /\ SwapRoom(R)
      /\ swap' = Saved(R, data[f])
      /\ pt' = [q \in Proc |-> [a \in Path |->
                  IF \E m \in R : m[1] = q /\ PathOf[m[2]] = a
                    THEN NoFrame ELSE pt[q][a]]]
      /\ cow' = [cow EXCEPT ![f] = @ \ R]
      /\ tlb' \in TlbInsert([q \in Proc |-> [u \in Page |->
                               IF <<q, u>> \in R THEN NoFrame ELSE tlb[q][u]]],
                            p, v, f)
      /\ owner' = Reassigned(owner, f, p)
      /\ page' = [page EXCEPT ![f] = IF owner[f] # p THEN v ELSE @]
      /\ dirty' = MarkAccess(dirty, f, TRUE)
      /\ data' = Stored(data, pt', p, v, x)
      /\ Call(p)
      /\ UNCHANGED <<live, freeCount, loaded>>

\* The same write when the readers cannot all be saved.  The slots written
\* before the failure stay; W are their mappings.
CowFails(p, v) ==
  LET f == Translation(p, v)
      R == Readers(f, p, v)
  IN  /\ f # NoFrame
      /\ Shared(f)
      /\ MemoryFull
      /\ \/ ~HasSwap /\ swap' = swap
         \/ /\ HasSwap /\ ~SwapRoom(R)
            /\ \E W \in SUBSET R :
                 /\ Cardinality(W \ UsedSlots(swap)) = FreeSlots
                 /\ swap' = Saved(W, data[f])
         \/ /\ HasSwap /\ IoFaults
            /\ \E W \in SUBSET R, r \in R :
                 /\ r \in W => r \in UsedSlots(swap)
                 /\ SwapRoom(W)
                 /\ swap' = Saved(W, data[f])
      /\ Call(p)
      /\ UNCHANGED <<live, pt, frameVars, cow, loaded, tlb>>

\* Page fault served by a free frame.
LoadFreeFrame(p, v, w, x) ==
  /\ Translation(p, v) = NoFrame
  /\ \E g \in Frame :
       /\ FirstFree(g)
       /\ owner' = [owner EXCEPT ![g] = p]
       /\ page' = [page EXCEPT ![g] = v]
       /\ dirty' = MarkAccess(dirty, g, w)
       /\ pt' = [pt EXCEPT ![p][PathOf[v]] = g]
       /\ cow' = [cow EXCEPT ![g] = @ \union {<<p, v>>}]
       /\ loaded' = loaded \union {g}
       /\ data' = Stored([data EXCEPT ![g] = Restored(swap, p, v)],
                         pt', p, v, x)
       /\ tlb' \in TlbInsert(tlb, p, v, g)
  /\ freeCount' = freeCount - 1
  /\ swap' = [swap EXCEPT ![p][v] = NoData]
  /\ Call(p)
  /\ UNCHANGED live

\* The same fault when the slot cannot be read: every step is undone.
LoadFreeFrameFails(p, v) ==
  /\ IoFaults
  /\ Translation(p, v) = NoFrame
  /\ freeCount > 0
  /\ swap[p][v] # NoData
  /\ Call(p)
  /\ UNCHANGED <<live, pt, frameVars, cow, loaded, tlb, swap>>

\* Mutant: clean frames are saved and dirty ones are not.
MustSaveClean(f) == ~dirty[f] /\ HasSwap

\* virtual_memory_save_victim has to write frame f.
MustSave(f) == dirty[f] /\ HasSwap

\* The swap area after it did.
SwapAfterSave(f) ==
  IF MustSave(f) THEN [swap EXCEPT ![owner[f]][page[f]] = data[f]] ELSE swap

Evictable(f) ==
  /\ f \in loaded
  /\ ~Shared(f)
  /\ <<owner[f], page[f]>> \in cow[f]
  /\ MustSave(f) => SwapRoom({<<owner[f], page[f]>>})

\* Frame f passes from its old page to page v of p; both ways of ending
\* virtual_memory_replace_page have this in common.
Reuse(f, p, v) ==
  /\ pt' = [pt EXCEPT ![p][PathOf[v]] = f,
                      ![owner[f]][PathOf[page[f]]] = NoFrame]
  /\ cow' = [cow EXCEPT
               ![f] = (@ \ {<<owner[f], page[f]>>}) \union {<<p, v>>}]
  /\ owner' = [owner EXCEPT ![f] = p]
  /\ page' = [page EXCEPT ![f] = v]
  /\ Call(p)
  /\ UNCHANGED <<live, freeCount, loaded>>

\* Mutant: the translation of the victim stays.
TlbKeepsVictim(f) == tlb

TlbWithoutVictim(f) == [tlb EXCEPT ![owner[f]][page[f]] = NoFrame]

\* Page fault with no free frame.
ReplacePage(p, v, w, x) ==
  /\ Translation(p, v) = NoFrame
  /\ MemoryFull
  /\ \E f \in Frame :
       LET saved == SwapAfterSave(f)
       IN  /\ Evictable(f)
           /\ Reuse(f, p, v)
           /\ tlb' \in TlbInsert(TlbWithoutVictim(f), p, v, f)
           /\ dirty' = MarkAccess([dirty EXCEPT ![f] = FALSE], f, w)
           /\ data' = Stored([data EXCEPT ![f] = Restored(saved, p, v)],
                             pt', p, v, x)
           /\ swap' = [saved EXCEPT ![p][v] = NoData]

\* Mutant: the victim is unmapped before its save is refused.
ReplaceRefusedLate(p, v) ==
  /\ Translation(p, v) = NoFrame
  /\ MemoryFull
  /\ \E f \in loaded :
       /\ Shared(f) \/ (MustSave(f) /\ ~SwapRoom({<<owner[f], page[f]>>}))
       /\ pt' = [pt EXCEPT ![owner[f]][PathOf[page[f]]] = NoFrame]
  /\ Call(p)
  /\ UNCHANGED <<live, frameVars, cow, loaded, tlb, swap>>

\* The victim is shared, or is dirty and cannot be saved.
ReplaceRefused(p, v) ==
  /\ Translation(p, v) = NoFrame
  /\ MemoryFull
  /\ \E f \in loaded :
       \/ Shared(f) /\ swap' = swap
       \/ /\ ~Shared(f) /\ MustSave(f)
          /\ ~SwapRoom({<<owner[f], page[f]>>})
          /\ swap' = swap
       \/ /\ ~Shared(f) /\ MustSave(f) /\ IoFaults
          /\ \/ swap' = swap
             \/ /\ <<owner[f], page[f]>> \in UsedSlots(swap)
                /\ swap' = SwapAfterSave(f)
  /\ Call(p)
  /\ UNCHANGED <<live, pt, frameVars, cow, loaded, tlb>>

\* The victim is gone and the slot of the new page cannot be read: the call
\* returns with the frame zeroed, clean and mapped.
ReplaceRestoreFails(p, v) ==
  /\ IoFaults
  /\ Translation(p, v) = NoFrame
  /\ MemoryFull
  /\ \E f \in Frame :
       /\ Evictable(f)
       /\ SwapAfterSave(f)[p][v] # NoData
       /\ Reuse(f, p, v)
       /\ tlb' = TlbWithoutVictim(f)
       /\ dirty' = [dirty EXCEPT ![f] = FALSE]
       /\ data' = [data EXCEPT ![f] = Zero]
       /\ swap' = SwapAfterSave(f)

-----------------------------------------------------------------------------
(* Processes. *)

CreateProcess(p) ==
  /\ p \notin live
  /\ live' = live \union {p}
  /\ UNCHANGED <<registered, pt, frameVars, cow, loaded, tlb, swap>>

\* The callers destroy a process only after its release, or together with the
\* memory (Simulator).
DestroyProcess(p) ==
  /\ p \in live \ registered
  /\ live' = live \ {p}
  /\ pt' = [pt EXCEPT ![p] = [a \in Path |-> NoFrame]]
  /\ UNCHANGED <<registered, frameVars, cow, loaded, tlb, swap>>

\* Mutant: only the frames the process owns.
HeldAsOwner(p) == {f \in Frame : owner[f] = p}

\* The frames whose page the process maps, as fork and release find them.
Held(p) == {f \in Frame : Occupied(f) /\ <<p, page[f]>> \in cow[f]}

Fork(p, c) ==
  /\ p \in live /\ c \notin live
  /\ live' = live \union {c}
  /\ registered' = registered \union {p, c}
  /\ pt' = [pt EXCEPT ![c] = pt[p]]
  /\ cow' = [f \in Frame |->
               IF f \in Held(p) THEN cow[f] \union {<<c, page[f]>>} ELSE cow[f]]
  /\ tlb' = TlbWithoutProcess(p)
  /\ UNCHANGED <<frameVars, loaded, swap>>

Release(p) ==
  LET freed == {f \in Held(p) : cow[f] = {<<p, page[f]>>}}
      inherited == {f \in Held(p) \ freed : owner[f] = p}
  IN  /\ p \in live
      /\ \E heir \in [inherited -> registered] :
           /\ \A f \in inherited : heir[f] \in FrameUsers(f, page[f], p)
           /\ owner' = [f \in Frame |-> IF f \in freed THEN NoProc
                                        ELSE IF f \in inherited THEN heir[f]
                                        ELSE owner[f]]
      /\ page' = [f \in Frame |-> IF f \in freed THEN NoPage ELSE page[f]]
      /\ dirty' = [f \in Frame |-> dirty[f] /\ f \notin freed]
      /\ data' = [f \in Frame |-> IF f \in freed THEN Zero ELSE data[f]]
      /\ freeCount' = freeCount + Cardinality(freed)
      /\ loaded' = loaded \ freed
      /\ cow' = [f \in Frame |->
                   IF f \in Held(p) THEN cow[f] \ {<<p, page[f]>>} ELSE cow[f]]
      /\ pt' = [pt EXCEPT ![p] = [a \in Path |->
                  IF \E f \in Held(p) : PathOf[page[f]] = a /\ pt[p][a] = f
                    THEN NoFrame ELSE pt[p][a]]]
      /\ tlb' = TlbWithoutProcess(p)
      /\ swap' = SwapWithoutProcess(p)
      /\ registered' = registered \ {p}
      /\ UNCHANGED live

-----------------------------------------------------------------------------

\* The calls of virtual_memory_access that return OK or PAGE_FAULT ...
Read(p, v) ==
  \/ AccessResident(p, v, FALSE, NoData)
  \/ LoadFreeFrame(p, v, FALSE, NoData)
  \/ ReplacePage(p, v, FALSE, NoData)

Write(p, v, x) ==
  \/ AccessResident(p, v, TRUE, x)
  \/ CowCopy(p, v, x)
  \/ CowTakeOver(p, v, x)
  \/ LoadFreeFrame(p, v, TRUE, x)
  \/ ReplacePage(p, v, TRUE, x)

\* ... and those that return SWAP_ERROR or INTERNAL_ERROR.
AccessFails(p, v) ==
  \/ CowFails(p, v)
  \/ LoadFreeFrameFails(p, v)
  \/ ReplaceRefused(p, v)
  \/ ReplaceRestoreFails(p, v)

Next ==
  \/ \E p \in Proc, v \in Page :
       Read(p, v) \/ AccessFails(p, v)
  \/ \E p \in Proc, v \in Page, x \in Value \union {NoData} : Write(p, v, x)
  \/ \E p \in Proc : CreateProcess(p) \/ DestroyProcess(p) \/ Release(p)
  \/ \E p, c \in Proc : Fork(p, c)

Spec == Init /\ [][Next]_vars

-----------------------------------------------------------------------------
(* What must hold of the state. *)

\* Types of the variables.
TypeOK ==
  /\ live \subseteq Proc /\ registered \subseteq Proc
  /\ pt \in [Proc -> [Path -> Frame \union {NoFrame}]]
  /\ owner \in [Frame -> Proc \union {NoProc}]
  /\ page \in [Frame -> Page \union {NoPage}]
  /\ dirty \in [Frame -> BOOLEAN]
  /\ data \in [Frame -> Value]
  /\ freeCount \in Nat
  /\ cow \in [Frame -> SUBSET Mapping]
  /\ loaded \subseteq Frame
  /\ tlb \in [Proc -> [Page -> Frame \union {NoFrame}]]
  /\ swap \in [Proc -> [Page -> Value \union {NoData}]]

FrameOf(p, v) == pt[p][PathOf[v]]
Resident(p, v) == FrameOf(p, v) # NoFrame

\* Every resident page is recorded by the COW manager for its frame.
MappedIsRecorded ==
  \A p \in Proc, v \in Page : Resident(p, v) => <<p, v>> \in cow[FrameOf(p, v)]

\* Every recorded mapping is in the page table of a registered process, at
\* the page number that the frame carries.
RecordedIsMapped ==
  \A f \in Frame : \A m \in cow[f] :
    /\ FrameOf(m[1], m[2]) = f
    /\ m[2] = page[f]
    /\ m[1] \in registered

\* An occupied frame belongs to a process that maps it; a free one has no
\* mapping, is clean and holds zeros.
OwnersMap ==
  \A f \in Frame : IF Occupied(f)
                     THEN <<owner[f], page[f]>> \in cow[f]
                     ELSE cow[f] = {} /\ ~dirty[f] /\ data[f] = Zero

\* The policy knows the occupied frames and free_frame_count counts the rest.
FramesAccounted ==
  /\ loaded = {f \in Frame : Occupied(f)}
  /\ freeCount = Cardinality({f \in Frame : ~Occupied(f)})

\* Only registered processes, all of them alive, have slots.
SlotsAccounted ==
  /\ registered \subseteq live
  /\ \A p \in Proc, v \in Page : swap[p][v] # NoData => p \in registered

\* The five structures that virtual_memory.c updates one after the other in
\* every call (page tables, COW lists, frame headers, policy, registry) agree
\* after the call, whether it succeeded or failed.
Coherent ==
  /\ MappedIsRecorded
  /\ RecordedIsMapped
  /\ OwnersMap
  /\ FramesAccounted
  /\ SlotsAccounted

\* No translation in the TLB is stale: it is the one the page walk would
\* give.  Evictions, COW copies, forks and releases all have to see to it.
TlbCoherent ==
  \A p \in Proc, v \in Page : tlb[p][v] # NoFrame => tlb[p][v] = FrameOf(p, v)

\* Neither the TLB nor the swap area holds more than it has room for, even
\* after a write to swap that was given up half way.
WithinCapacity ==
  /\ Cardinality(TlbUsed(tlb)) <= TlbEntries
  /\ Cardinality(UsedSlots(swap)) <= SlotCount

\* A slot may survive beside a resident page (evict_cow_readers_for_write
\* stops in the middle).  While the swap file works it is never the copy that
\* counts: the frame is dirty and will be saved over it, or equals it.
StaleSlotHarmless ==
  \A p \in Proc, v \in Page :
    (Resident(p, v) /\ swap[p][v] # NoData) =>
      dirty[FrameOf(p, v)] \/ data[FrameOf(p, v)] = swap[p][v]

\* When every process has been released nothing of them is left.
NothingLeaks ==
  registered = {} =>
    /\ freeCount = FrameCount
    /\ \A f \in Frame : ~Occupied(f) /\ cow[f] = {} /\ data[f] = Zero
    /\ \A p \in Proc, v \in Page :
         tlb[p][v] = NoFrame /\ swap[p][v] = NoData /\ ~Resident(p, v)

\* virtual_memory_validate returns true.
Validate ==
  /\ \A f \in Frame :
       IF Occupied(f)
         THEN cow[f] # {} /\ pt[owner[f]][PathOf[page[f]]] = f
         ELSE cow[f] = {} /\ ~dirty[f]
  /\ Cardinality({f \in Frame : ~Occupied(f)}) = freeCount

-----------------------------------------------------------------------------
(* What must hold of the steps. *)

\* What process p would read at page v.
Content(p, v) ==
  IF Resident(p, v) THEN data[FrameOf(p, v)] ELSE Restored(swap, p, v)

OwnWrite(p, v) == \E x \in Value : Write(p, v, x)
Reborn(p) == Release(p) \/ \E q \in Proc : Fork(q, p)

\* A dirty page survives every call except a write of its own process and its
\* release: whatever is evicted, copied, refused or half done around it.
DirtyPagesSurvive ==
  [][\A p \in Proc, v \in Page :
       /\ Resident(p, v) /\ dirty[FrameOf(p, v)]
       /\ Content(p, v)' # Content(p, v)
       => OwnWrite(p, v) \/ Release(p)]_vars

\* A copy-on-write step, whether it copies the page or sends the readers to
\* swap, changes the content of no other page, and leaves the writer alone in
\* a frame that is dirty.
CowIsolates ==
  [][\A p \in Proc, v \in Page, x \in Value \union {NoData} :
       CowCopy(p, v, x) \/ CowTakeOver(p, v, x) =>
         /\ \A m \in Mapping \ {<<p, v>>} :
              Content(m[1], m[2])' = Content(m[1], m[2])
         /\ cow'[FrameOf(p, v)'] = {<<p, v>>}
         /\ dirty'[FrameOf(p, v)']]_vars

\* A call that returns an error changes what no process reads.
FailedCallKeepsContents ==
  [][(\E m \in Mapping : Content(m[1], m[2])' # Content(m[1], m[2]))
       => ~ \E p \in Proc, v \in Page : AccessFails(p, v)]_vars

\* A page reads as what its process last wrote in it: test_stress.c writes
\* pages, forces them out and asserts the value at line 219.
LastWriteIsRead ==
  [][\A p \in Proc, v \in Page :
       Content(p, v)' # Content(p, v) => OwnWrite(p, v) \/ Reborn(p)]_vars

\* A child starts with the memory of its parent: test_cow_integration.c reads
\* the value of the parent in the child at line 89.
ForkInherits ==
  [][\A p, c \in Proc :
       Fork(p, c) => \A v \in Page : Content(c, v)' = Content(p, v)]_vars

=============================================================================

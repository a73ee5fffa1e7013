---------------------------- MODULE OutOfMemory ----------------------------
(***************************************************************************)
(* Calls of VirtualMemory in which an allocation fails: a node of a page   *)
(* table (page_table_map, and page_table_unmap, which copies nodes that a  *)
(* fork shares), a record of the COW manager, or a process.  The memory is *)
(* one without swap.                                                       *)
(*                                                                         *)
(* A call that fails before it changed anything is a stutter and not       *)
(* repeated here.  The simulator gives up after the first failed call, and *)
(* so does this module: what is of interest is what that call left.        *)
(***************************************************************************)
EXTENDS MemoryRefinement

VARIABLE failed   \* a call ran out of memory

oomVars == <<vars, failed>>

OomInit == ~HasSwap /\ Init /\ failed = FALSE

\* page_table_map, cow_manager_add_mapping or on_load failed while a page was
\* loaded into a free frame, and what was done was undone.
LoadUndone(p, v) ==
  /\ Translation(p, v) = NoFrame
  /\ ~MemoryFull
  /\ Call(p)
  /\ UNCHANGED <<live, pt, frameVars, cow, loaded, tlb, swap>>

\* page_table_map failed for the new page: the victim is still in its frame.
ReplaceNotMapped(p, v) ==
  /\ Translation(p, v) = NoFrame
  /\ MemoryFull
  /\ \E f \in Frame : Evictable(f)
  /\ Call(p)
  /\ UNCHANGED <<live, pt, frameVars, cow, loaded, tlb, swap>>

\* page_table_unmap failed for the victim.  The mapping of the new page is
\* taken back, the translation of the victim is not.
ReplaceNotUnmapped(p, v) ==
  /\ Translation(p, v) = NoFrame
  /\ MemoryFull
  /\ \E f \in Frame : Evictable(f) /\ tlb' = TlbWithoutVictim(f)
  /\ Call(p)
  /\ UNCHANGED <<live, pt, frameVars, cow, loaded, swap>>

\* Mutant: the policy hears of the page before the record is made.
ReplaceNotRecordedButLoaded(p, v) ==
  /\ Translation(p, v) = NoFrame
  /\ MemoryFull
  /\ \E f \in Frame :
       /\ Evictable(f)
       /\ pt' = [pt EXCEPT ![p][PathOf[v]] = f,
                           ![owner[f]][PathOf[page[f]]] = NoFrame]
       /\ cow' = [cow EXCEPT ![f] = @ \ {<<owner[f], page[f]>>}]
       /\ loaded' = loaded
       /\ owner' = [owner EXCEPT ![f] = p]
       /\ page' = [page EXCEPT ![f] = v]
       /\ dirty' = [dirty EXCEPT ![f] = FALSE]
       /\ data' = [data EXCEPT ![f] = Zero]
       /\ tlb' = TlbWithoutVictim(f)
  /\ Call(p)
  /\ UNCHANGED <<live, freeCount, swap>>

\* cow_manager_add_mapping failed for the new page, after the victim left its
\* table, its list and the policy: the page is mapped to a frame that has no
\* record and that the policy does not know.
ReplaceNotRecorded(p, v) ==
  /\ Translation(p, v) = NoFrame
  /\ MemoryFull
  /\ \E f \in Frame :
       /\ Evictable(f)
       /\ pt' = [pt EXCEPT ![p][PathOf[v]] = f,
                           ![owner[f]][PathOf[page[f]]] = NoFrame]
       /\ cow' = [cow EXCEPT ![f] = @ \ {<<owner[f], page[f]>>}]
       /\ loaded' = loaded \ {f}
       /\ owner' = [owner EXCEPT ![f] = p]
       /\ page' = [page EXCEPT ![f] = v]
       /\ dirty' = [dirty EXCEPT ![f] = FALSE]
       /\ data' = [data EXCEPT ![f] = Zero]
       /\ tlb' = TlbWithoutVictim(f)
  /\ Call(p)
  /\ UNCHANGED <<live, freeCount, swap>>

\* Mutant: the whole list of the shared frame goes, not the writer's record.
CopyNotRecordedListGone(p, v) ==
  LET f == Translation(p, v)
  IN  /\ f # NoFrame
      /\ Shared(f)
      /\ \E g \in Frame :
           /\ FirstFree(g)
           /\ pt' = [pt EXCEPT ![p][PathOf[v]] = g]
           /\ cow' = [cow EXCEPT ![f] = {}]
           /\ owner' = [owner EXCEPT ![g] = p]
           /\ page' = [page EXCEPT ![g] = v]
           /\ data' = [data EXCEPT ![g] = data[f]]
      /\ freeCount' = freeCount - 1
      /\ Call(p)
      /\ UNCHANGED <<live, dirty, loaded, tlb, swap>>

\* The same for the copy of a shared page: the writer is mapped to a copy that
\* has no record, and its translation and the header of the frame it left are
\* as they were.
CopyNotRecorded(p, v) ==
  LET f == Translation(p, v)
  IN  /\ f # NoFrame
      /\ Shared(f)
      /\ \E g \in Frame :
           /\ FirstFree(g)
           /\ pt' = [pt EXCEPT ![p][PathOf[v]] = g]
           /\ cow' = [cow EXCEPT ![f] = @ \ {<<p, v>>}]
           /\ owner' = [owner EXCEPT ![g] = p]
           /\ page' = [page EXCEPT ![g] = v]
           /\ data' = [data EXCEPT ![g] = data[f]]
      /\ freeCount' = freeCount - 1
      /\ Call(p)
      /\ UNCHANGED <<live, dirty, loaded, tlb, swap>>

\* The records of the child that are made before the one of frame g.
RecordsBefore(g, p, c) ==
  [f \in Frame |-> IF f \in Held(p) /\ f < g
                     THEN cow[f] \union {<<c, page[f]>>} ELSE cow[f]]

\* The child, its registration or a record of it could not be allocated.  The
\* child is destroyed and its records stay.
ForkFails(p, c) ==
  /\ p \in live /\ c \notin live
  /\ registered' = registered \union {p}
  /\ \/ cow' = cow
     \/ \E g \in Held(p) : cow' = RecordsBefore(g, p, c)
  /\ UNCHANGED <<live, pt, frameVars, loaded, tlb, swap>>

\* Release stopped at frame g, whose page could not be taken out of a table
\* that is shared with a fork: the frames before it have been given up.
ReleaseStops(p, g) ==
  LET done == {f \in Held(p) : f < g}
      freed == {f \in done : cow[f] = {<<p, page[f]>>}}
      inherited == {f \in done \ freed : owner[f] = p}
  IN  /\ p \in live
      /\ g \in Held(p)
      /\ \E heir \in [inherited -> registered] :
           /\ \A f \in inherited : heir[f] \in FrameUsers(f, page[f], p)
           /\ owner' = [f \in Frame |-> IF f \in freed THEN NoProc
                                        ELSE IF f \in inherited THEN heir[f]
                                        ELSE owner[f]]
      /\ page' = [f \in Frame |-> IF f \in freed THEN NoPage ELSE page[f]]
      /\ dirty' = [f \in Frame |-> dirty[f] /\ f \notin freed]
      /\ data' = [f \in Frame |-> IF f \in freed THEN Zero ELSE data[f]]
      /\ freeCount' = freeCount + Cardinality(freed)
      /\ loaded' = loaded \ freed
      /\ cow' = [f \in Frame |->
                   IF f \in done THEN cow[f] \ {<<p, page[f]>>} ELSE cow[f]]
      /\ pt' = [pt EXCEPT ![p] = [a \in Path |->
                  IF \E f \in done : PathOf[page[f]] = a THEN NoFrame ELSE pt[p][a]]]
      /\ tlb' = [tlb EXCEPT ![p] = [v \in Page |->
                   IF \E f \in done \union {g} : page[f] = v THEN NoFrame ELSE @[v]]]
      /\ UNCHANGED <<live, registered, swap>>

\* The calls of process p that run out of memory.
OutOfMemory(p) ==
  \/ \E v \in Page : \/ LoadUndone(p, v)
                     \/ ReplaceNotMapped(p, v)
                     \/ ReplaceNotUnmapped(p, v)
                     \/ ReplaceNotRecorded(p, v)
                     \/ CopyNotRecorded(p, v)
  \/ \E c \in Proc : ForkFails(p, c)
  \/ \E g \in Frame : ReleaseStops(p, g)

OomNext ==
  /\ ~failed
  /\ \/ Next /\ failed' = FALSE
     \/ (\E p \in Proc : OutOfMemory(p)) /\ failed' = TRUE

OomSpec == OomInit /\ [][OomNext]_oomVars

-----------------------------------------------------------------------------

\* A frame whose record was lost can never be found again by release or by a
\* replacement.  It is out of everybody's reach as well: the policy does not
\* know it, so that every access to it fails in replacement_policy_on_access,
\* and no page but the one in its header is mapped to it.
LostFramesAreInert ==
  \A f \in Frame :
    Occupied(f) /\ cow[f] = {} =>
      /\ f \notin loaded
      /\ \A p \in Proc, v \in Page :
           FrameOf(p, v) = f => p = owner[f] /\ v = page[f]
      /\ \A p \in Proc, v \in Page : tlb[p][v] # f

\* Page u of process q is as it was: mapped to the same frame, recorded there,
\* with the same content.
Untouched(q, u) ==
  /\ FrameOf(q, u)' = FrameOf(q, u)
  /\ Content(q, u)' = Content(q, u)
  /\ Resident(q, u) =>
       <<q, u>> \in cow[FrameOf(q, u)] \intersect cow'[FrameOf(q, u)]

\* Page u of process q was taken out of its frame, its record with it.
Evicted(q, u) ==
  /\ Resident(q, u) /\ ~Resident(q, u)'
  /\ <<q, u>> \notin cow'[FrameOf(q, u)]

\* A call that runs out of memory touches nothing of the other processes except
\* for the one page that a replacement had already evicted.
OutOfMemoryIsContained ==
  [][\A p \in Proc :
       failed' /\ OutOfMemory(p) =>
         \A m, n \in Mapping :
           m[1] # p /\ ~Untouched(m[1], m[2]) =>
             /\ Evicted(m[1], m[2])
             /\ n[1] # p /\ ~Untouched(n[1], n[2]) => n = m]_oomVars

\* Pages of process p have become empty, and nothing else has changed.
EmptiedInPart(p) ==
  \E S \in SUBSET Page :
    Memories' = [Memories EXCEPT ![p] =
                   [v \in Page |-> IF v \in S THEN Zero ELSE Memories[p][v]]]

\* A call that runs out of memory is a step of the private memories as well, or
\* none at all; only a release that stops has emptied some pages of its process
\* and left others, which the private memories do not allow.
OutOfMemoryKeepsPromise ==
  /\ Memory!Init
  /\ [][\/ Memory!Next
        \/ \E p \in Proc :
             EmptiedInPart(p) /\ \E g \in Frame : ReleaseStops(p, g)]_Memories

=============================================================================

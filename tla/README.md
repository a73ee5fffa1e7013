# Verification of the virtual memory simulator

TLA+ models of the simulator, the configurations that check them with TLC, and
proofs checked with TLAPS.  Line numbers refer to files under `src/`.  Run the
tools in this directory: `tlc -config MCCore.cfg MCVirtualMemory`,
`tlapm VirtualMemoryProofs.tla`.

## 1. The system

The simulator is a sequential C library with two programs: `vmsim` replays a
trace of memory accesses of one process, `tracegen` writes such traces.  The
library serves several processes, with forks, over a common set of physical
frames; only the tests use more than one.  There are no threads,
callbacks or messages: everything happens inside a call of the public interface
of `virtual_memory.c`.  What is hard is that one call updates up to eight
structures one after the other, that it can fail between two updates, and that
the structures are redundant: each fact (which frame holds which page) is
written down in four or five places that have to agree when the call returns.

| component | state it keeps | operations | used by |
|---|---|---|---|
| integration, `src/virtual_memory.c` | list of registered processes, statistics, pointers to the rest | access, read_byte, write_byte, fork_process, release_process, validate | replay, CLI |
| processes, `src/process.c` | pid, page table | create, fork, destroy | integration |
| page table, `src/page_table.c` | trie of four levels; nodes and leaf entries have reference counts and are shared by forks | create, clone_shared, map, lookup, unmap, destroy | processes, integration |
| addresses, `src/address.c` | none | page number, offset, index of a level | page table, integration |
| physical memory, `src/physical_memory.c` | per frame: occupied, owner, page, dirty, referenced, 4096 bytes; `free_frame_count` | allocate, replace, release, mark_access, read/write | integration |
| TLB, `src/tlb.c` | array of entries with stamps, size, clock | lookup, insert, invalidate, invalidate_process, clear | integration |
| replacement, `src/replacement/` | which frames are loaded, and a queue, stamps, bits and a hand, or ages | on_load, on_access, on_evict, choose_victim, tick | integration |
| COW manager, `src/cow.c` | per frame a linked list of (process, page) | add, remove, has, count, collect | integration |
| swap, `src/swap.c` | slots, used count, file | write_page, read_page, remove_page, remove_process | integration |
| trace reader and replay, `src/trace.c` | file, one pending entry | next, replay | `vmsim` |
| command line, `src/cli.c` | options | parse | `vmsim` |
| CSV export, `src/csv_export.c` | none; the file outlives the program | export_result | `vmsim` |
| main program, `src/main.c` | what it has created so far | five ways from start to exit | user |
| trace generator, `src/trace_generator.c` | state of the pseudo-random numbers | generate | `tracegen` |

How they interact, in the order of a call `access(p, v, write)`:
register p; look v up in the TLB, else walk the page table; if there is a frame
and the access is a write to a shared page, copy it (free frame) or send the
other readers to swap (none free); if there is no frame, load the page into a
free one or choose a victim, save it if dirty, unmap it from table, COW list,
policy and TLB, give its frame to the new page and restore that from swap;
insert the translation; mark the access; tell the policy.

What makes each component correct:

- *integration*: the structures agree after every call, failed ones included;
  the TLB never answers a stale frame; a process sees the values it wrote and
  nobody else's; a released process leaves nothing behind;
- *page table*: sharing nodes is not to be seen by its owners; the counts are
  exact, so nothing is freed in use or left allocated;
- *TLB*: it answers what was last inserted, gives up the least recently used
  entry, and its size is the number of valid entries;
- *replacement*: every policy knows the frames in use and orders them as its
  name says, also after loads that failed and victims that were refused;
- *swap*: one slot per page, an exact count, a failed write loses no other page;
- *COW*: the list of a frame is the set of mappings of that frame, each once, and
  no cell of a list is lost or shared;
- *replay*: the accesses are those the trace stands for, in its order; the
  statistics tell the state of the memory, also after an access that failed;
- *command line, CSV, main*: a wrong argument starts nothing; a run adds its line
  to the CSV file and costs no earlier run its own; whatever fails, everything is
  given back;
- *generator*: the trace has the pages that were asked for.

`PROJECT.json` lists the hazards at their lines with the properties for each.

## 2. The modules

| module | models | what it stands on |
|---|---|---|
| `VirtualMemory` | the integration with physical memory, processes and the abstract view of page table, TLB, swap, COW and policy | |
| `ProcessMemory` | what the simulator promises a process: a private memory | |
| `MemoryRefinement` | the refinement mapping from the one to the other | both |
| `MCVirtualMemory` | instances for TLC | `MemoryRefinement` |
| `OutOfMemory` / `MCOutOfMemory` | calls of the integration in which an allocation fails, and what the first of them leaves | `MemoryRefinement` |
| `VirtualMemoryProofs` | theorems about these | `OutOfMemory` |
| `PageTable` / `PrivateTables` | the counted, shared tries / a private map per table | `PageTableProofs` |
| `MCPageTable` | small tries for TLC | `PageTable` |
| `Tlb` / `VictimQueue` | the array with stamps / the queue it is compared with, as the relation "before" | `TlbProofs` |
| `Swap` / `PageStore` | slots, count, file and their failures / a store with limited room | `SwapProofs` |
| `ArrayScan`, `ArrayScanProofs` | "the first index with this property", the shape of the linear searches of `tlb.c` and `swap.c` | |
| `Fifo`, `Lru`, `Clock`, `Aging`, `ReplacementPolicy` | the four policies as functions of their state | |
| `Replacement` | the dispatch of `replacement.c` | the four |
| `PolicyUse` | in which order `virtual_memory.c` calls a policy | `Replacement`, `ReplacementProofs` |
| `ClockLoop` | the `while (true)` of `clock_choose_victim`, turn by turn | `Clock` |
| `CowManager` / `FrameMappings` | the linked lists and their cells / a set of mappings per frame | `CowManagerProofs` |
| `TraceReader` | what a line of a trace asks for | |
| `CommandLine` | the loop of `cli_parse` | |
| `CsvFile` | what an export makes of the file, or leaves of it when it fails | |
| `Simulator`, `SimulatorProofs` | `vmsim`: main, replay, statistics over the memory; theorems about it | `VirtualMemory`, the three above, `VirtualMemoryProofs` |
| `MCSimulator` | small traces, command lines and files for TLC | `Simulator` |
| `TraceGenerator` | `tracegen`: the loop that writes a trace | |

`VirtualMemory` does not carry the tries, arrays and slots of the components.
It uses the abstract view that each component is shown to implement by itself:
page tables as maps (`PrivateTables`), the TLB as a set of translations whose
victim is any of them, swap as a partial map (`PageStore`), COW lists as sets
(`FrameMappings`), and a policy that may choose any loaded frame.  The choices of
a victim allow more than the code does, so that what holds in the model holds
for every policy.

### VirtualMemory and the code

| variable | code |
|---|---|
| `live` | processes created and not destroyed |
| `registered` | `memory->processes` |
| `pt[p][a]` | frame at trie path `a`; `PathOf[v]` is the path of page `v`, because the trie indexes 36 of the 52 bits of a page number |
| `owner`, `page`, `dirty`, `data` | frame header and content; `owner = NoProc` is a free frame |
| `freeCount` | `free_frame_count` |
| `cow[f]` | the list of mappings of frame f |
| `loaded` | the frames the policy knows |
| `tlb[p][v]`, `swap[p][v]` | translation, content of the slot |

One call is one action, and a call that ends in another way is another action.
`virtual_memory_access` is split by the way it takes: `AccessResident`,
`CowCopy`, `CowTakeOver`, `CowFails`, `LoadFreeFrame`, `LoadFreeFrameFails`,
`ReplacePage`, `ReplaceRefused`, `ReplaceRestoreFails`; `Read`, `Write` and
`AccessFails` group them by result.  `Fork`, `Release`, `CreateProcess` and
`DestroyProcess` are the calls of those names.

Abstractions: the content of a page is one value; a write stores one value or
is an access without a store; a process is its pid, which no two live processes
share (`main.c` has one, the tests number them); `malloc` does not fail in this
module; the referenced bit and the statistics are left out.  Environment: a
process is destroyed only after its release, as every caller does.  The actions
that walk lists of shared frames match mappings by page number; they are used
with canonical addresses, or with a single process (`AliasAssumption`).

### The components and the code

- `PageTable`: an object is a node or a leaf entry, which the code shares,
  copies and frees in the same way.  `Step` is `ensure_private_child`, and
  `Way` the way down that map and unmap have in common; `MapFails` and
  `UnmapFails` stop it at any allocation and keep what was done, as the code
  does.  A release that recurses over the children in the code is a set here:
  what is freed with an object are, level by level, the objects to which only
  freed ones point (`FreedWith`).  Objects are numbered as they are allocated.
- `Tlb`: entries, stamps, `size` and `logical_clock`; a hit re-stamps.  `told` and
  `recent` are histories: what was inserted, and the keys in order of use.
- `Swap`: `call` is the last call and what it answered, which the store of
  `PageStore` answers too.  `WriteFails` covers a failure of seek, write or flush; the slot of a
  page that was there may then hold the old content, the new one or part of it.
- Policies: a function that returns -1 leaves the state as it was.  `PolicyUse`
  keeps the frames in use, and `pinned`, the shared or unsaveable frames that
  `virtual_memory.c` refuses as victims, which any call may change.  `order` and
  `past` are histories of what happened to the frames.
  `ClockVictim` and `ClockSweep` give the loop in closed form; `ClockLoop` turns
  the hand step by step, and the run compares the two in every state.
- `CowManager`: a cell is a mapping and a link; the first free cell is the next
  one that `calloc` gives.  A removal follows `*current`, the pointer to the cell,
  which is the head of the list or the link of the cell before.  The cells that a
  walk visits are the least set that has the head and the next of each of its
  cells (`CellsOf`), which needs no recursion and does not presume that the walk
  ends.
- `OutOfMemory`: one action per place where an allocation may fail after the
  call began, with what the undoing of the code reaches and what it does not:
  `ReplaceNotRecorded` (`virtual_memory.c:924`), `CopyNotRecorded` (`:1293`),
  `ForkFails` (`:1737`), `ReleaseStops`.  Page tables copy nodes when they unmap, so
  that release allocates too.  After one such call nothing follows, as
  in `vmsim`; a program that went on would find, for instance, the records that
  a failed fork has left for a process that does not exist.

### The programs and the code

`Simulator` is `main.c` from the command line to the exit status, on the memory
of `VirtualMemory` with one process.  `phase` is the place in `main`; `held` is
what has been created and not given back; `trace`, `line`, `pending`, `entry` and
`next` are the reader and the entry that is being replayed page by page; `stats`
are the counters of `memory->stats`; `made` is a history of the accesses that
succeeded.  One page accessed is one step, as is one line read, so that a failure
comes between any two of them.  `Accessed` and `AccessRefused` are the actions of
`VirtualMemory` with what each counts: a failed access has been counted as an
access, a miss, a fault and perhaps a write to swap, never as a replacement.

A line is what one call of `fgets` returns, at most 255 characters: its first
letter and the address and size that `sscanf` found, with size 0 for a line
without an address.  (The second attempt of the parser, without a comma, accepts
nothing that the first one refuses and adds no case.)  `CommandLine` keeps of the
options what `main` decides by, and of values whether they are accepted.  In
`CsvFile` a file is a sequence of the text of the header, texts of rows, what is
left of either when a write stopped in the middle, and ends of lines.  An export
that fails may have written any part of its own.  The next one writes no end of
line first, so that its row joins a line that has none, and it writes no header
behind a torn one, since the file is not empty any more.  A reader finds lines in
the file: `Results` are the rows that stand alone on a line, `Damaged` the lines
that are neither a row nor the header.
What `fgets` and `sscanf` can return is `TraceAssumption`; that a file of earlier
runs has a header at its beginning or nowhere is `CsvAssumption`, which the
program keeps (`FilesKeepTheirForm`).

`TraceGenerator` has the generator's own linear congruential numbers modulo 16:
the low bits of such a number do not depend on the others, and a page count that
is a power of two looks at nothing else.

## 3. What is checked

Twelve runs, nine of which pass; each of these explores its whole state space
(3 000 to 1 200 000 states, seconds to four minutes).

| run | instance | question |
|---|---|---|
| `core` | 2 processes, 2 pages, 2 frames, 2 TLB entries, 2 slots, failing I/O | do the structures agree after every call; is a dirty page ever lost; does copy-on-write isolate |
| `sharing` | 3 processes, 2 pages, 2 frames, 1 slot | is it the private memories of `ProcessMemory`; what does a half-done save leave |
| `no_swap` | 2 processes, no swap area, failing allocation | the same promise without swap; what does a call that runs out of memory leave |
| `page_table` | 3 tables, 3 levels, 2 pages, 2 frames, failing allocation | is sharing invisible, are counts exact, is the trie pruned |
| `cow_lists` | 2 frames, 3 mappings, 5 cells | are the lists sets of mappings, and do they keep their cells |
| `tlb` | 3 entries, 4 keys | is the array a queue of recent use |
| `swap` | 3 slots, 4 pages, failing I/O | is the area a store of pages |
| `policies` | 4 policies, 4 frames | does each policy order frames as its name says; where does the loop of Clock end |
| `replay` | 6 pages, 2 frames, 2 TLB entries, 1 slot, all traces of 3 lines, failing I/O | does `vmsim` do what trace and command line say, count it, and end |
| `last_write`, `fork_swapped`, `generator` | the smallest instances | three statements of tests and docs that the code does not keep |

Properties of the core:

- `Coherent`: tables, COW lists, frame headers, policy, free count and registry
  agree; `TlbCoherent`: no stale translation; `NothingLeaks`: nothing is left of
  released processes.  (`Validate`, that `virtual_memory_validate` never
  complains, follows from `Coherent` and is only proved.)
- `DirtyPagesSurvive`: no call of anybody loses a page that has not been saved.
  `CowIsolates`: a copy-on-write step changes one page of one process.
- `ImplementsProcessMemory`: refinement of the private memories.  `CallsMatch`:
  and each call is the step of its own name, process, page and value.
- `FailedCallKeepsContents` holds while the swap file works.
- `WithinCapacity`, `StaleSlotHarmless`: about slots left by a save given up
  half way.
- `LostFramesAreInert`, `OutOfMemoryIsContained`: a call that runs out of memory
  may lose a frame, but only its own process and one page that was already
  evicted take notice.
- `OutOfMemoryKeepsPromise`: up to and with such a call, each step is one of
  `ProcessMemory`, or a release that stopped and has emptied some pages of the
  process it was to release.  That last step is not one of `ProcessMemory`, which
  loses one page at a time; two frames do not tell the difference, four do, and
  the proof is for any number.

Properties of the policies, in `PolicyUse`, over all calls, failed loads and
refused victims:

- `PolicyAgrees`: the policy knows the frames in use, its victim is one of them.
- `FirstInFirstOut`, `LeastRecentlyUsed`, `AgingIsShortLru`: the array, the stamps
  and the ages order the frames as the history of calls does, which `order` and
  `past` keep without them.
- `LoopEndsInClosedForm`, `RetriesReachAVictim`: the loop of Clock ends within two
  rounds, and a fault that is retried is refused at most twice per pinned frame.

Properties of the program, in `Simulator`:

- `ReplayFollowsTrace`: the accesses made are a beginning of those the trace
  stands for, defined there from the bytes of each line; all of them if there is
  a report.
- `CountersMatchMemory`: frames in use are faults less replacements, slots in use
  are writes to swap less reads, and the sums that `scripts/check_stress.sh` asks
  of a row; with one access less when the last one failed.
- `StaleOnlyAmongAliases`: what is left of coherence when addresses are not
  canonical (see below).
- `ExportKeepsLines`: one line per run, up to what writes that stop in the middle
  damage.  An export that appends costs no earlier run its row and leaves at most
  one more damaged line; one that succeeds damages none, and adds a row of its
  own exactly if the file ended with a whole line (see below for the other case).
- `NothingHeldAtExit`, `OptionsAsGiven`, and `Ends`.

Why the bounds are enough.  Two processes and two frames are what sharing, a
change of owner and a full memory need; a third process (`sharing`) makes a
frame with two readers besides the writer, so that one is saved and the other
is not; one slot makes that happen.  Two pages and one or two translations fill
the TLB.  Two values tell a page that was written from one that was not.  In
`page_table` three tables let an object have three owners at one level and one
at the next, and two frames tell a write in place from a copy; the number of
objects has no bound.  In `policies`, `MaxClock` bounds the stamps
of LRU, `MaxRefusals` is above what `RetriesReachAVictim` allows, and ages of
three bits stand for the eight of the code; the past that is remembered is as
long as an age (`WindowAssumption`), for what is further back is shifted out.  In `tlb`, `MaxClock` bounds the
stamps.  The five cells of `cow_lists` let one list have all three
mappings, to remove from its head, its middle and its end, while the other has two.  In `replay` there are twelve addresses and a page has two bytes, so that
an access lies within a page, crosses one boundary, covers all pages, or runs
past the end; pages 0 and 3 have the same path in the trie; two frames and one
slot make three pages replace, save and restore each other and fill the swap
area.  Traces of three lines have lines of any kind, traces of four have lines of
five kinds that are good.  Of the files that earlier exports leave, eight stand for
every way a file can end: empty, with a whole line, with a header or a row that is
torn or lacks its end of line, and with a line that a row joined.  The symmetry of `sharing` permutes processes, which nothing
distinguishes, and the run has no liveness property.  The `VIEW` of `page_table`
identifies heaps that differ only in the numbers of their objects, on which
nothing depends but the number of the next one.

Fairness.  The library does nothing by itself, and its runs assume none.  `replay`
has `WF(SimNext)`: a sequential program that can take its next step takes it.
Every operation of the environment returns, with a result or a failure, so
nothing weaker than this is ever waited for.  `Ends` follows since a trace is
finite and every step goes on in it.  That the loop of Clock ends needs no
fairness: `LoopEndsInClosedForm` gives the number of turns in which it does.

Deadlock is checked in every passing run but `replay`, which ends, and `no_swap`,
which stops after a call that ran out of memory.

### Where the code disagrees with its docs or tests

- `last_write`: a page read back from swap loses its slot and is clean in its
  frame, so the next eviction drops it and it reads as zeros
  (`virtual_memory.c:546`, `:570`).  `ProcessMemory` is stated with this
  weakness: an access that evicts may lose one page.
- `fork_swapped`: a child inherits no page that its parent had in swap
  (`virtual_memory.c:1703`).
- `generator`: the random pattern of `tracegen` takes the low bits of a linear
  congruential generator and draws twice per line, so that half of the pages of
  an even `--pages` never occur (`trace_generator.c:384`).

Three more are seen in runs that pass, as the weaker statement that holds:

- Pages that differ only above bit 47 share a trie entry (`address.c:19`), and
  the TLB keeps a stale translation of one of them when the other is evicted,
  although `DIARIO.md:572` says that a frame is not used again before its old
  translation is invalidated.  `StaleOnlyAmongAliases` says there is no other kind of stale translation.
- When a replacement cannot read the slot of the new page, the call fails but the
  page stays mapped, clean and zero (`virtual_memory.c:951`), so that the next
  access reads zeros although the slot still has the page; `DIARIO.md:641` says
  that a page accessed again is restored from its slot.  A load into a free frame
  does undo its steps.  `ReplaceRestoreFails` is this action, and
  `CountersMatchMemory` has it as a fault without a replacement.
- After an export that stopped in the middle of a line, the next run that appends
  writes its row behind the torn text on the same line (`csv_export.c:235`), and
  succeeds; the README says that the simulator writes one line per run
  (`src/README.md:240`).  `ExportKeepsLines` says that this takes a torn line, and that
  the run after it has a line of its own again.

## 4. What is proved

For every number of processes, pages, frames, TLB entries, slots and bits of an
age.

**`VirtualMemoryProofs`**: the structures, with I/O failures allowed.

- `TypeCorrect`, one step per action.
- `CoherentCorrect`, `TlbCoherentCorrect`, `ValidateCorrect`,
  `NothingLeaksCorrect`, for canonical addresses (`Canonical`).  The inductive
  invariant is `TypeOK /\ Coherent /\ TlbCoherent`.  None of the last two is
  inductive alone: an action works on the frame that the *TLB* gave, so that what
  it does to table and lists is right only if the translation is; and an
  eviction invalidates only the translation of the page in the frame *header*,
  which is enough only if the header names the one mapping of the frame.
  `Validate` and `NothingLeaks` follow without further induction.
- `CapacityCorrect`, for any addresses.  Its inductive invariant `Bounded` is
  `TypeOK` and the two bounds.  The steps that save a page before its slot is
  counted rest on lemmas about how insertion, removal and a partial save change
  the number of used entries; no coherence is needed, because every insertion
  asks for room first.

The contents:

- `StaleSlotsCorrect`, `DirtyPagesCorrect` and `CowIsolatesCorrect`, for canonical
  addresses.  Each action gets a lemma that says which contents it changes, from
  the invariant above.  `DirtyPagesCorrect` needs a swap area (`HasSwap`), for
  without one a dirty victim is dropped by design; it allows I/O failures.
  `StaleSlotsCorrect` needs a file that works (`~IoFaults`): `ReplaceRestoreFails`
  leaves a clean page of zeros beside the slot that could not be read.
- `MemoryImplemented`, the refinement of `ProcessMemory`, with `CallsMatchCorrect`
  and `FailedCallsCorrect`, for canonical addresses and a swap file that works.
  An access either stores or leaves the page as it was, and one other page may be
  lost.  That it is at most one, and that a page with a slot is not lost but reads
  as its slot, rests on `StaleSlotHarmless`; that there are no slots without a swap
  area rests on `WithinCapacity`.

Failing allocation (`OutOfMemory`), for canonical addresses and without swap area,
which `OomInit` says:

- `LostFramesCorrect`: until a call has failed the invariant is the one
  above; the proof is that each failing action takes it to
  `LostFramesAreInert`, and nothing follows.
- `ContainedCorrect` and `PromiseKept`: the lemmas about contents serve for the
  calls that succeed.  A failing one gets the same kind of lemma: which entries of
  which tables differ after it, and what they read as.

**`PageTableProofs`**: `CountsReferencesCorrect`, `PrivateTablesCorrect`,
`CallsMatchCorrect` and `UnmapPrunesCorrect`, for tries of any depth and width and
any number of tables, with failing allocation.

- The inductive invariant is `HeapInv`: the heap is typed, finite and `Counted`, as
  `CountsReferences` says; it is `Layered`, a child being one level below each of its
  parents; and roots are on the top level.  Without the layers the counts would
  not be enough: a ring of nodes that no table reaches would keep them, and a
  release would not find everything it has to free within the depth of the trie.
- In the middle of a call a pointer is in hand that no table and no entry holds:
  the copy not yet put in place, the leaf cut off and not yet released.  It counts
  as one more place beside the tables (`Hand`), so that every step on the heap, a
  new object, a copy, a placing, a release, has one lemma that it leaves the heap
  sound, and a call is a sequence of them.
- `FreedWithFacts`: what a release frees are the objects to which nothing else points,
  by counting the pointers from each level above.
- That other tables do not notice is a bisimulation (`Simulates`): objects before and
  after a step are paired if they have the same frame and their children are
  paired, so the same paths lead to the same frames (`ReadsSame`).
- What a table *may* change is its own way: private objects only, one below the
  other (`Chained`); and no other table or path leads to them, since each has a
  single pointer (`OnlyWay`).  This gives the write of a leaf, the emptied entry
  and the pruned nodes their effect on one page of one table.
- `UnmapPrunesCorrect`: `Cleared` goes up from the leaf with the pruning; the page
  that loses its frame in a step is the one that is unmapped (`OnlyUnmapClears`).

**`CowManagerProofs`**: `CellsInOneListCorrect`, `CountsMappingsOnceCorrect` and
`ListsImplementSets`.  The inductive invariant is that each cell is entered by
exactly one pointer (`EnteredOnce`), that each is reached by the walk of some
frame (`AllReached`), and that no list has a mapping twice (`MappedOnce`).  The
count of pointers alone is not inductive: a ring of cells that no list reaches
keeps it too.  That the walks of two frames have no cell in common, which makes
a removal change one set only, follows from it by the least set: what only one of the
two walks visits would be left out of the other.

**`TlbProofs`**: `TlbTyped`, `SizeCorrect`, `AnswersCorrect`, `LruOrderCorrect`.  The
invariant adds that a key has one valid entry and that the stamps are
different, not above the clock, and rank the entries as the history of use
does; that an insertion in a full array gives up the first of the queue is a
lemma about the linear search, from `ArrayScanProofs`.

**`SwapProofs`**: `SwapTyped`, `CountCorrect`, `OneSlotCorrect` and
`SwapImplementsPageStore`, the refinement of the abstract store by the slots,
count and file.

**`ReplacementProofs`**: all six invariants of `policies`.  Each policy has an
invariant of its state (`FifoInv`, `LruInv`, `ClockInv`, `AgingInv`); a lemma for
each function of the interface says that it is kept and which frames and which
queue it leaves; the calls of `virtual_memory.c` are compositions of them.  The
loop of a release, a recursive function of the frame, is taken apart by the
least frame at which the claim would fail.

- `PolicyAgreesCorrect`, `FirstInFirstOutCorrect`, `LeastRecentlyUsedCorrect`: the
  invariant of FIFO says that the array is sorted by *some* time of loading by
  which the history is ranked too, that of LRU that the history is ranked by the
  stamps.  A release that takes frames out of the middle of the array keeps
  this, which the property alone would not give.
- `LoopEndsInClosedFormCorrect`: after `n` turns the hand is at `hand + n` modulo the
  number of frames and the bits it passed are clear (`Rounds`); the first turn at
  a loaded frame without its bit is the closed form.
- `RetriesReachAVictimCorrect`: `Patience` speaks of the trail of frames behind
  the hand.  In the first round they have no bit, and a pinned one of them stands
  for each refusal; in the second no frame has a bit and the whole trail is
  pinned.  `RetriesReachAVictim` alone is not inductive: it does not say where
  the hand is.
- `AgingIsShortLruCorrect`: an age lies between the powers of two that the last use
  gives (`Aged`), so that ages are ordered as last uses are.  The powers are sizes
  of sets of subsets, of which the library has theorems.

**`SimulatorProofs`**: `vmsim`, for any trace, command line and file, with
failures anywhere, and addresses that need not be canonical.

- `NothingHeldCorrect`: `HeldInPhase` says for each place in `main` what is held
  there.
- `ExportKeepsLinesCorrect`, with `FilesKeepTheirForm`.  What an export writes begins
  with text and not with an end of line, so that no line in front becomes whole or
  torn by it (`LinesInFront`); of the part that was written only the last line can
  be damaged (`PartKeepsLines`), and of all of it none, but where it continues a
  line that was (`ExportedLines`).
- `StaleOnlyAmongAliasesCorrect`.  The invariants of `VirtualMemoryProofs` are of no
  use here, since they fail when two pages share a path.  `Single` is what a
  single process keeps: a frame has at most the mapping of its header, the table
  leads the page of a header to its frame, and a path leads to a frame whose page
  has that path, though perhaps not that number.  An eviction empties the path of
  the page in the header; the only translations it overlooks are those of other
  pages on that path.
- `CountersMatchMemoryCorrect`.  Besides `Single`, the invariant needs that no
  occupied frame has a slot while the replay goes on (`SlotsClear`): otherwise
  saving a victim would count a write that takes no new slot.  A page that could
  not be restored breaks it, and ends the replay.  `EvenStep` turns what an access
  counts, and what it does to frames and slots, into the equations; `ReaderInv`
  gives that each page accessed is one of `Page`.
- `ReplayFollowsTraceCorrect`.  The invariant (`Following`) is that the accesses made,
  with those left of the entry in hand and of the pending write, are what the
  lines read so far stand for; an entry that passes the last address is one of a
  line that is not well formed.  The property alone says nothing of what is
  left.  It rests on `PagesSpan`, that the pages of a line's bytes in their order
  are those from the first page of its entry to the last, and on `DemandNext`,
  that one more line adds its accesses behind: the flattening of the community
  modules is a recursive function, taken apart by its least counterexample.

- `OptionsAsGivenCorrect`.  The invariant of the loop of `cli_parse` (`ReadSoFar`) says
  what is known after the first `n` arguments: the last value of each option
  before the place `n`, the flags seen, and whether `n` is an option that waits for
  its value.  The places of options are those where the loop does not wait; they
  are the ones that `OptionPlaces` defines without it (`PlacesAgree`).

Assumptions are those of the modules: sizes positive, finite sets of processes,
pages, frames, tables and indices, sentinels that are not values, no more past than an age has bits, for `vmsim` one
process, a swap area, and arguments other than the null pointer.

Only model-checked: `Ends`, the one liveness property, which TLAPS cannot prove,
and what the three runs of section 3 that end in a violation show.

## 5. What is not modelled, and why

- What follows a failed allocation: `vmsim` gives up, and no test goes on.  In
  `virtual_memory_create_complete` an allocation that fails is only a failure.
- The counters of COW and of the levels of a page walk, and the referenced bit:
  nothing reads them but reports and `virtual_memory_validate`.
- The parsing of `tracegen`'s arguments, of the shape of `cli_parse`; the text of
  reports, CSV fields and messages; a failing `fseek` on the CSV file.
- The numbers of a trace beyond what a bounded address can tell: `strtoull`,
  `sscanf` and their overflow are external.
- `cow_manager_share_process_pages`: nothing calls it, and it changes nothing.
- Crash and restart: the swap file is created anew at each start, and nothing
  else but the CSV file is kept.

## 6. Plan

Done: the core and its components; the programs; failing allocation; proofs of
the structures' coherence, capacities, contents and stores, of the refinement of
the private memories, of what a failed allocation leaves, of the order that
each policy keeps, of the lists of copy-on-write, of the shared tries, and of what `vmsim` accesses,
counts, holds and writes, and of how it takes its command line.  Left:

1. A composition of the core with a policy in place of its free choice.

----------------------------- MODULE PageTable -----------------------------
(***************************************************************************)
(* src/page_table.c: page tables as tries whose nodes and leaf entries are *)
(* counted and shared between the tables of a family of forks, and copied  *)
(* on the way down when a table is changed.                                *)
(*                                                                         *)
(* A leaf entry is modelled as an object one level below the last nodes,   *)
(* without entries and with a frame: the code shares, copies and frees the *)
(* two kinds of object in the same way.  An address is the path of its     *)
(* page, the indices of the levels (address_level_index).                  *)
(***************************************************************************)
EXTENDS Integers, FiniteSets

CONSTANTS
  Table,
  Levels,      \* PAGE_TABLE_LEVELS, 4 in the code
  Index,       \* 0 .. PAGE_TABLE_ENTRIES - 1
  Path,        \* the paths in use
  Frame,
  NoFrame,
  NoTable,
  AllocFaults  \* may calloc and malloc fail?

NULL == 0
Object == Nat \ {NULL}

ASSUME PathAssumption == Path \subseteq [1 .. Levels -> Index]

ASSUME SizesAssumption ==
  /\ Levels \in Nat \ {0}
  /\ IsFiniteSet(Table) /\ IsFiniteSet(Index)

ASSUME SentinelAssumption ==
  /\ NoFrame \notin Frame
  /\ NoTable \notin [Path -> Frame \union {NoFrame}]

VARIABLES
  heap,   \* the allocated objects: level, refs, active, entries and frame
  root    \* table->root, NULL when the table does not exist

vars == <<heap, root>>

Init ==
  /\ heap = <<>>
  /\ root = [t \in Table |-> NULL]

Exists(t) == root[t] # NULL

-----------------------------------------------------------------------------
(* Objects. *)

\* What calloc gives out next: one of the first objects that are not allocated.
Fresh(h) == CHOOSE o \in 1 .. Cardinality(DOMAIN h) + 1 : o \notin DOMAIN h

\* page_table_node_create, page_table_entry_create
NewObject(level) ==
  [level |-> level, refs |-> 1, active |-> 0,
   entries |-> [i \in Index |-> NULL], frame |-> NoFrame]

\* The heap with one more object.
Added(h, object) ==
  LET new == Fresh(h)
  IN  [x \in DOMAIN h \union {new} |-> IF x = new THEN object ELSE h[x]]

\* How many entries of the objects in S point to o.
PointersFrom(h, S, o) ==
  Cardinality({e \in S \X Index : h[e[1]].entries[e[2]] = o})

\* How many entries of o point to x.
Times(h, o, x) == Cardinality({i \in Index : h[o].entries[i] = x})

\* page_table_node_clone_shallow, page_table_entry_clone: a private copy of o,
\* at Fresh(h), that points to the same children and so counts as one more
\* pointer to each of them.
Clone(h, o) ==
  [x \in DOMAIN h \union {Fresh(h)} |->
     IF x = Fresh(h) THEN [h[o] EXCEPT !.refs = 1]
     ELSE [h[x] EXCEPT !.refs = @ + Times(h, o, x)]]

\* Mutant: what the object pointed to is forgotten, not released.
ReleasedAlone(h, o) ==
  IF h[o].refs > 1
    THEN [h EXCEPT ![o].refs = @ - 1]
    ELSE [x \in DOMAIN h \ {o} |-> h[x]]

\* The objects freed when the last pointer to o goes: o, and level by level those
\* that only objects freed before point to.
FreedWith(h, o) ==
  LET freed[n \in 0 .. Levels] ==
        IF n = 0 THEN {o}
        ELSE LET before == freed[n - 1]
             IN  before \union {x \in DOMAIN h : h[x].refs <= PointersFrom(h, before, x)}
  IN  freed[Levels]

\* page_table_node_release, page_table_entry_release: one pointer to o goes.
Released(h, o) ==
  IF h[o].refs > 1
    THEN [h EXCEPT ![o].refs = @ - 1]
    ELSE LET freed == FreedWith(h, o)
         IN  [x \in DOMAIN h \ freed |->
                [h[x] EXCEPT !.refs = @ - PointersFrom(h, freed, x)]]

-----------------------------------------------------------------------------
(* The way down.  A walk is a heap and the object it has come to. *)

\* Mutant: a shared root is changed in place.
SharedRoot(t) == [heap |-> heap, at |-> root[t]]

\* page_table_ensure_private_root
PrivateRoot(t) ==
  IF heap[root[t]].refs = 1
    THEN [heap |-> heap, at |-> root[t]]
    ELSE [heap |-> Released(Clone(heap, root[t]), root[t]), at |-> Fresh(heap)]

SetEntry(h, o, i, child) == [h EXCEPT ![o].entries[i] = child]

\* Does the step to entry i need an object?
Allocates(walk, i) ==
  LET child == walk.heap[walk.at].entries[i]
  IN  child # NULL => walk.heap[child].refs > 1

\* One level down: create what is missing, copy what is shared
\* (page_table_ensure_private_child).
Step(walk, i) ==
  LET h == walk.heap
      child == h[walk.at].entries[i]
      new == Fresh(h)
  IN  IF child = NULL
        THEN [heap |-> [SetEntry(Added(h, NewObject(h[walk.at].level + 1)),
                                 walk.at, i, new)
                          EXCEPT ![walk.at].active = @ + 1],
              at |-> new]
      ELSE IF h[child].refs > 1
        THEN [heap |-> Released(SetEntry(Clone(h, child), walk.at, i, new), child),
              at |-> new]
      ELSE [heap |-> h, at |-> child]

\* The walks of table t after each level of the path p.
Way(t, p) ==
  LET walk[n \in 0 .. Levels] ==
        IF n = 0 THEN PrivateRoot(t) ELSE Step(walk[n - 1], p[n])
  IN  walk

\* The objects on a path, NULL from where there are none.
Reached(h, o, p) ==
  LET at[n \in 0 .. Levels] ==
        IF n = 0 THEN o
        ELSE LET before == at[n - 1]
             IN  IF before = NULL THEN NULL ELSE h[before].entries[p[n]]
  IN  at

\* page_table_lookup
Lookup(t, p) ==
  LET entry == Reached(heap, root[t], p)[Levels]
  IN  IF entry = NULL THEN NoFrame ELSE heap[entry].frame

-----------------------------------------------------------------------------
(* Operations. *)

\* page_table_create
Create(t) ==
  /\ ~Exists(t)
  /\ heap' = Added(heap, NewObject(0))
  /\ root' = [root EXCEPT ![t] = Fresh(heap)]

\* page_table_clone_shared
Fork(parent, child) ==
  /\ Exists(parent) /\ ~Exists(child)
  /\ heap' = [heap EXCEPT ![root[parent]].refs = @ + 1]
  /\ root' = [root EXCEPT ![child] = root[parent]]

\* page_table_destroy
Destroy(t) ==
  /\ Exists(t)
  /\ heap' = Released(heap, root[t])
  /\ root' = [root EXCEPT ![t] = NULL]

\* page_table_map
Map(t, p, f) ==
  /\ Exists(t)
  /\ root' = [root EXCEPT ![t] = PrivateRoot(t).at]
  /\ LET walk == Way(t, p)[Levels]
     IN  heap' = [walk.heap EXCEPT ![walk.at].frame = f]

\* No memory is left for the object that a call needs at a depth of its way: what
\* was done before stays done.
RunsOut(t, p, depth) ==
  /\ AllocFaults
  /\ Exists(t)
  /\ root' = [root EXCEPT ![t] = PrivateRoot(t).at]
  /\ LET walk == Way(t, p)[depth - 1]
     IN  /\ Allocates(walk, p[depth])
         /\ heap' = walk.heap

\* page_table_map without memory for a node, a copy or the leaf
MapFails(t, p, depth) == RunsOut(t, p, depth)

\* An entry of a node is emptied.
Cut(h, node, i) ==
  [SetEntry(h, node, i, NULL) EXCEPT ![node].active = @ - 1]

\* The heap without a node that the entry i of its parent points to.
Detached(h, parent, i, node) ==
  LET cut == Cut(h, parent, i)
  IN  [x \in DOMAIN h \ {node} |-> cut[x]]

\* Mutant: the nodes left empty stay in the trie.
PrunedNever(t, p, h) == h

\* Mutant: nodes are freed on the way up that still have entries.
PrunedWholeWay(t, p, h) ==
  LET way == Way(t, p)
      pruned[n \in 0 .. Levels - 1] ==
        IF n = 0 THEN h
        ELSE LET level == Levels - n
                 before == pruned[n - 1]
             IN  Detached(before, way[level - 1].at, p[level], way[level].at)
  IN  pruned[Levels - 1]

\* The heap without the node of a level of the way, if no entry of it is active.
PrunedAt(way, p, level, h) ==
  LET node == way[level].at
  IN  IF h[node].active # 0 THEN h ELSE Detached(h, way[level - 1].at, p[level], node)

\* The heap after the leaf at the end of the way is gone from h: from the bottom
\* up, nodes without active entries are freed; from the first that has some upwards
\* all have, where the code breaks.
Pruned(t, p, h) ==
  LET way == Way(t, p)
      pruned[n \in 0 .. Levels - 1] ==
        IF n = 0 THEN h ELSE PrunedAt(way, p, Levels - n, pruned[n - 1])
  IN  pruned[Levels - 1]

\* page_table_unmap
Unmap(t, p) ==
  /\ Exists(t) /\ Lookup(t, p) # NoFrame
  /\ root' = [root EXCEPT ![t] = PrivateRoot(t).at]
  /\ LET walk == Way(t, p)[Levels - 1]
         leaf == walk.heap[walk.at].entries[p[Levels]]
     IN  heap' = Pruned(t, p, Released(Cut(walk.heap, walk.at, p[Levels]), leaf))

\* page_table_unmap without memory for the copy of a shared node
UnmapFails(t, p, depth) ==
  /\ Exists(t) /\ Lookup(t, p) # NoFrame
  /\ depth < Levels
  /\ RunsOut(t, p, depth)

Next ==
  \E t \in Table :
    \/ Create(t) \/ Destroy(t)
    \/ \E child \in Table : Fork(t, child)
    \/ \E p \in Path :
         \/ Unmap(t, p)
         \/ \E f \in Frame : Map(t, p, f)
         \/ \E depth \in 1 .. Levels : MapFails(t, p, depth) \/ UnmapFails(t, p, depth)

Spec == Init /\ [][Next]_vars

-----------------------------------------------------------------------------

\* The reference count of an object is the number of tables and entries that
\* point to it, through every sequence of forks, copies, prunings and releases:
\* nothing is freed while in use and nothing is left behind.
CountsReferences ==
  /\ root \in [Table -> DOMAIN heap \union {NULL}]
  /\ heap \in [DOMAIN heap ->
                [level : 0 .. Levels, refs : Nat \ {0}, active : Nat,
                 entries : [Index -> DOMAIN heap \union {NULL}],
                 frame : Frame \union {NoFrame}]]
  /\ \A o \in DOMAIN heap :
       /\ heap[o].refs = Cardinality({t \in Table : root[t] = o})
                           + PointersFrom(heap, DOMAIN heap, o)
       /\ heap[o].active = Cardinality({i \in Index : heap[o].entries[i] # NULL})

\* When a page is unmapped no empty node is left on its path, whichever nodes
\* were shared, and had to be copied, before.
UnmapPrunes ==
  [][\A t \in Table, p \in Path :
       /\ Exists(t) /\ Lookup(t, p) # NoFrame
       /\ Exists(t)' /\ Lookup(t, p)' = NoFrame
       => \A n \in 1 .. Levels - 1 :
            LET o == Reached(heap, root[t], p)'[n]
            IN  o = NULL \/ heap'[o].active > 0]_vars

Private == INSTANCE PrivateTables
  WITH tables <- [t \in Table |->
                    IF Exists(t) THEN [p \in Path |-> Lookup(t, p)] ELSE NoTable]

\* Sharing is not to be seen: a table changes by what is mapped and unmapped in
\* it and by nothing else, also when an allocation fails half way down.
ImplementsPrivateTables == Private!Spec

\* Each call does to the private tables what its name says, for its own table and
\* page; one that runs out of memory does nothing.
CallsMatch ==
  [][\A t \in Table, p \in Path :
       /\ \A f \in Frame : Map(t, p, f) => Private!Map(t, p, f)
       /\ Unmap(t, p) => Private!Unmap(t, p)
       /\ \A depth \in 1 .. Levels :
            RunsOut(t, p, depth) => Private!Unchanged]_vars

=============================================================================

----------------------------- MODULE CowManager -----------------------------
(***************************************************************************)
(* src/cow.c: for each frame a linked list of the processes and pages that *)
(* map it, with the newest mapping at its head.                            *)
(***************************************************************************)
EXTENDS Naturals, FiniteSets

CONSTANTS Frame,
          Mapping,   \* pairs of a process and a page
          CellCount  \* bound: cells that calloc can give out

NULL == 0
Cell == 1 .. CellCount

ASSUME ListsAssumption ==
  /\ IsFiniteSet(Frame)
  /\ CellCount \in Nat

VARIABLES
  head,   \* manager->frames
  cell    \* the allocated cells: mapping and next

vars == <<head, cell>>

\* cow_manager_create
Init ==
  /\ head = [f \in Frame |-> NULL]
  /\ cell = <<>>

Allocated == DOMAIN cell

\* The cells that a walk along a list comes to: its head and the next of each,
\* up to NULL, and no others.
Closed(S) == \A c \in S : cell[c].next \in S \union {NULL}

CellsOf(f) ==
  LET reached == {S \in SUBSET Allocated : head[f] \in S \union {NULL} /\ Closed(S)}
  IN  {c \in Allocated : \A S \in reached : c \in S}

Mappings(f) == {cell[c].mapping : c \in CellsOf(f)}

\* cow_manager_has_mapping
HasMapping(f, m) == m \in Mappings(f)

\* Mutant: the list is not searched before.
AddTwice(f, m) ==
  /\ \E c \in Cell \ Allocated :
       /\ \A d \in Cell \ Allocated : c <= d
       /\ cell' = [d \in Allocated \union {c} |->
                     IF d = c THEN [mapping |-> m, next |-> head[f]] ELSE cell[d]]
       /\ head' = [head EXCEPT ![f] = c]

\* cow_manager_add_mapping; a mapping that is there is not added again.
Add(f, m) ==
  /\ ~HasMapping(f, m)
  /\ \E c \in Cell \ Allocated :
       /\ \A d \in Cell \ Allocated : c <= d
       /\ cell' = [d \in Allocated \union {c} |->
                     IF d = c THEN [mapping |-> m, next |-> head[f]] ELSE cell[d]]
       /\ head' = [head EXCEPT ![f] = c]

\* The pointer *current once the search for m stopped at cell c: the head of the
\* list, or the next of the cell before.
PointsTo(f, c) == {d \in CellsOf(f) : cell[d].next = c}

Without(S) == [d \in Allocated \ S |-> cell[d]]

\* Mutant: the head of the list is overwritten instead of the last pointer.
RemoveAtHead(f, m) ==
  /\ \E c \in CellsOf(f) :
       /\ cell[c].mapping = m
       /\ head' = [head EXCEPT ![f] = cell[c].next]
       /\ cell' = Without({c})

\* cow_manager_remove_mapping of a mapping that is there
RemoveMapping(f, m) ==
  /\ \E c \in CellsOf(f) :
       /\ cell[c].mapping = m
       /\ IF head[f] = c
            THEN /\ head' = [head EXCEPT ![f] = cell[c].next]
                 /\ cell' = Without({c})
            ELSE /\ UNCHANGED head
                 /\ LET before == PointsTo(f, c)
                    IN  cell' = [d \in Allocated \ {c} |->
                          IF d \in before
                            THEN [cell[d] EXCEPT !.next = cell[c].next]
                            ELSE cell[d]]

\* cow_manager_destroy frees what it finds in the lists, and the next memory
\* creates a manager of its own.
Destroy ==
  /\ cell' = Without(UNION {CellsOf(f) : f \in Frame})
  /\ head' = [f \in Frame |-> NULL]

Next ==
  \/ \E f \in Frame, m \in Mapping : Add(f, m) \/ RemoveMapping(f, m)
  \/ Destroy

Spec == Init /\ [][Next]_vars

-----------------------------------------------------------------------------

\* Every allocated cell is in one list, and there once: no list runs into
\* another, none is cut off and leaks, none reaches a freed cell.
CellsInOneList ==
  /\ \A f \in Frame : head[f] \in Allocated \union {NULL}
  /\ \A c \in Allocated : cell[c].next \in Allocated \union {NULL}
  /\ Allocated = UNION {CellsOf(f) : f \in Frame}
  /\ \A c \in Allocated :
       Cardinality({f \in Frame : head[f] = c})
         + Cardinality({d \in Allocated : cell[d].next = c}) = 1

\* cow_manager_mapping_count counts cells and cow_manager_collect_frame_mappings
\* fills an array of that size; copy-on-write needs the number of processes that
\* map the frame, and each of them once.
CountsMappingsOnce ==
  \A f \in Frame : Cardinality(CellsOf(f)) = Cardinality(Mappings(f))

Sets == INSTANCE FrameMappings
  WITH mappings <- [f \in Frame |-> Mappings(f)]

\* Insertions at the head and removals anywhere make, for each frame, the set
\* of mappings that VirtualMemory works with.
ImplementsFrameMappings == Sets!Spec

=============================================================================

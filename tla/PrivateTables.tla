--------------------------- MODULE PrivateTables ---------------------------
(* What the page tables promise, and what VirtualMemory assumes of them: each *)
(* table is a map of its own, and a fork copies it.                           *)
CONSTANTS Table, Path, Frame,
          NoFrame,   \* nothing is mapped there
          NoTable    \* the table does not exist

VARIABLE tables

Init == tables = [t \in Table |-> NoTable]

Exists(t) == tables[t] # NoTable

Create(t) ==
  /\ ~Exists(t)
  /\ tables' = [tables EXCEPT ![t] = [p \in Path |-> NoFrame]]

Fork(parent, child) ==
  /\ Exists(parent) /\ ~Exists(child)
  /\ tables' = [tables EXCEPT ![child] = tables[parent]]

Map(t, p, f) ==
  /\ Exists(t)
  /\ tables' = [tables EXCEPT ![t][p] = f]

Unmap(t, p) ==
  /\ Exists(t) /\ tables[t][p] # NoFrame
  /\ tables' = [tables EXCEPT ![t][p] = NoFrame]

Destroy(t) ==
  /\ Exists(t)
  /\ tables' = [tables EXCEPT ![t] = NoTable]

Next ==
  \E t \in Table :
    \/ Create(t) \/ Destroy(t)
    \/ \E child \in Table : Fork(t, child)
    \/ \E p \in Path : Unmap(t, p) \/ \E f \in Frame : Map(t, p, f)

Unchanged == UNCHANGED tables

Spec == Init /\ [][Next]_tables

=============================================================================

-------------------------- MODULE MemoryRefinement --------------------------
(* VirtualMemory seen as the private memories that ProcessMemory promises.  *)
EXTENDS VirtualMemory

\* What each process would read at each page.
Memories == [p \in Proc |-> [v \in Page |-> Content(p, v)]]

Memory == INSTANCE ProcessMemory WITH mem <- Memories

\* The simulator implements the private memories of ProcessMemory: whatever
\* virtual_memory.c does with frames, slots and translations, each call looks
\* to the processes like one step of their memories.
ImplementsProcessMemory == Memory!Spec

\* Each call is the step of the memories that bears its name, of the same process,
\* page and value: a write is the write that was asked for, a fork gives the child
\* pages of this parent, a release empties the memory of this process.
CallsMatch ==
  [][/\ \A p \in Proc, v \in Page, x \in Value :
          Write(p, v, x) => Memory!Write(p, v, x)
     /\ \A p \in Proc : Release(p) => Memory!Release(p)
     /\ \A p, c \in Proc : Fork(p, c) => Memory!Fork(p, c)]_vars

=============================================================================

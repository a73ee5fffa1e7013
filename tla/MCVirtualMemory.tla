-------------------------- MODULE MCVirtualMemory --------------------------
(* Small instances of VirtualMemory for TLC. *)
EXTENDS MemoryRefinement, TLC

CONSTANTS p1, p2, p3, v1, v2, v3, a1, a2, a3

\* Every page has a path of its own.
OnePathEach == [v \in Page |-> CASE v = v1 -> a1 [] v = v2 -> a2 [] OTHER -> a3]

ProcSymmetry == Permutations(Proc)

=============================================================================

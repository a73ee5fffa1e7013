--------------------------- MODULE MCOutOfMemory ---------------------------
(* Instances of OutOfMemory for TLC; pages and paths are those of *)
(* MCVirtualMemory.                                               *)
EXTENDS MCVirtualMemory, OutOfMemory

=============================================================================

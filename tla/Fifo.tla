-------------------------------- MODULE Fifo --------------------------------
(* src/replacement/fifo.c: frames in the order of their loading, in an array *)
(* that is compacted when a frame leaves it.                                 *)
EXTENDS ReplacementPolicy

FifoStart == [queue |-> [i \in Frame |-> 0], size |-> 0, loaded |-> {}]

FifoOnLoad(s, f) ==
  IF f \in s.loaded \/ s.size >= FrameCount
    THEN s
    ELSE [queue |-> [s.queue EXCEPT ![s.size] = f],
          size |-> s.size + 1,
          loaded |-> s.loaded \union {f}]

\* Mutant: the array is not compacted.
FifoOnEvictWithHole(s, f) ==
  IF f \notin s.loaded
    THEN s
    ELSE [s EXCEPT !.size = @ - 1, !.loaded = @ \ {f}]

FifoOnEvict(s, f) ==
  LET positions == {i \in 0 .. s.size - 1 : s.queue[i] = f}
      moves(i) == i + 1 < s.size /\ \E j \in positions : j <= i
  IN  IF f \notin s.loaded \/ positions = {}
        THEN s
        ELSE [queue |-> [i \in Frame |->
                           IF moves(i) THEN s.queue[i + 1] ELSE s.queue[i]],
              size |-> s.size - 1,
              loaded |-> s.loaded \ {f}]

FifoVictim(s) == IF s.size = 0 THEN InvalidFrame ELSE s.queue[0]

=============================================================================

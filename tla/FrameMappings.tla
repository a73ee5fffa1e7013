--------------------------- MODULE FrameMappings ---------------------------
(* What the COW manager promises, and what VirtualMemory assumes of it: a set *)
(* of mappings for each frame.                                                *)
CONSTANTS Frame, Mapping

VARIABLE mappings   \* of each frame

Init == mappings = [f \in Frame |-> {}]

Add(f, m) == mappings' = [mappings EXCEPT ![f] = @ \union {m}]

Remove(f, m) ==
  /\ m \in mappings[f]
  /\ mappings' = [mappings EXCEPT ![f] = @ \ {m}]

Clear == mappings' = [f \in Frame |-> {}]

Next == (\E f \in Frame, m \in Mapping : Add(f, m) \/ Remove(f, m)) \/ Clear

Spec == Init /\ [][Next]_mappings

=============================================================================

-------------------------------- MODULE Lru --------------------------------
(* src/replacement/lru.c: every load and access stamps the frame with a     *)
(* logical clock.                                                           *)
EXTENDS ReplacementPolicy

LruStart == [loaded |-> {}, last |-> [f \in Frame |-> 0], clock |-> 0]

\* lru_update_access
Stamped(s, f) ==
  [loaded |-> s.loaded,
   last |-> [s.last EXCEPT ![f] = s.clock + 1],
   clock |-> s.clock + 1]

LruOnLoad(s, f) == Stamped([s EXCEPT !.loaded = @ \union {f}], f)

\* Mutant: an access is not recorded.
LruOnAccessIgnored(s, f) == s

LruOnAccess(s, f) == IF f \in s.loaded THEN Stamped(s, f) ELSE s

LruOnEvict(s, f) ==
  IF f \in s.loaded
    THEN [s EXCEPT !.loaded = @ \ {f}, !.last[f] = 0]
    ELSE s

\* The first loaded frame with the smallest stamp.
LruVictim(s) ==
  IF s.loaded = {}
    THEN InvalidFrame
    ELSE CHOOSE f \in s.loaded : \A g \in s.loaded \ {f} :
           \/ s.last[f] < s.last[g]
           \/ s.last[f] = s.last[g] /\ f < g

=============================================================================

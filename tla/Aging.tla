------------------------------- MODULE Aging -------------------------------
(* src/replacement/aging.c: at every tick the age of a loaded frame is       *)
(* shifted right and takes the referenced bit at its left end.               *)
EXTENDS ReplacementPolicy

CONSTANT AgeBits     \* 8 in the code, where ages are uint8_t

ASSUME AgeBitsAssumption == AgeBits \in Nat \ {0}

AgingStart ==
  [loaded |-> {}, referenced |-> {}, age |-> [f \in Frame |-> 0]]

AgingOnLoad(s, f) ==
  [loaded |-> s.loaded \union {f},
   referenced |-> s.referenced \union {f},
   age |-> [s.age EXCEPT ![f] = 0]]

AgingOnAccess(s, f) ==
  IF f \in s.loaded THEN [s EXCEPT !.referenced = @ \union {f}] ELSE s

AgingOnEvict(s, f) ==
  IF f \in s.loaded
    THEN [loaded |-> s.loaded \ {f},
          referenced |-> s.referenced \ {f},
          age |-> [s.age EXCEPT ![f] = 0]]
    ELSE s

\* The first loaded frame of the smallest age.
AgingVictim(s) ==
  IF s.loaded = {}
    THEN InvalidFrame
    ELSE CHOOSE f \in s.loaded : \A g \in s.loaded \ {f} :
           s.age[f] < s.age[g] \/ (s.age[f] = s.age[g] /\ f < g)

\* Mutant: the referenced bits are not cleared.
AgingTickKeepsBits(s) ==
  [s EXCEPT !.age = [f \in Frame |->
     IF f \notin s.loaded THEN s.age[f]
     ELSE s.age[f] \div 2 + (IF f \in s.referenced THEN 2 ^ (AgeBits - 1) ELSE 0)]]

AgingTick(s) ==
  [loaded |-> s.loaded,
   referenced |-> s.referenced \ s.loaded,
   age |-> [f \in Frame |->
     IF f \notin s.loaded THEN s.age[f]
     ELSE s.age[f] \div 2 + (IF f \in s.referenced THEN 2 ^ (AgeBits - 1) ELSE 0)]]

=============================================================================

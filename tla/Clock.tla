------------------------------- MODULE Clock -------------------------------
(***************************************************************************)
(* src/replacement/clock.c: the second-chance algorithm.  choose_victim    *)
(* turns the hand and clears the referenced bits on its way, and the       *)
(* caller may then refuse the victim: what the hand did stays done.        *)
(*                                                                         *)
(* The loop is given here in closed form; ClockLoop has it turn by turn.   *)
(***************************************************************************)
EXTENDS ReplacementPolicy, FiniteSetsExt

ClockStart == [loaded |-> {}, referenced |-> {}, hand |-> 0]

ClockOnLoad(s, f) ==
  [s EXCEPT !.loaded = @ \union {f}, !.referenced = @ \union {f}]

ClockOnAccess(s, f) ==
  IF f \in s.loaded THEN [s EXCEPT !.referenced = @ \union {f}] ELSE s

ClockOnEvict(s, f) ==
  IF f \in s.loaded
    THEN [s EXCEPT !.loaded = @ \ {f}, !.referenced = @ \ {f}]
    ELSE s

\* The frame under the hand after i steps.
Under(s, i) == (s.hand + i) % FrameCount

\* The steps after which the hand stops: at an unreferenced frame in the first
\* round, at a frame whose bit that round cleared in the second.
StopsAfter(s) ==
  Min({i \in 0 .. 2 * FrameCount - 1 :
         /\ Under(s, i) \in s.loaded
         /\ Under(s, i) \notin s.referenced \/ i >= FrameCount})

ClockVictim(s) ==
  IF s.loaded = {} THEN InvalidFrame ELSE Under(s, StopsAfter(s))

\* Mutant: the hand stays on the victim.
ClockSweepStays(s) ==
  IF s.loaded = {}
    THEN s
    ELSE [s EXCEPT !.hand = Under(s, StopsAfter(s)),
                   !.referenced = @ \ {Under(s, i) : i \in 0 .. StopsAfter(s) - 1}]

\* The state that choose_victim leaves.
ClockSweep(s) ==
  IF s.loaded = {}
    THEN s
    ELSE [s EXCEPT !.hand = Under(s, StopsAfter(s) + 1),
                   !.referenced = @ \ {Under(s, i) : i \in 0 .. StopsAfter(s) - 1}]

=============================================================================

----------------------------- MODULE ClockLoop -----------------------------
(***************************************************************************)
(* The loop of clock_choose_victim, one turn of the hand at a time.  It is *)
(* a while (true): that it ends, and where, is not to be seen from the     *)
(* code.  A loop is the state of the policy, whether it is still turning,  *)
(* and the frame it returned.                                              *)
(***************************************************************************)
EXTENDS Clock

\* The call: without a loaded frame it returns at once.
Called(s) ==
  [state |-> s, turning |-> s.loaded # {}, victim |-> InvalidFrame]

\* Mutant: the hand stays on the victim.
TurnStays(loop) ==
  LET f == loop.state.hand
      found == f \in loop.state.loaded \ loop.state.referenced
  IN  [state |-> IF found THEN loop.state
                 ELSE [loop.state EXCEPT !.hand = Under(loop.state, 1),
                                         !.referenced = @ \ {f}],
       turning |-> ~found,
       victim |-> IF found THEN f ELSE InvalidFrame]

\* One turn: pass a frame that is not loaded, give a second chance, or stop.
Turn(loop) ==
  LET s == loop.state
      found == s.hand \in s.loaded \ s.referenced
  IN  [state |-> [loaded |-> s.loaded,
                  referenced |-> s.referenced \ {s.hand},
                  hand |-> Under(s, 1)],
       turning |-> ~found,
       victim |-> IF found THEN s.hand ELSE InvalidFrame]

\* The loop n turns after the call on state s, or where it ended before.
After(s, n) ==
  LET loop[i \in 0 .. n] ==
        IF i = 0 THEN Called(s)
        ELSE IF loop[i - 1].turning THEN Turn(loop[i - 1]) ELSE loop[i - 1]
  IN  loop[n]

=============================================================================

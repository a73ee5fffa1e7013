---------------------------- MODULE VictimQueue ----------------------------
(* A replacement order as one would explain it: the items stand in a queue,  *)
(* newcomers at the back, and the head is the next to go.  The reference for *)
(* the arrays, stamps and links by which the code finds its victims.         *)
(*                                                                           *)
(* A queue is the set of the pairs <<x, y>> of its items in which x is y, or *)
(* stands before y.                                                          *)
EXTENDS FiniteSets

Nobody == {}

Waiting(queue) == {pair[1] : pair \in queue}

\* The item at the head.
Foremost(queue) ==
  CHOOSE x \in Waiting(queue) : \A y \in Waiting(queue) : <<x, y>> \in queue

\* The items of S leave, wherever they stand.
Left(queue, S) == {pair \in queue : pair[1] \notin S /\ pair[2] \notin S}

\* x is used, or is new: it goes to the back.
Used(queue, x) ==
  LET others == Left(queue, {x})
  IN  others \union {<<y, x>> : y \in Waiting(others) \union {x}}

\* x comes in; when there is no room the head goes.
Entered(queue, x, capacity) ==
  LET others == Left(queue, {x})
  IN  IF Cardinality(Waiting(others)) = capacity
        THEN Used(Left(others, {Foremost(others)}), x)
        ELSE Used(others, x)

=============================================================================

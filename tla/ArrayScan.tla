----------------------------- MODULE ArrayScan -----------------------------
(* The loop that most searches of this program are: over an array from its   *)
(* start, until the first element that fits.                                 *)
EXTENDS Integers

\* The first of the positions in S.
First(S) == CHOOSE i \in S : \A j \in S : i <= j

=============================================================================

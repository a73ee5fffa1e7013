---------------------------- MODULE MCPageTable ----------------------------
(* Small tries. *)
EXTENDS PageTable

\* Two pages that share every node.
TwoPaths == {[i \in 1 .. Levels |-> 0],
             [i \in 1 .. Levels |-> IF i = Levels THEN 1 ELSE 0]}

\* A state up to the addresses of its objects: each is known by the tables and
\* the paths that lead to it.
Shapes ==
  LET at == {<<x, Reached(heap, root[x[1]], x[2])[x[3]]>> :
               x \in Table \X Path \X (0 .. Levels)}
  IN  {<<{y[1] : y \in {z \in at : z[2] = o}},
         heap[o].refs, heap[o].active, heap[o].frame>> : o \in DOMAIN heap}

=============================================================================

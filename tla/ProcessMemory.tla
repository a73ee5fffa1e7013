--------------------------- MODULE ProcessMemory ---------------------------
(***************************************************************************)
(* What the simulator promises the processes: a private memory for each of *)
(* them, with no frames, TLB, swap or sharing in sight.                    *)
(*                                                                         *)
(* The promise is weaker than that of a real machine in two places, and    *)
(* the weakness is that of the code: an access that has to evict a page    *)
(* may lose what the page held (Lost), and a child starts without the      *)
(* pages its parent had in swap.  Everything else is as one would hope: a  *)
(* page changes by a write of its own process only, a call loses at most   *)
(* one page, and no process ever sees a value another one wrote after the  *)
(* fork that separated them.                                               *)
(***************************************************************************)
CONSTANTS Proc, Page, Value, Zero

VARIABLE mem      \* mem[p][v]: what process p reads at page v

Blank == [v \in Page |-> Zero]

TypeOK == mem \in [Proc -> [Page -> Value]]

Init == mem = [p \in Proc |-> Blank]

\* The memory after the page v of p was given up, and after nothing was.
Lost(p, v) == [mem EXCEPT ![p][v] = Zero]
AfterEviction == {mem} \union {Lost(p, v) : p \in Proc, v \in Page}

Read == mem' \in AfterEviction

Write(p, v, x) == mem' \in {[m EXCEPT ![p][v] = x] : m \in AfterEviction}

Fork(p, c) ==
  /\ p # c
  /\ mem[c] = Blank
  /\ \E inherited \in SUBSET Page :
       mem' = [mem EXCEPT ![c] =
                 [v \in Page |-> IF v \in inherited THEN mem[p][v] ELSE Zero]]

Release(p) == mem' = [mem EXCEPT ![p] = Blank]

Next ==
  \/ Read
  \/ \E p \in Proc, v \in Page, x \in Value : Write(p, v, x)
  \/ \E p, c \in Proc : Fork(p, c)
  \/ \E p \in Proc : Release(p)

Spec == Init /\ [][Next]_mem

=============================================================================

--------------------------- MODULE TraceGenerator ---------------------------
(***************************************************************************)
(* The program tracegen: trace_generator_generate, which writes a trace    *)
(* line by line.  The pseudo-random numbers are those of the code, of      *)
(* which the low bits are kept: they do not depend on the others, and they *)
(* are all that a page count that is a power of two looks at.  Whether an  *)
(* access is a write depends on the other bits and may come out either way.*)
(***************************************************************************)
EXTENDS Naturals, FiniteSets

CONSTANTS
  PageSize,       \* bytes in a page
  AddressCount,   \* addresses are 0 .. AddressCount - 1
  PageCounts,     \* values of --pages, powers of two up to RandomCount
  AccessCounts,   \* values of --accesses
  Bases           \* values of --base

\* The four low bits of the state; multiplier and increment modulo 16.
RandomCount == 16
Multiplier == 13
Increment == 15

Patterns == {"sequential", "random"}

VARIABLES
  options,   \* TraceGeneratorOptions
  phase,     \* where trace_generator_generate is
  random,    \* random.state
  index,     \* access_index
  lines      \* the lines that were written, as a set

vars == <<options, phase, random, index, lines>>

Init ==
  /\ options \in [pattern : Patterns, pages : PageCounts,
                  accesses : AccessCounts, base : Bases,
                  seed : 0 .. RandomCount - 1]
  /\ phase = "start"
  /\ random = 0 /\ index = 0 /\ lines = {}

\* The last page begins at an address.
RangeIsValid ==
  options.pages - 1 <= (AddressCount - 1 - options.base) \div PageSize

Open ==
  /\ phase = "start"
  /\ \/ RangeIsValid /\ phase' = "writing" /\ random' = options.seed
     \/ phase' = "failed" /\ UNCHANGED random
  /\ UNCHANGED <<options, index, lines>>

\* trace_random_next
Drawn(state) == (state * Multiplier + Increment) % RandomCount

\* trace_choose_page: the page, and the state after it.
Chosen ==
  IF options.pattern = "sequential"
    THEN [page |-> index % options.pages, random |-> random]
    ELSE [page |-> Drawn(random) % options.pages, random |-> Drawn(random)]

\* One turn of the loop: a page and an operation are drawn, the line is written.
WriteLine ==
  /\ phase = "writing"
  /\ index < options.accesses
  /\ random' = Drawn(Chosen.random)
  /\ index' = index + 1
  /\ \E w \in BOOLEAN :
       lines' = lines \union {<<w, options.base + Chosen.page * PageSize>>}
  /\ UNCHANGED <<options, phase>>

\* fprintf or fclose fails.
WriteFails ==
  /\ phase = "writing"
  /\ phase' = "failed"
  /\ UNCHANGED <<options, random, index, lines>>

Close ==
  /\ phase = "writing"
  /\ index = options.accesses
  /\ phase' = "done"
  /\ UNCHANGED <<options, random, index, lines>>

Next == Open \/ WriteLine \/ WriteFails \/ Close

Spec == Init /\ [][Next]_vars

-----------------------------------------------------------------------------

PagesWritten == {l[2] : l \in lines}

\* src/README.md:178: --pages is the number of distinct pages of the trace.  It
\* is asked only of a trace that draws as many numbers as there are.
PagesAreDistinct ==
  phase = "done" /\ options.accesses >= RandomCount =>
    Cardinality(PagesWritten) = options.pages

=============================================================================

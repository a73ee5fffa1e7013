---------------------------- MODULE TraceReader ----------------------------
(***************************************************************************)
(* src/trace.c: what a line of a trace asks for.  A line is what one call  *)
(* of fgets returns, a whole line or a piece of one that is longer than    *)
(* the buffer; here it is its first letter, in upper case, and the address *)
(* and the size that sscanf found behind it, a size of 0 when it found no  *)
(* address.                                                                *)
(***************************************************************************)
EXTENDS Naturals, FiniteSets

CONSTANTS
  PageSize,      \* bytes in a page
  AddressCount   \* addresses are 0 .. AddressCount - 1

ASSUME AddressAssumption ==
  /\ PageSize \in Nat \ {0}
  /\ AddressCount \in Nat \ {0}
  /\ AddressCount % PageSize = 0

\* What sscanf makes of a line: an address and a size, 0 without an address.
TraceLine == [op : STRING, address : 0 .. AddressCount - 1, size : Nat]

\* Blank lines, comments and instruction fetches.
Ignored(l) == l.op \in {"blank", "#", "I"}

\* trace_parse_parameters
HasParameters(l) == l.size > 0

\* trace_parse_line returns 1.
Valid(l) == l.op \in {"R", "L", "W", "S", "M"} /\ HasParameters(l)

\* The entry that trace_parse_line fills; M is a read ...
EntryOf(l) ==
  [write |-> l.op \in {"W", "S"}, address |-> l.address, size |-> l.size]

\* ... and leaves a write for the next call.
Modifies(l) == l.op = "M"
WriteAfter(entry) ==
  [write |-> TRUE, address |-> entry.address, size |-> entry.size]

\* The last byte of the entry is no address.
Overflows(entry) == entry.size - 1 > AddressCount - 1 - entry.address

FirstPage(entry) == entry.address \div PageSize

\* Mutant: an entry stays in the page it starts in.
LastPageIsFirst(entry) == FirstPage(entry)

LastPage(entry) == (entry.address + (entry.size - 1)) \div PageSize

=============================================================================

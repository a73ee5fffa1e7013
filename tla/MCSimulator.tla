---------------------------- MODULE MCSimulator ----------------------------
(* The simulator on small traces, command lines and files. *)
EXTENDS Simulator

CONSTANT p1

\* Twelve addresses, pages of two bytes; pages 0 and 3 share a path.
ThreeIsZero == [v \in Page |-> IF v = 3 THEN 0 ELSE v]

Line(op, address, size) == [op |-> op, address |-> address, size |-> size]

\* Every kind of line: ignored, of an unknown operation, without an address,
\* beyond the last address; accesses within a page, over two, over all of them.
Lines ==
  {Line("#", 0, 0), Line("?", 0, 0), Line("R", 0, 0), Line("M", 11, 2),
   Line("R", 0, 1), Line("W", 2, 2), Line("L", 6, 1), Line("S", 11, 1),
   Line("R", 1, 2), Line("W", 3, 5), Line("M", 5, 2)}

\* Traces of three lines of any kind, and of four that are good.
ShortTraces ==
  BoundedSeq(Lines, 3)
  \union BoundedSeq({Line("R", 0, 1), Line("W", 2, 2), Line("L", 6, 1),
                    Line("W", 3, 5), Line("M", 5, 2)}, 4)

\* All command lines of up to three arguments, and some longer ones.
ShortCommandLines ==
  BoundedSeq({"--help", "--csv-overwrite", "--trace", "--frames", "--pid",
              "--policy", "0", "7", "fifo"}, 3)
  \union {a \o <<"--trace", "7">> :
            a \in {<<"--csv", "7">>, <<"--csv", "7", "--csv-overwrite">>,
                  <<"--keep-swap", "--csv", "--csv-overwrite">>,
                  <<"--trace", "0">>, <<"--frames", "7", "--pid", "0">>}}

\* What earlier runs may have left: whole lines, a header or a row torn or
\* without its end of line, and rows that joined a torn line.
FilesBefore ==
  LET lines == <<"header", "newline", "row", "newline">>
  IN  {<<>>, lines, <<"tornHeader">>, SubSeq(lines, 1, 3),
       lines \o <<"tornRow">>, lines \o <<"tornRow", "row", "newline">>,
       <<"header">>, <<"tornHeader", "row", "newline">>}

=============================================================================

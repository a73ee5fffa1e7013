------------------------------ MODULE CsvFile ------------------------------
(***************************************************************************)
(* src/csv_export.c: the file of results.  Its content is a sequence of    *)
(* pieces: the text of the header, the text of a row, what is left of      *)
(* either when a write stopped in the middle, and ends of lines.  What is  *)
(* appended to a file that does not end with an end of line continues its  *)
(* last line.                                                              *)
(***************************************************************************)
EXTENDS Naturals, Sequences

Piece == {"header", "row", "tornHeader", "tornRow", "newline"}

Torn == [header |-> "tornHeader", row |-> "tornRow"]

\* Mutant: an appended row brings its header.
HeaderAlways(file, append) == TRUE

\* csv_file_is_empty is asked only when the file is appended to.
HeaderIsDue(file, append) == ~append \/ file = <<>>

\* fopen with mode "a+" or "w".
Opened(file, append) == IF append THEN file ELSE <<>>

\* csv_write_header and csv_write_result_row: each ends its line, and neither
\* looks at what the file ends with.
Pieces(file, append) ==
  (IF HeaderIsDue(file, append) THEN <<"header", "newline">> ELSE <<>>)
  \o <<"row", "newline">>

\* csv_export_result, when everything reaches the file ...
Exported(file, append) == Opened(file, append) \o Pieces(file, append)

\* ... and what it may leave when it returns -1: the file as it was, when it
\* could not be opened, or any part of what was to be written.
LeftByFailure(file, append) ==
  LET pieces == Pieces(file, append)
      Written(n) == Opened(file, append) \o SubSeq(pieces, 1, n)
  IN  {file}
      \union {Written(n) : n \in 0 .. Len(pieces)}
      \union {Append(Written(n), Torn[pieces[n + 1]]) :
                n \in {k \in 0 .. Len(pieces) - 1 : pieces[k + 1] \in DOMAIN Torn}}

-----------------------------------------------------------------------------
(* How a file is read: line by line. *)

\* A line starts at place i.
Starts(file, i) == i = 1 \/ file[i - 1] = "newline"

\* Place i holds a line of that text and of nothing else.
IsLine(file, i, text) ==
  /\ Starts(file, i)
  /\ file[i] = text
  /\ i < Len(file) /\ file[i + 1] = "newline"

\* The rows a reader finds ...
Results(file) == {i \in DOMAIN file : IsLine(file, i, "row")}

\* ... and the lines that are neither a row nor the header.
Damaged(file) ==
  {i \in DOMAIN file :
     Starts(file, i) /\ ~IsLine(file, i, "row") /\ ~IsLine(file, i, "header")}

\* The last line has its end.
Whole(file) == file = <<>> \/ file[Len(file)] = "newline"

\* A header stands at the beginning of the file or nowhere.
HeaderFirst(file) ==
  /\ file \in Seq(Piece)
  /\ \A i \in DOMAIN file : file[i] = "header" => i = 1

=============================================================================

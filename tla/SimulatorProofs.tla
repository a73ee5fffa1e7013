--------------------------- MODULE SimulatorProofs ---------------------------
(***************************************************************************)
(* The program vmsim for any number of frames, entries and slots, and for  *)
(* any traces, files and command lines.                                    *)
(***************************************************************************)
EXTENDS Simulator, VirtualMemoryProofs, ArrayScanProofs, SequenceTheorems

-----------------------------------------------------------------------------
(* What main holds. *)

\* What is held follows from the place in main.
HeldInPhase ==
  CASE phase \in {"start", "create memory"} -> held = {}
    [] phase = "create process" -> held = {"memory", "swap file"}
    [] phase = "replay" -> held = {"memory", "swap file", "process", "reader"}
    [] phase \in {"open trace", "replay failed", "report", "export failed", "end"} ->
         held = {"memory", "swap file", "process"}
    [] phase = "done" ->
         held \subseteq IF options.removeSwap THEN {} ELSE {"swap file"}

HeldInv ==
  /\ phase \in {"start", "create memory", "create process", "open trace", "replay",
                "replay failed", "report", "export failed", "end", "done"}
  /\ HeldInPhase

LEMMA HeldNext == HeldInv /\ [SimNext]_simVars => HeldInv'
<1> SUFFICES ASSUME HeldInv, [SimNext]_simVars PROVE HeldInv'
  OBVIOUS
<1> USE DEF HeldInv, HeldInPhase, Becomes
<1>1. CASE ReadCommandLine
  BY <1>1 DEF ReadCommandLine
<1>2. CASE CreateMemory \/ CreateMemoryFails
  BY <1>2 DEF CreateMemory, CreateMemoryFails
<1>3. CASE StartProcess \/ StartProcessFails
  BY <1>3 DEF StartProcess, StartProcessFails, WithoutMemory
<1>4. CASE OpenTrace \/ OpenTraceFails
  BY <1>4 DEF OpenTrace, OpenTraceFails, Returns
<1>5. CASE TakePending \/ ReadLine \/ AccessPage
  BY <1>5 DEF TakePending, ReadLine, AccessPage, Replaying
<1>6. CASE ReadFails \/ EndOfFile \/ AccessPageFails \/ EntryFails
  BY <1>6 DEF ReadFails, EndOfFile, AccessPageFails, EntryFails, Returns, Replaying
<1>7. CASE Export \/ ExportFails \/ NothingToExport
  BY <1>7 DEF Export, ExportFails, NothingToExport
<1>8. CASE Leave
  BY <1>8 DEF Leave, WithoutMemory
<1>9. CASE UNCHANGED simVars
  BY <1>9 DEF simVars
<1> QED
  BY <1>1, <1>2, <1>3, <1>4, <1>5, <1>6, <1>7, <1>8, <1>9 DEF SimNext

\* Whichever way the program ends, nothing is held but a swap file that was to
\* be kept.
THEOREM NothingHeldCorrect == SimSpec => []NothingHeldAtExit
<1>1. SimInit => HeldInv
  BY DEF SimInit, HeldInv, HeldInPhase
<1>2. HeldInv => NothingHeldAtExit
  BY DEF HeldInv, HeldInPhase, NothingHeldAtExit
<1> QED
  BY <1>1, <1>2, HeldNext, PTL DEF SimSpec

-----------------------------------------------------------------------------
(* The CSV file. *)

\* A header, if one is due, and a row, each with the end of its line.
LEMMA PiecesShape ==
  ASSUME NEW file, NEW append
  PROVE  LET pieces == Pieces(file, append)
         IN  /\ pieces \in Seq(Piece)
             /\ IF append /\ file # <<>>
                  THEN Len(pieces) = 2 /\ pieces[1] = "row" /\ pieces[2] = "newline"
                  ELSE /\ Len(pieces) = 4 /\ pieces[1] = "header" /\ pieces[2] = "newline"
                       /\ pieces[3] = "row" /\ pieces[4] = "newline"
<1> DEFINE S == Piece
           h == <<"header", "newline">>
           r == <<"row", "newline">>
<1>1. /\ h \in Seq(S) /\ Len(h) = 2 /\ h[1] = "header" /\ h[2] = "newline"
      /\ r \in Seq(S) /\ Len(r) = 2 /\ r[1] = "row" /\ r[2] = "newline"
  BY DEF Piece
<1>2. Pieces(file, append) = IF append /\ file # <<>> THEN <<>> \o r ELSE h \o r
  BY DEF Pieces, HeaderIsDue
<1> HIDE DEF S, h, r
<1>3. <<>> \o r = r
  BY <1>1, ConcatEmptySeq
<1>4. /\ h \o r \in Seq(S) /\ Len(h \o r) = 4
      /\ \A i \in 1 .. 4 : (h \o r)[i] = IF i <= 2 THEN h[i] ELSE r[i - 2]
  <2>1. /\ h \o r \in Seq(S) /\ Len(h \o r) = Len(h) + Len(r)
        /\ \A i \in 1 .. Len(h) + Len(r) :
             (h \o r)[i] = IF i <= Len(h) THEN h[i] ELSE r[i - Len(h)]
    BY <1>1, ConcatProperties
  <2> QED
    BY <1>1, <2>1
<1>5. /\ (h \o r)[1] = "header" /\ (h \o r)[2] = "newline"
      /\ (h \o r)[3] = "row" /\ (h \o r)[4] = "newline"
  BY <1>1, <1>4
<1> QED
  BY <1>1, <1>2, <1>3, <1>4, <1>5 DEF S

\* The m pieces that an export has written when it returns, behind the file that
\* it opened.
PartOf(opened, part, m) ==
  /\ part \in Seq(Piece) /\ Len(part) = m
  /\ m >= 1 => /\ part[1] # "newline"
               /\ part[1] = "header" => opened = <<>>
  /\ m >= 2 => (part[1] = "header" \/ part[1] = "row") /\ part[2] = "newline"
  /\ m >= 3 => opened = <<>> /\ part[3] # "header"
  /\ m = 4 => part[3] = "row" /\ part[4] = "newline"

LEMMA OpenedShape ==
  ASSUME NEW file, HeaderFirst(file), NEW append
  PROVE  LET opened == Opened(file, append)
         IN  /\ HeaderFirst(opened)
             /\ opened = IF append THEN file ELSE <<>>
             /\ opened = <<>> \/ (append /\ file # <<>>)
<1>1. HeaderFirst(<<>>)
  BY DEF HeaderFirst
<1> QED
  BY <1>1 DEF Opened

\* An export that fails writes a part of what is due ...
LEMMA LeftIsPart ==
  ASSUME NEW file, HeaderFirst(file), NEW append,
         NEW left \in LeftByFailure(file, append)
  PROVE  \/ left = file
         \/ \E m \in 0 .. 4 : \E part : PartOf(Opened(file, append), part, m)
                                       /\ left = Opened(file, append) \o part
<1> DEFINE opened == Opened(file, append)
           pieces == Pieces(file, append)
           size == Len(pieces)
           Begun(n) == SubSeq(pieces, 1, n)
<1>1. /\ opened \in Seq(Piece)
      /\ opened = <<>> \/ (append /\ file # <<>>)
  BY OpenedShape DEF HeaderFirst
<1>2. /\ pieces \in Seq(Piece)
      /\ \/ /\ append /\ file # <<>>
            /\ size = 2 /\ pieces[1] = "row" /\ pieces[2] = "newline"
         \/ /\ ~(append /\ file # <<>>)
            /\ size = 4 /\ pieces[1] = "header" /\ pieces[2] = "newline"
            /\ pieces[3] = "row" /\ pieces[4] = "newline"
  BY PiecesShape
<1>3. \A n \in 0 .. size :
        /\ Begun(n) \in Seq(Piece) /\ Len(Begun(n)) = n
        /\ \A i \in 1 .. n : Begun(n)[i] = pieces[i]
  <2> HIDE DEF pieces
  <2> QED
    BY <1>2
<1>4. ASSUME NEW n \in 0 .. size, left = opened \o Begun(n)
      PROVE  \E m \in 0 .. 4 : \E part : PartOf(opened, part, m) /\ left = opened \o part
  <2> HIDE DEF opened, pieces, size, Begun
  <2>1. n \in 0 .. 4
    BY <1>2
  <2>2. PartOf(opened, Begun(n), n)
    BY <1>1, <1>2, <1>3, <2>1 DEF PartOf
  <2> QED
    BY <1>4, <2>1, <2>2
<1>5. ASSUME NEW n \in 0 .. size - 1, pieces[n + 1] \in DOMAIN Torn,
             left = Append(opened \o Begun(n), Torn[pieces[n + 1]])
      PROVE  \E m \in 0 .. 4 : \E part : PartOf(opened, part, m) /\ left = opened \o part
  <2> DEFINE torn == Torn[pieces[n + 1]]
             part == Append(Begun(n), torn)
  <2> HIDE DEF opened, pieces, size, Begun
  <2>1. /\ torn \in Piece /\ torn # "header" /\ torn # "newline"
        /\ pieces[n + 1] # "newline"
    <3>1. pieces[n + 1] = "header" \/ pieces[n + 1] = "row"
      BY <1>5 DEF Torn
    <3>2. Torn["header"] = "tornHeader" /\ Torn["row"] = "tornRow"
      BY DEF Torn
    <3>3. torn = "tornHeader" \/ torn = "tornRow"
      BY <3>1, <3>2
    <3> QED
      BY <3>1, <3>3 DEF Piece
  <2> HIDE DEF torn
  <2>2. n = 0 \/ (n = 2 /\ size = 4)
    <3>1. n \in {0, 1, 2, 3} /\ (size = 2 => n \in {0, 1})
      BY <1>2
    <3> QED
      BY <1>2, <2>1, <3>1
  <2>3. /\ Begun(n) \in Seq(Piece) /\ Len(Begun(n)) = n
        /\ \A i \in 1 .. n : Begun(n)[i] = pieces[i]
    BY <1>2, <1>3
  <2>4. /\ part \in Seq(Piece) /\ Len(part) = n + 1
        /\ \A i \in 1 .. n : part[i] = pieces[i]
        /\ part[n + 1] = torn
    BY <2>1, <2>3
  <2>5. left = opened \o part
    <3>1. Append(opened \o Begun(n), torn) = opened \o Append(Begun(n), torn)
      BY <1>1, <2>1, <2>3
    <3> QED
      BY <1>5, <3>1 DEF torn
  <2> HIDE DEF part
  <2>6. PartOf(opened, part, n + 1)
    <3>1. CASE n = 0
      BY <2>1, <2>4, <3>1 DEF PartOf
    <3>2. CASE n = 2 /\ size = 4
      <4>1. /\ part[1] = "header" /\ part[2] = "newline" /\ part[3] # "header"
            /\ Len(part) = 3 /\ opened = <<>>
        BY <1>1, <1>2, <2>1, <2>4, <3>2
      <4> QED
        BY <2>4, <3>2, <4>1 DEF PartOf
    <3> QED
      BY <2>2, <3>1, <3>2
  <2>7. n + 1 \in 0 .. 4
    BY <2>2
  <2> QED
    BY <2>5, <2>6, <2>7
<1>6. \/ left = file
      \/ \E n \in 0 .. size : left = opened \o Begun(n)
      \/ \E n \in 0 .. size - 1 : /\ pieces[n + 1] \in DOMAIN Torn
                                 /\ left = Append(opened \o Begun(n), Torn[pieces[n + 1]])
  BY DEF LeftByFailure
<1> QED
  BY <1>4, <1>5, <1>6

\* ... and one that succeeds all of it.
LEMMA AllIsPart ==
  ASSUME NEW file, HeaderFirst(file), NEW append
  PROVE  LET opened == Opened(file, append)
             part == Pieces(file, append)
         IN  \/ /\ opened # <<>>
                /\ PartOf(opened, part, 2) /\ part[1] = "row"
             \/ /\ opened = <<>>
                /\ PartOf(opened, part, 4) /\ part[1] = "header"
<1> DEFINE opened == Opened(file, append)
           part == Pieces(file, append)
<1>1. opened = IF append THEN file ELSE <<>>
  BY OpenedShape
<1>2. /\ part \in Seq(Piece)
      /\ IF append /\ file # <<>>
           THEN Len(part) = 2 /\ part[1] = "row" /\ part[2] = "newline"
           ELSE /\ Len(part) = 4 /\ part[1] = "header" /\ part[2] = "newline"
                /\ part[3] = "row" /\ part[4] = "newline"
  BY PiecesShape
<1> HIDE DEF opened, part
<1>3. CASE append /\ file # <<>>
  <2>1. opened # <<>> /\ part[1] = "row" /\ part[2] = "newline" /\ Len(part) = 2
    BY <1>1, <1>2, <1>3
  <2>2. PartOf(opened, part, 2)
    BY <1>2, <2>1 DEF PartOf
  <2> QED
    BY <2>1, <2>2 DEF opened, part
<1>4. CASE ~(append /\ file # <<>>)
  <2>1. /\ opened = <<>> /\ Len(part) = 4 /\ part[1] = "header"
        /\ part[2] = "newline" /\ part[3] = "row" /\ part[4] = "newline"
    BY <1>1, <1>2, <1>4
  <2>2. PartOf(opened, part, 4)
    BY <1>2, <2>1 DEF PartOf
  <2> QED
    BY <2>1, <2>2 DEF opened, part
<1> QED
  BY <1>3, <1>4

\* A file of n pieces with m more behind it, which leave its lines as they were.
Continues(after, opened, n, part, m) ==
  /\ after \in Seq(Piece) /\ Len(after) = n + m /\ DOMAIN after = 1 .. n + m
  /\ \A i \in 1 .. n : after[i] = opened[i]
  /\ \A i \in 1 .. m : after[n + i] = part[i]
  /\ \A i \in 1 .. n :
       /\ Starts(after, i) <=> Starts(opened, i)
       /\ \A text : IsLine(after, i, text) <=> IsLine(opened, i, text)

\* What is appended leaves the lines in front as they were: it begins with text,
\* so that a line without its end does not become whole.
LEMMA LinesInFront ==
  ASSUME NEW opened, HeaderFirst(opened), NEW n \in Nat, n = Len(opened),
         NEW m \in Nat, NEW part, PartOf(opened, part, m),
         NEW after, after = opened \o part
  PROVE  Continues(after, opened, n, part, m)
<1>1. /\ opened \in Seq(Piece) /\ part \in Seq(Piece) /\ Len(part) = m
      /\ m >= 1 => part[1] # "newline"
  BY DEF HeaderFirst, PartOf
<1>2. /\ after \in Seq(Piece) /\ Len(after) = n + m
      /\ \A i \in 1 .. n + m : after[i] = IF i <= n THEN opened[i] ELSE part[i - n]
  BY <1>1, ConcatProperties
<1>3. DOMAIN after = 1 .. n + m
  BY <1>2
<1>4. /\ \A i \in 1 .. n : after[i] = opened[i]
      /\ \A i \in 1 .. m : after[n + i] = part[i]
  BY <1>2
<1>5. \A i \in 1 .. n : Starts(after, i) <=> Starts(opened, i)
  BY <1>4 DEF Starts
<1>6. ASSUME NEW i \in 1 .. n, NEW text
      PROVE  IsLine(after, i, text) <=> IsLine(opened, i, text)
  <2>1. CASE i < n
    BY <1>2, <1>4, <1>5, <2>1 DEF IsLine
  <2>2. CASE i = n
    <3>1. ~IsLine(opened, i, text)
      BY <2>2 DEF IsLine
    <3>2. i < n + m => after[i + 1] # "newline"
      BY <1>1, <1>4, <2>2
    <3> QED
      BY <1>2, <3>1, <3>2 DEF IsLine
  <2> QED
    BY <2>1, <2>2
<1> QED
  BY <1>2, <1>3, <1>4, <1>5, <1>6 DEF Continues

\* What any part leaves in a file.
LEMMA PartKeepsLines ==
  ASSUME NEW opened, HeaderFirst(opened),
         NEW m \in 0 .. 4, NEW part, PartOf(opened, part, m),
         NEW after, after = opened \o part
  PROVE  /\ HeaderFirst(after)
         /\ Results(opened) \subseteq Results(after)
         /\ \E i \in 0 .. Len(after) :
              Damaged(after) \subseteq Damaged(opened) \union {i}
<1> DEFINE n == Len(opened)
<1>1. /\ opened \in Seq(Piece) /\ n \in Nat /\ DOMAIN opened = 1 .. n
      /\ \A i \in 1 .. n : opened[i] = "header" => i = 1
      /\ opened = <<>> => n = 0
  BY DEF HeaderFirst
<1>2. n = Len(opened)
  OBVIOUS
<1> HIDE DEF n
<1>3. /\ after \in Seq(Piece) /\ Len(after) = n + m /\ DOMAIN after = 1 .. n + m
      /\ \A i \in 1 .. n : after[i] = opened[i]
      /\ \A i \in 1 .. m : after[n + i] = part[i]
      /\ \A i \in 1 .. n :
           /\ Starts(after, i) <=> Starts(opened, i)
           /\ \A text : IsLine(after, i, text) <=> IsLine(opened, i, text)
  <2>1. m \in Nat
    OBVIOUS
  <2>2. Continues(after, opened, n, part, m)
    BY <1>1, <1>2, <2>1, LinesInFront
  <2> QED
    BY <2>2 DEF Continues
<1>4. ASSUME NEW i \in 1 .. n + m
      PROVE  i \in 1 .. n \/ \E k \in 1 .. m : i = n + k
  <2>1. i \in 1 .. n \/ i - n \in 1 .. m
    BY <1>1
  <2> QED
    BY <1>1, <2>1
<1>5. HeaderFirst(after)
  <2>1. ASSUME NEW k \in 1 .. m, part[k] = "header"
        PROVE  n + k = 1
    <3>1. k = 1
      BY <2>1 DEF PartOf
    <3> QED
      BY <1>1, <2>1, <3>1 DEF PartOf
  <2> QED
    BY <1>1, <1>3, <1>4, <2>1 DEF HeaderFirst
<1>6. Results(opened) \subseteq Results(after)
  BY <1>1, <1>3 DEF Results
<1>7. \E i \in 0 .. n + m : Damaged(after) \subseteq Damaged(opened) \union {i}
  <2> DEFINE last == IF m = 0 THEN 0 ELSE IF m <= 2 THEN n + 1 ELSE n + 3
  <2>1. last \in 0 .. n + m
    BY <1>1
  <2>2. ASSUME NEW i \in Damaged(after)
        PROVE  i \in Damaged(opened) \/ i = last
    <3>1. /\ i \in 1 .. n + m /\ Starts(after, i)
          /\ ~IsLine(after, i, "row") /\ ~IsLine(after, i, "header")
      BY <1>3, <2>2 DEF Damaged
    <3>2. CASE i \in 1 .. n
      BY <1>1, <1>3, <3>1, <3>2 DEF Damaged
    <3>3. ASSUME NEW k \in 1 .. m, i = n + k
          PROVE  i = last
      <4>1. k > 1 => part[k - 1] = "newline"
        <5> SUFFICES ASSUME k > 1 PROVE part[k - 1] = "newline"
          OBVIOUS
        <5>1. k - 1 \in 1 .. m /\ n + (k - 1) = i - 1 /\ i # 1
          BY <1>1, <3>3
        <5>2. after[i - 1] = "newline"
          BY <3>1, <5>1 DEF Starts
        <5> QED
          BY <1>3, <5>1, <5>2
      <4>2. k # 2 /\ k # 4
        BY <4>1 DEF PartOf
      <4>3. k = 1 => m <= 2
        <5> SUFFICES ASSUME k = 1, m >= 3 PROVE FALSE
          OBVIOUS
        <5>1. after[n + 1] = part[1] /\ after[n + 2] = part[2]
          <6>1. 1 \in 1 .. m /\ 2 \in 1 .. m
            OBVIOUS
          <6> QED
            BY <1>3, <6>1
        <5>2. (part[1] = "header" \/ part[1] = "row") /\ part[2] = "newline"
          BY DEF PartOf
        <5> QED
          BY <1>1, <1>3, <3>1, <3>3, <5>1, <5>2 DEF IsLine
      <4> QED
        BY <1>1, <3>3, <4>2, <4>3
    <3> QED
      BY <1>4, <3>1, <3>2, <3>3
  <2> QED
    BY <2>1, <2>2
<1> QED
  BY <1>3, <1>5, <1>6, <1>7

LEMMA LeftKeepsLines ==
  ASSUME NEW file, HeaderFirst(file), NEW append,
         NEW left \in LeftByFailure(file, append), left # file
  PROVE  LET opened == Opened(file, append)
         IN  /\ HeaderFirst(left)
             /\ Results(opened) \subseteq Results(left)
             /\ \E i \in 0 .. Len(left) :
                  Damaged(left) \subseteq Damaged(opened) \union {i}
<1> DEFINE opened == Opened(file, append)
<1>1. HeaderFirst(opened)
  BY OpenedShape
<1>2. \E m \in 0 .. 4 : \E part : PartOf(opened, part, m) /\ left = opened \o part
  BY LeftIsPart
<1> HIDE DEF opened
<1>3. PICK m \in 0 .. 4 : \E part : PartOf(opened, part, m) /\ left = opened \o part
  BY <1>2
<1>4. PICK part : PartOf(opened, part, m) /\ left = opened \o part
  BY <1>3
<1> QED
  BY <1>1, <1>4, PartKeepsLines DEF opened

\* What an export that succeeds makes of a file.
LEMMA ExportedLines ==
  ASSUME NEW file, HeaderFirst(file), NEW append
  PROVE  LET opened == Opened(file, append)
             after == Exported(file, append)
         IN  /\ HeaderFirst(after)
             /\ Results(opened) \subseteq Results(after)
             /\ Whole(after)
             /\ Damaged(after) = Damaged(opened)
             /\ Results(after) \ Results(opened)
                  = IF Whole(opened) THEN {Len(after) - 1} ELSE {}
<1> DEFINE opened == Opened(file, append)
           part == Pieces(file, append)
           after == Exported(file, append)
           n == Len(opened)
<1>1. /\ HeaderFirst(opened) /\ n \in Nat /\ DOMAIN opened = 1 .. n /\ n = Len(opened)
      /\ opened = <<>> <=> n = 0
  BY OpenedShape, EmptySeq DEF HeaderFirst
<1>2. after = opened \o part
  BY DEF Exported
<1>3. \/ opened # <<>> /\ PartOf(opened, part, 2) /\ part[1] = "row"
      \/ opened = <<>> /\ PartOf(opened, part, 4) /\ part[1] = "header"
  BY AllIsPart
<1> HIDE DEF opened, part, after, n
<1>4. HeaderFirst(after) /\ Results(opened) \subseteq Results(after)
  <2>1. PICK m \in 0 .. 4 : PartOf(opened, part, m)
    BY <1>3
  <2> QED
    BY <1>1, <1>2, <2>1, PartKeepsLines
<1>5. CASE opened # <<>> /\ PartOf(opened, part, 2) /\ part[1] = "row"
  <2>1. /\ Len(after) = n + 2 /\ DOMAIN after = 1 .. n + 2
        /\ \A i \in 1 .. n : after[i] = opened[i]
        /\ \A i \in 1 .. 2 : after[n + i] = part[i]
        /\ \A i \in 1 .. n :
             /\ Starts(after, i) <=> Starts(opened, i)
             /\ \A text : IsLine(after, i, text) <=> IsLine(opened, i, text)
    <3>1. PICK m \in Nat : m = 2 /\ PartOf(opened, part, m)
      BY <1>5
    <3>2. Continues(after, opened, n, part, m)
      BY <1>1, <1>2, <3>1, LinesInFront
    <3> QED
      BY <3>1, <3>2 DEF Continues
  <2>2. n >= 1 /\ after[n + 1] = "row" /\ after[n + 2] = "newline"
    BY <1>1, <1>5, <2>1 DEF PartOf
  <2>3. Whole(opened) <=> Starts(after, n + 1)
    BY <1>1, <1>5, <2>1, <2>2 DEF Whole, Starts
  <2>4. /\ IsLine(after, n + 1, "row") <=> Starts(after, n + 1)
        /\ ~Starts(after, n + 2) /\ ~IsLine(after, n + 2, "row")
    BY <1>1, <2>1, <2>2 DEF IsLine, Starts
  <2>5. \A i \in 1 .. n + 2 : i \in 1 .. n \/ i = n + 1 \/ i = n + 2
    BY <1>1
  <2>6. Whole(after)
    BY <2>1, <2>2 DEF Whole
  <2>7. Damaged(after) = Damaged(opened)
    BY <1>1, <2>1, <2>4, <2>5 DEF Damaged
  <2>8. Results(after) = Results(opened) \union IF Whole(opened) THEN {n + 1} ELSE {}
    BY <1>1, <2>1, <2>3, <2>4, <2>5 DEF Results
  <2>9. n + 1 \notin Results(opened) /\ Len(after) - 1 = n + 1
    BY <1>1, <2>1 DEF Results
  <2> QED
    BY <1>4, <2>6, <2>7, <2>8, <2>9 DEF opened, after
<1>6. CASE opened = <<>> /\ PartOf(opened, part, 4) /\ part[1] = "header"
  <2>1. n = 0
    BY <1>1, <1>6
  <2>2. /\ Len(after) = n + 4 /\ DOMAIN after = 1 .. n + 4
        /\ \A i \in 1 .. 4 : after[n + i] = part[i]
    <3>1. PICK m \in Nat : m = 4 /\ PartOf(opened, part, m)
      BY <1>6
    <3>2. Continues(after, opened, n, part, m)
      BY <1>1, <1>2, <3>1, LinesInFront
    <3> QED
      BY <3>1, <3>2 DEF Continues
  <2>3. /\ Len(after) = 4 /\ DOMAIN after = 1 .. 4
        /\ after[1] = "header" /\ after[2] = "newline"
        /\ after[3] = "row" /\ after[4] = "newline"
    BY <1>6, <2>1, <2>2 DEF PartOf
  <2>4. /\ IsLine(after, 1, "header") /\ ~IsLine(after, 1, "row")
        /\ ~Starts(after, 2) /\ ~Starts(after, 4) /\ IsLine(after, 3, "row")
    BY <2>3 DEF IsLine, Starts
  <2>5. \A i \in 1 .. 4 : i = 1 \/ i = 2 \/ i = 3 \/ i = 4
    OBVIOUS
  <2>6. Damaged(after) = {} /\ Results(after) = {3}
    BY <2>3, <2>4, <2>5 DEF Damaged, Results, IsLine
  <2>7. Damaged(opened) = {} /\ Results(opened) = {}
    BY <1>1, <2>1 DEF Damaged, Results
  <2>8. Whole(after) /\ Whole(opened)
    BY <1>6, <2>3 DEF Whole
  <2> QED
    BY <1>4, <2>3, <2>6, <2>7, <2>8 DEF opened, after
<1> QED
  BY <1>3, <1>5, <1>6

-----------------------------------------------------------------------------

\* The file is written once, and keeps its form.
ExportInv ==
  /\ phase \notin {"end", "export failed", "done"} => export = NoExport
  /\ phase = "end" /\ options.csv = NoOption => export = NoExport
  /\ ExportKeepsLines

LEMMA NoExportKeepsLines ==
  /\ HeaderFirst(NoExport.after)
  /\ Results(NoExport.before) \subseteq Results(NoExport.after)
<1>1. NoExport.before = <<>> /\ NoExport.after = <<>>
  BY DEF NoExport
<1>2. HeaderFirst(<<>>)
  BY DEF HeaderFirst
<1> QED
  BY <1>1, <1>2

LEMMA ExportNext == ExportInv /\ [SimNext]_simVars => ExportInv'
<1> SUFFICES ASSUME ExportInv, [SimNext]_simVars PROVE ExportInv'
  OBVIOUS
<1>1. \A file \in CsvFiles : HeaderFirst(file)
  BY CsvAssumption
<1>2. CASE ReadCommandLine
  <2>1. export' = NoExport /\ phase' \in {"create memory", "done"}
    BY <1>2 DEF ReadCommandLine, Becomes, ExportInv
  <2> QED
    BY <2>1, NoExportKeepsLines DEF ExportInv, ExportKeepsLines
<1>3. CASE Export
  <2>1. PICK file \in CsvFiles :
          export' = [before |-> file, after |-> Exported(file, options.append)]
    BY <1>3 DEF Export
  <2>2. export'.before = file /\ export'.after = Exported(file, options.append)
    BY <2>1
  <2>3. phase' = "end" /\ options' = options /\ options.csv # NoOption
    BY <1>3 DEF Export, Becomes
  <2> DEFINE opened == IF options.append THEN file ELSE <<>>
  <2>4. HeaderFirst(file) /\ Opened(file, options.append) = opened
    BY <1>1 DEF Opened
  <2>5. /\ HeaderFirst(export'.after)
        /\ Results(opened) \subseteq Results(export'.after)
        /\ Whole(export'.after)
        /\ Damaged(export'.after) = Damaged(opened)
        /\ Results(export'.after) \ Results(opened)
             = IF Whole(opened) THEN {Len(export'.after) - 1} ELSE {}
    BY <2>2, <2>4, ExportedLines
  <2>6. options.append => opened = file
    OBVIOUS
  <2> QED
    BY <2>2, <2>3, <2>5, <2>6 DEF ExportInv, ExportKeepsLines
<1>4. CASE ExportFails
  <2>1. PICK file \in CsvFiles : \E left \in LeftByFailure(file, options.append) :
          export' = [before |-> file, after |-> left]
    BY <1>4 DEF ExportFails
  <2>2. export'.before = file /\ export'.after \in LeftByFailure(file, options.append)
    BY <2>1
  <2>3. phase' = "export failed" /\ options' = options
    BY <1>4 DEF ExportFails, Becomes
  <2> DEFINE opened == IF options.append THEN file ELSE <<>>
  <2>4. HeaderFirst(file) /\ Opened(file, options.append) = opened
    BY <1>1 DEF Opened
  <2>5. CASE export'.after = file
    BY <2>2, <2>3, <2>4, <2>5 DEF ExportInv, ExportKeepsLines
  <2>6. CASE export'.after # file
    <3>1. /\ HeaderFirst(export'.after)
          /\ Results(opened) \subseteq Results(export'.after)
          /\ \E i \in 0 .. Len(export'.after) :
               Damaged(export'.after) \subseteq Damaged(opened) \union {i}
      BY <2>2, <2>4, <2>6, LeftKeepsLines
    <3>2. options.append => opened = file
      OBVIOUS
    <3> QED
      BY <2>2, <2>3, <3>1, <3>2 DEF ExportInv, ExportKeepsLines
  <2> QED
    BY <2>5, <2>6
<1>5. CASE NothingToExport
  <2>1. /\ phase' = "end" /\ export' = export /\ options' = options
        /\ phase = "report" /\ options.csv = NoOption
    BY <1>5 DEF NothingToExport, Becomes
  <2> QED
    BY <2>1 DEF ExportInv, ExportKeepsLines
<1>6. CASE Leave
  <2>1. phase' = "done" /\ export' = export /\ options' = options
    BY <1>6 DEF Leave, Becomes
  <2> QED
    BY <2>1 DEF ExportInv, ExportKeepsLines
<1>7. ASSUME /\ phase' \notin {"end", "export failed"}
             /\ phase \notin {"end", "export failed", "done"}
             /\ export' = export /\ options' = options
      PROVE  ExportInv'
  BY <1>7 DEF ExportInv, ExportKeepsLines
<1>8. CASE \/ CreateMemory \/ CreateMemoryFails \/ StartProcess \/ StartProcessFails
           \/ OpenTrace \/ OpenTraceFails \/ TakePending \/ ReadLine \/ ReadFails
           \/ EndOfFile \/ AccessPage \/ AccessPageFails \/ EntryFails
  <2>1. /\ phase \in {"create memory", "create process", "open trace", "replay"}
        /\ export' = export /\ options' = options
    BY <1>8 DEF CreateMemory, CreateMemoryFails, StartProcess, StartProcessFails,
                OpenTrace, OpenTraceFails, TakePending, ReadLine, ReadFails, EndOfFile,
                AccessPage, AccessPageFails, EntryFails, Returns, Replaying
  <2>2. phase' \in {"create process", "done", "open trace", "replay", "replay failed",
                    "report"}
    BY <1>8 DEF CreateMemory, CreateMemoryFails, StartProcess, StartProcessFails,
                OpenTrace, OpenTraceFails, TakePending, ReadLine, ReadFails, EndOfFile,
                AccessPage, AccessPageFails, EntryFails, Returns, Replaying, Becomes
  <2> QED
    BY <1>7, <2>1, <2>2
<1>9. CASE UNCHANGED simVars
  BY <1>9 DEF simVars, ExportInv, ExportKeepsLines
<1> QED
  BY <1>2, <1>3, <1>4, <1>5, <1>6, <1>8, <1>9 DEF SimNext

LEMMA ExportInit == SimInit => ExportInv
BY NoExportKeepsLines DEF SimInit, ExportInv, ExportKeepsLines

\* An export that appends costs no earlier run its row and one line at most; one
\* that succeeds adds a row of its own to a file that ends with a whole line, and
\* none to a file with a torn one, which its row joins.
THEOREM ExportKeepsLinesCorrect == SimSpec => []ExportKeepsLines
<1>1. ExportInv => ExportKeepsLines
  BY DEF ExportInv
<1> QED
  BY <1>1, ExportInit, ExportNext, PTL DEF SimSpec

\* What CsvFiles assumes of the files is true of those the program leaves,
\* also when an export stops in the middle.
THEOREM FilesKeepTheirForm == SimSpec => []HeaderFirst(export.after)
<1>1. ExportInv => HeaderFirst(export.after)
  BY DEF ExportInv, ExportKeepsLines
<1> QED
  BY <1>1, ExportInit, ExportNext, PTL DEF SimSpec

-----------------------------------------------------------------------------
(* The reader: the page that is accessed next is a page of the memory. *)

Entry == [write : BOOLEAN, address : 0 .. AddressCount - 1, size : Nat \ {0}]

\* Page n is one of those that entry e covers.
Within(e, n) ==
  /\ n \in Nat /\ FirstPage(e) <= n
  /\ ~Overflows(e) => n <= LastPage(e)

\* Before the replay there is nothing of it.
NotBegun == phase \in {"start", "create memory", "create process", "open trace"}

ReaderInv ==
  /\ NotBegun => line = 0
  /\ trace \in Seq(TraceLine) /\ line \in 0 .. Len(trace)
  /\ pending \in Entry \union {NoEntry}
  /\ entry \in Entry \union {NoEntry}
  /\ entry # NoEntry => Within(entry, next)

LEMMA EntryIsSome == NoEntry \notin Entry
BY DEF Entry, NoEntry

\* Pages of b bytes: the page of an address is smaller than the number of pages.
LEMMA PageOfAddress ==
  ASSUME NEW b \in Nat \ {0}, NEW c \in Nat \ {0}, c % b = 0,
         NEW a \in Nat, a < c
  PROVE  a \div b \in Nat /\ a \div b <= (c \div b) - 1
OBVIOUS

LEMMA PageOrder ==
  ASSUME NEW b \in Nat \ {0}, NEW a \in Nat, NEW c \in Nat, a <= c
  PROVE  a \div b \in Nat /\ c \div b \in Nat /\ a \div b <= c \div b
OBVIOUS

LEMMA NextIsPage ==
  ASSUME ReaderInv, entry # NoEntry, ~Overflows(entry)
  PROVE  next \in Page
<1>1. entry \in Entry /\ next \in Nat /\ next <= LastPage(entry)
  BY DEF ReaderInv, Within
<1> DEFINE last == entry.address + (entry.size - 1)
<1>2. last \in Nat /\ last < AddressCount
  BY <1>1, AddressAssumption DEF Entry, Overflows
<1> HIDE DEF last
<1>3. last \div PageSize \in Nat /\ last \div PageSize <= (AddressCount \div PageSize) - 1
  BY <1>2, AddressAssumption, PageOfAddress
<1>4. LastPage(entry) = last \div PageSize
  BY DEF LastPage, last
<1>5. Page = 0 .. (AddressCount \div PageSize) - 1
  BY ProgramAssumption
<1>6. AddressCount \div PageSize \in Int
  BY AddressAssumption
<1> QED
  BY <1>1, <1>3, <1>4, <1>5, <1>6

LEMMA ReplayBegins ==
  ASSUME NEW e \in Entry
  PROVE  Within(e, FirstPage(e))
<1> DEFINE last == e.address + (e.size - 1)
<1>1. e.address \in Nat /\ last \in Nat /\ e.address <= last
  BY AddressAssumption DEF Entry
<1>2. FirstPage(e) = e.address \div PageSize /\ LastPage(e) = last \div PageSize
  BY DEF FirstPage, LastPage
<1> HIDE DEF last
<1> QED
  BY <1>1, <1>2, AddressAssumption, PageOrder DEF Within

LEMMA EntryOfLine ==
  ASSUME NEW l \in TraceLine, Valid(l)
  PROVE  EntryOf(l) \in Entry /\ WriteAfter(EntryOf(l)) \in Entry
<1>1. l.address \in 0 .. AddressCount - 1 /\ l.size \in Nat \ {0}
  BY DEF TraceLine, Valid, HasParameters
<1>2. EntryOf(l) \in Entry
  BY <1>1 DEF EntryOf, Entry
<1>3. WriteAfter(EntryOf(l)) \in Entry
  BY <1>1 DEF EntryOf, Entry, WriteAfter
<1> QED
  BY <1>2, <1>3

LEMMA ReaderInit == SimInit => ReaderInv
BY DEF SimInit, ReaderInv

LEMMA ReaderNext == ReaderInv /\ [SimNext]_simVars => ReaderInv'
<1> SUFFICES ASSUME ReaderInv, [SimNext]_simVars PROVE ReaderInv'
  OBVIOUS
<1>0. ASSUME NEW e \in Entry \union {NoEntry}, NEW n,
             trace' = trace, line' \in 0 .. Len(trace),
             pending' \in Entry \union {NoEntry}, entry' = e, next' = n,
             e # NoEntry => Within(e, n), NotBegun' => line' = 0
      PROVE  ReaderInv'
  BY <1>0 DEF ReaderInv, Within, FirstPage, LastPage, Overflows
<1>1. ASSUME UNCHANGED readerVars, NotBegun' => NotBegun PROVE ReaderInv'
  BY <1>0, <1>1 DEF readerVars, ReaderInv
<1>2. CASE OpenTrace
  <2>1. /\ trace' \in Traces /\ line' = line /\ pending' = pending
        /\ entry' = entry /\ next' = next /\ NotBegun
    BY <1>2 DEF OpenTrace, NotBegun
  <2>2. trace' \in Seq(TraceLine) /\ line' = 0 /\ line' \in 0 .. Len(trace')
    BY <2>1, TraceAssumption DEF ReaderInv
  <2> QED
    BY <2>1, <2>2 DEF ReaderInv, Within, FirstPage, LastPage, Overflows
<1>3. CASE TakePending
  <2>1. /\ pending \in Entry /\ trace' = trace /\ line' = line
        /\ entry' = pending /\ next' = FirstPage(pending) /\ pending' = NoEntry
        /\ ~NotBegun'
    BY <1>3 DEF TakePending, Replay, Replaying, ReaderInv, NotBegun
  <2> QED
    BY <1>0, <2>1, ReplayBegins DEF ReaderInv
<1>4. CASE ReadLine
  <2> DEFINE l == trace[line + 1]
  <2>1. trace' = trace /\ line' = line + 1 /\ line < Len(trace) /\ ~NotBegun'
    BY <1>4 DEF ReadLine, NotBegun, Replaying
  <2>2. line' \in 0 .. Len(trace) /\ l \in TraceLine
    BY <2>1 DEF ReaderInv
  <2>3. CASE UNCHANGED <<pending, entry, next>>
    BY <1>0, <2>1, <2>2, <2>3 DEF ReaderInv
  <2>4. CASE /\ Valid(l) /\ Replay(EntryOf(l))
             /\ pending' = IF Modifies(l) THEN WriteAfter(EntryOf(l)) ELSE pending
    <3>1. EntryOf(l) \in Entry /\ WriteAfter(EntryOf(l)) \in Entry
      BY <2>2, <2>4, EntryOfLine
    <3>2. pending' \in Entry \union {NoEntry}
      BY <2>4, <3>1 DEF ReaderInv
    <3>3. entry' = EntryOf(l) /\ next' = FirstPage(EntryOf(l))
      BY <2>4 DEF Replay
    <3> HIDE DEF l
    <3> QED
      BY <1>0, <2>1, <2>2, <3>1, <3>2, <3>3, ReplayBegins
  <2> QED
    BY <1>4, <2>3, <2>4 DEF ReadLine
<1>5. CASE AccessPage
  <2>1. /\ entry # NoEntry /\ entry \in Entry /\ ~Overflows(entry) /\ ~NotBegun'
        /\ trace' = trace /\ line' = line /\ pending' = pending
        /\ IF next < LastPage(entry)
             THEN next' = next + 1 /\ entry' = entry
             ELSE entry' = NoEntry /\ next' = 0
    BY <1>5 DEF AccessPage, ReaderInv, NotBegun
  <2>2. LastPage(entry) \in Int /\ FirstPage(entry) \in Int
    BY <2>1, AddressAssumption DEF Entry, LastPage, FirstPage
  <2>3. CASE next < LastPage(entry)
    <3>1. Within(entry, next)
      BY <2>1 DEF ReaderInv
    <3>2. Within(entry, next + 1)
      BY <2>2, <2>3, <3>1 DEF Within
    <3> QED
      BY <1>0, <2>1, <2>3, <3>2 DEF ReaderInv
  <2>4. CASE ~(next < LastPage(entry))
    BY <1>0, <2>1, <2>4 DEF ReaderInv
  <2> QED
    BY <2>3, <2>4
<1>6. CASE ReadCommandLine \/ CreateMemory \/ CreateMemoryFails \/ StartProcess
           \/ StartProcessFails \/ Export \/ ExportFails \/ NothingToExport \/ Leave
  BY <1>1, <1>6 DEF ReadCommandLine, CreateMemory, CreateMemoryFails, StartProcess,
                    StartProcessFails, Export, ExportFails, NothingToExport, Leave,
                    replayVars, NotBegun, Becomes
<1>7. CASE OpenTraceFails \/ ReadFails \/ EndOfFile \/ AccessPageFails \/ EntryFails
  BY <1>1, <1>7 DEF OpenTraceFails, ReadFails, EndOfFile, AccessPageFails, EntryFails,
                    Returns, NotBegun, Becomes
<1>8. CASE UNCHANGED simVars
  BY <1>1, <1>8 DEF simVars, replayVars, NotBegun
<1> QED
  BY <1>2, <1>3, <1>4, <1>5, <1>6, <1>7, <1>8 DEF SimNext

-----------------------------------------------------------------------------
(* The memory of one process, with pages that may share a path.  A frame in   *)
(* use has the one mapping that its header names, and a path leads to a frame *)
(* whose page has that path.                                                  *)

OneMapping ==
  \A f \in Frame : cow[f] = IF Occupied(f) THEN {<<Process, page[f]>>} ELSE {}

HeadersMapped ==
  \A f \in Frame :
    Occupied(f) => /\ owner[f] = Process /\ page[f] \in Page
                   /\ FrameOf(Process, page[f]) = f

PathsLead ==
  \A v \in Page :
    FrameOf(Process, v) # NoFrame =>
      /\ FrameOf(Process, v) \in Frame /\ Occupied(FrameOf(Process, v))
      /\ PathOf[page[FrameOf(Process, v)]] = PathOf[v]

Single ==
  /\ TypeOK
  /\ OneMapping /\ HeadersMapped /\ PathsLead
  /\ FramesAccounted
  /\ StaleOnlyAmongAliases

Aliased(v) == \E u \in Page \ {v} : PathOf[u] = PathOf[v]

LEMMA OnlyProcess == Process \in Proc /\ Proc = {Process}
<1>1. PICK p : Proc = {p}
  BY ProgramAssumption, FiniteAssumption, FS_Singleton
<1> QED
  BY <1>1 DEF Process

LEMMA NothingShared ==
  ASSUME Single, NEW f \in Frame
  PROVE  ~Shared(f)
BY DEF Single, OneMapping, Shared

LEMMA SingleInit == Init => Single
<1> SUFFICES ASSUME Init PROVE Single
  OBVIOUS
<1>1. TypeOK
  BY TypeInit
<1>2. \A f \in Frame : ~Occupied(f) /\ cow[f] = {}
  BY DEF Init, Occupied
<1>3. \A v \in Page : FrameOf(Process, v) = NoFrame /\ tlb[Process][v] = NoFrame
  BY OnlyProcess, PathAssumption DEF Init, FrameOf, NoTranslation
<1>4. {f \in Frame : Occupied(f)} = {} /\ {f \in Frame : ~Occupied(f)} = Frame
  BY <1>2
<1>5. loaded = {} /\ freeCount = FrameCount
  BY DEF Init
<1>6. FramesAccounted
  BY <1>4, <1>5, FrameFacts DEF FramesAccounted
<1> QED
  BY <1>1, <1>2, <1>3, <1>6
     DEF Single, OneMapping, HeadersMapped, PathsLead, StaleOnlyAmongAliases

\* Page v gets frame f, from which its page, if it has one, is unmapped.
LEMMA Placed ==
  ASSUME Single, NEW v \in Page, NEW f \in Frame,
         FrameOf(Process, v) = NoFrame,
         \A h \in Frame :
           /\ owner'[h] = IF h = f THEN Process ELSE owner[h]
           /\ page'[h] = IF h = f THEN v ELSE page[h]
           /\ cow'[h] = IF h = f THEN {<<Process, v>>} ELSE cow[h],
         \A u \in Page :
           FrameOf(Process, u)' =
             IF PathOf[u] = PathOf[v] THEN f
             ELSE IF FrameOf(Process, u) = f THEN NoFrame
             ELSE FrameOf(Process, u)
  PROVE  OneMapping' /\ HeadersMapped' /\ PathsLead'
<1>1. Process # NoProc /\ NoFrame \notin Frame
  BY OnlyProcess, FrameFacts, SentinelAssumption
<1>2. \A h \in Frame : Occupied(h)' <=> h = f \/ Occupied(h)
  BY <1>1 DEF Occupied
<1>3. OneMapping'
  BY <1>2 DEF OneMapping, Single
<1>4. ASSUME NEW h \in Frame, Occupied(h)'
      PROVE  owner'[h] = Process /\ page'[h] \in Page /\ FrameOf(Process, page[h])' = h
  <2>1. CASE h = f
    BY <2>1
  <2>2. CASE h # f
    <3>1. owner[h] = Process /\ page[h] \in Page /\ FrameOf(Process, page[h]) = h
      BY <1>2, <1>4, <2>2 DEF Single, HeadersMapped
    <3>2. PathOf[page[h]] # PathOf[v]
      BY <1>1, <3>1 DEF FrameOf
    <3> QED
      BY <2>2, <3>1, <3>2
  <2> QED
    BY <2>1, <2>2
<1>5. HeadersMapped'
  BY <1>4 DEF HeadersMapped
<1>6. ASSUME NEW u \in Page, FrameOf(Process, u)' # NoFrame
      PROVE  /\ FrameOf(Process, u)' \in Frame /\ Occupied(FrameOf(Process, u))'
             /\ PathOf[page'[FrameOf(Process, u)']] = PathOf[u]
  <2>1. CASE PathOf[u] = PathOf[v]
    BY <1>2, <2>1
  <2>2. CASE PathOf[u] # PathOf[v]
    <3>1. FrameOf(Process, u)' = FrameOf(Process, u) /\ FrameOf(Process, u) # f
      BY <1>6, <2>2
    <3>2. /\ FrameOf(Process, u) \in Frame /\ Occupied(FrameOf(Process, u))
          /\ PathOf[page[FrameOf(Process, u)]] = PathOf[u]
      BY <1>6, <3>1 DEF Single, PathsLead
    <3> QED
      BY <1>2, <3>1, <3>2
  <2> QED
    BY <2>1, <2>2
<1>7. PathsLead'
  BY <1>6 DEF PathsLead
<1> QED
  BY <1>3, <1>5, <1>7

\* A translation is inserted into table t.
LEMMA StaleAfterInsert ==
  ASSUME NEW t \in Tlbs, NEW v \in Page, NEW f \in Frame,
         tlb' \in TlbInsert(t, Process, v, f),
         f = FrameOf(Process, v)' \/ Aliased(v),
         \A u \in Page : t[Process][u] \notin {NoFrame, FrameOf(Process, u)'} => Aliased(u)
                         \/ u = v
  PROVE  StaleOnlyAmongAliases'
<1>1. \A u \in Page : tlb'[Process][u] # NoFrame =>
                        tlb'[Process][u] = IF u = v THEN f ELSE t[Process][u]
  BY TlbInsertEffect, OnlyProcess
<1> QED
  BY <1>1 DEF StaleOnlyAmongAliases, Aliased

\* The same when page v was placed in frame f.
LEMMA StaleAfterPlaced ==
  ASSUME Single, NEW v \in Page, NEW f \in Frame, NEW t,
         FrameOf(Process, v) = NoFrame,
         \A u \in Page :
           FrameOf(Process, u)' =
             IF PathOf[u] = PathOf[v] THEN f
             ELSE IF FrameOf(Process, u) = f THEN NoFrame
             ELSE FrameOf(Process, u),
         \A u \in Page : t[Process][u] # NoFrame =>
                           /\ t[Process][u] = tlb[Process][u]
                           /\ Occupied(f) => u # page[f],
         NEW u \in Page, t[Process][u] \notin {NoFrame, FrameOf(Process, u)'}
  PROVE  Aliased(u)
<1> SUFFICES ASSUME ~Aliased(u) PROVE FALSE
  OBVIOUS
<1>1. t[Process][u] = FrameOf(Process, u) /\ FrameOf(Process, u) # NoFrame
  BY DEF Single, StaleOnlyAmongAliases, Aliased
<1>2. PathOf[u] # PathOf[v]
  BY <1>1 DEF FrameOf
<1>3. FrameOf(Process, u) = f
  BY <1>1, <1>2
<1>4. Occupied(f) /\ PathOf[page[f]] = PathOf[u]
  BY <1>1, <1>3 DEF Single, PathsLead
<1>5. page[f] \in Page
  BY <1>4 DEF Single, HeadersMapped
<1> QED
  BY <1>1, <1>4, <1>5 DEF Aliased

-----------------------------------------------------------------------------
(* What each way of an access does to the memory of one process. *)

InUse == {f \in Frame : Occupied(f)}

\* No page has both a frame and a slot.
SlotsClear == \A f \in Frame : Occupied(f) => swap[Process][page[f]] = NoData

LEMMA TypesOfSingle ==
  ASSUME Single
  PROVE  /\ TypeOK
         /\ pt \in Tables /\ tlb \in Tlbs /\ swap \in Swaps /\ data \in Contents
         /\ owner \in [Frame -> Proc \union {NoProc}]
         /\ page \in [Frame -> Page \union {NoPage}]
         /\ cow \in [Frame -> SUBSET Mapping]
         /\ \A v \in Page : /\ FrameOf(Process, v) \in Frame \union {NoFrame}
                            /\ tlb[Process][v] \in Frame \union {NoFrame}
<1>1. TypeOK
  BY DEF Single
<1>2. pt \in Tables /\ tlb \in Tlbs /\ swap \in Swaps /\ data \in Contents
  BY <1>1 DEF TypeOK, Tables, Tlbs, Swaps, Contents
<1>3. \A v \in Page : /\ FrameOf(Process, v) \in Frame \union {NoFrame}
                      /\ tlb[Process][v] \in Frame \union {NoFrame}
  BY <1>2, OnlyProcess, PathAssumption DEF Tables, Tlbs, FrameOf
<1> QED
  BY <1>1, <1>2, <1>3 DEF TypeOK

\* A page without a translation is in no frame.
LEMMA NotResident ==
  ASSUME NEW v \in Page, Translation(Process, v) = NoFrame
  PROVE  tlb[Process][v] = NoFrame /\ FrameOf(Process, v) = NoFrame
BY DEF Translation, FrameOf

LEMMA ResidentStep ==
  ASSUME Single, NEW v \in Page, NEW w \in BOOLEAN,
         AccessResident(Process, v, w, NoData)
  PROVE  Single' /\ InUse' = InUse /\ swap' = swap /\ (SlotsClear => SlotsClear')
<1> DEFINE f == Translation(Process, v)
<1>1. /\ UNCHANGED <<pt, owner, page, freeCount, cow, loaded, swap>>
      /\ f # NoFrame /\ tlb' \in TlbInsert(tlb, Process, v, f)
  BY DEF AccessResident
<1>2. f \in Frame /\ (f = FrameOf(Process, v) \/ f = tlb[Process][v])
  BY <1>1, TypesOfSingle, OnlyProcess, TranslationType DEF Translation, FrameOf
<1>3. TypeOK'
  BY OnlyProcess, TypeAccessResident DEF Single
<1>4. \A u \in Page : FrameOf(Process, u)' = FrameOf(Process, u)
  BY <1>1 DEF FrameOf
<1>5. f = FrameOf(Process, v) \/ Aliased(v)
  BY <1>1, <1>2 DEF Single, StaleOnlyAmongAliases, Aliased
<1>6. \A u \in Page : tlb[Process][u] \notin {NoFrame, FrameOf(Process, u)'} => Aliased(u)
  BY <1>4 DEF Single, StaleOnlyAmongAliases, Aliased
<1> HIDE DEF f
<1>7. StaleOnlyAmongAliases'
  BY <1>1, <1>2, <1>4, <1>5, <1>6, StaleAfterInsert, TypesOfSingle
<1>8. \A h \in Frame : Occupied(h)' <=> Occupied(h)
  BY <1>1 DEF Occupied
<1>9. OneMapping' /\ HeadersMapped' /\ PathsLead'
  BY <1>1, <1>4, <1>8 DEF Single, OneMapping, HeadersMapped, PathsLead
<1>10. FramesAccounted' /\ InUse' = InUse
  BY <1>1, <1>8 DEF Single, FramesAccounted, InUse, Occupied
<1>11. SlotsClear => SlotsClear'
  BY <1>1, <1>8 DEF SlotsClear
<1> QED
  BY <1>1, <1>3, <1>7, <1>9, <1>10, <1>11 DEF Single

LEMMA LoadStep ==
  ASSUME Single, NEW v \in Page, NEW w \in BOOLEAN,
         LoadFreeFrame(Process, v, w, NoData)
  PROVE  /\ Single' /\ (SlotsClear => SlotsClear')
         /\ \E g \in Frame \ InUse : InUse' = InUse \union {g}
         /\ tlb[Process][v] = NoFrame
         /\ swap' = [swap EXCEPT ![Process][v] = NoData]
<1>1. PICK g \in Frame :
        /\ FirstFree(g)
        /\ owner' = [owner EXCEPT ![g] = Process]
        /\ page' = [page EXCEPT ![g] = v]
        /\ pt' = [pt EXCEPT ![Process][PathOf[v]] = g]
        /\ cow' = [cow EXCEPT ![g] = @ \union {<<Process, v>>}]
        /\ loaded' = loaded \union {g}
        /\ tlb' \in TlbInsert(tlb, Process, v, g)
  BY DEF LoadFreeFrame
<1>2. /\ freeCount' = freeCount - 1
      /\ swap' = [swap EXCEPT ![Process][v] = NoData]
      /\ Translation(Process, v) = NoFrame
  BY DEF LoadFreeFrame
<1>3. tlb[Process][v] = NoFrame /\ FrameOf(Process, v) = NoFrame
  BY <1>2, NotResident
<1>4. ~Occupied(g)
  BY <1>1 DEF FirstFree
<1>5. TypeOK'
  BY OnlyProcess, TypeLoadFreeFrame DEF Single
<1>6. \A h \in Frame :
        /\ owner'[h] = IF h = g THEN Process ELSE owner[h]
        /\ page'[h] = IF h = g THEN v ELSE page[h]
        /\ cow'[h] = IF h = g THEN {<<Process, v>>} ELSE cow[h]
  <2>1. cow[g] = {}
    BY <1>4 DEF Single, OneMapping
  <2> QED
    BY <1>1, <2>1, TypesOfSingle
<1>7. \A u \in Page : FrameOf(Process, u) # g
  BY <1>4, FrameFacts DEF Single, PathsLead
<1>8. \A u \in Page :
        FrameOf(Process, u)' =
          IF PathOf[u] = PathOf[v] THEN g
          ELSE IF FrameOf(Process, u) = g THEN NoFrame
          ELSE FrameOf(Process, u)
  <2>1. \A u \in Page : FrameOf(Process, u)' =
                          IF PathOf[u] = PathOf[v] THEN g ELSE FrameOf(Process, u)
    BY <1>1, TypesOfSingle, OnlyProcess, PathAssumption DEF FrameOf, Tables
  <2> QED
    BY <1>7, <2>1
<1>9. OneMapping' /\ HeadersMapped' /\ PathsLead'
  BY <1>3, <1>6, <1>8, Placed
<1>10. StaleOnlyAmongAliases'
  <2>1. \A u \in Page : tlb[Process][u] \notin {NoFrame, FrameOf(Process, u)'} => Aliased(u)
    BY <1>3, <1>4, <1>8, StaleAfterPlaced
  <2>2. g = FrameOf(Process, v)'
    BY <1>8
  <2> QED
    BY <1>1, <2>1, <2>2, StaleAfterInsert, TypesOfSingle
<1>11. \A h \in Frame : Occupied(h)' <=> h = g \/ Occupied(h)
  BY <1>6, OnlyProcess, SentinelAssumption DEF Occupied
<1>12. InUse' = InUse \union {g} /\ g \notin InUse
  BY <1>4, <1>11 DEF InUse
<1>13. FramesAccounted'
  <2> DEFINE free == {f \in Frame : ~Occupied(f)}
  <2>1. free' = free \ {g} /\ g \in free
    BY <1>4, <1>11
  <2>2. IsFiniteSet(free)
    BY FrameFacts, FS_Subset
  <2> HIDE DEF free
  <2>3. Cardinality(free') = Cardinality(free) - 1
    BY <2>1, <2>2, FS_RemoveElement
  <2> QED
    BY <1>1, <1>2, <1>12, <2>3 DEF Single, FramesAccounted, free, InUse
<1>14. SlotsClear => SlotsClear'
  <2>1. \A u \in Page : swap'[Process][u] = IF u = v THEN NoData ELSE swap[Process][u]
    BY <1>2, TypesOfSingle, OnlyProcess DEF Swaps
  <2>2. \A h \in Frame : Occupied(h) => page[h] \in Page
    BY DEF Single, HeadersMapped
  <2> QED
    BY <1>6, <1>11, <2>1, <2>2 DEF SlotsClear
<1> QED
  BY <1>2, <1>3, <1>5, <1>9, <1>10, <1>12, <1>13, <1>14 DEF Single

\* A page takes over the frame of another; t is the TLB before an insertion.
LEMMA ReuseStep ==
  ASSUME Single, NEW v \in Page, NEW f \in Frame,
         Translation(Process, v) = NoFrame, Evictable(f), Reuse(f, Process, v)
  PROVE  /\ OneMapping' /\ HeadersMapped' /\ PathsLead' /\ FramesAccounted'
         /\ InUse' = InUse /\ Occupied(f) /\ owner[f] = Process
         /\ page[f] \in Page \ {v}
         /\ FrameOf(Process, v)' = f
         /\ \A u \in Page : TlbWithoutVictim(f)[Process][u] \notin
                              {NoFrame, FrameOf(Process, u)'} => Aliased(u)
         /\ \A h \in Frame : page'[h] = IF h = f THEN v ELSE page[h]
<1>1. /\ pt' = [pt EXCEPT ![Process][PathOf[v]] = f,
                          ![owner[f]][PathOf[page[f]]] = NoFrame]
      /\ cow' = [cow EXCEPT
                   ![f] = (@ \ {<<owner[f], page[f]>>}) \union {<<Process, v>>}]
      /\ owner' = [owner EXCEPT ![f] = Process]
      /\ page' = [page EXCEPT ![f] = v]
      /\ freeCount' = freeCount /\ loaded' = loaded
  BY DEF Reuse
<1>2. tlb[Process][v] = NoFrame /\ FrameOf(Process, v) = NoFrame
  BY NotResident
<1>3. Occupied(f)
  BY DEF Evictable, Single, FramesAccounted
<1>4. /\ owner[f] = Process /\ page[f] \in Page /\ FrameOf(Process, page[f]) = f
      /\ cow[f] = {<<Process, page[f]>>}
  BY <1>3 DEF Single, HeadersMapped, OneMapping
<1>5. f # NoFrame
  BY FrameFacts
<1>6. PathOf[page[f]] # PathOf[v] /\ page[f] # v
  BY <1>2, <1>4, <1>5 DEF FrameOf
<1>7. \A h \in Frame :
        /\ owner'[h] = IF h = f THEN Process ELSE owner[h]
        /\ page'[h] = IF h = f THEN v ELSE page[h]
        /\ cow'[h] = IF h = f THEN {<<Process, v>>} ELSE cow[h]
  BY <1>1, <1>4, TypesOfSingle
<1>8. \A u \in Page :
        FrameOf(Process, u)' =
          IF PathOf[u] = PathOf[v] THEN f
          ELSE IF FrameOf(Process, u) = f THEN NoFrame
          ELSE FrameOf(Process, u)
  <2>1. \A u \in Page : FrameOf(Process, u)' =
                          IF PathOf[u] = PathOf[page[f]] THEN NoFrame
                          ELSE IF PathOf[u] = PathOf[v] THEN f
                          ELSE FrameOf(Process, u)
    <3>1. /\ pt \in [Proc -> [Path -> Frame \union {NoFrame}]]
          /\ \A u \in Page : PathOf[u] \in Path
      BY TypesOfSingle, PathAssumption DEF Tables
    <3>2. pt' = [pt EXCEPT ![Process][PathOf[v]] = f,
                           ![Process][PathOf[page[f]]] = NoFrame]
      BY <1>1, <1>4
    <3> QED
      BY <1>4, <3>1, <3>2, OnlyProcess DEF FrameOf
  <2>2. ASSUME NEW u \in Page
        PROVE  FrameOf(Process, u) = f <=> PathOf[u] = PathOf[page[f]]
    <3>1. FrameOf(Process, u) = f => PathOf[page[f]] = PathOf[u]
      BY <1>5 DEF Single, PathsLead
    <3> QED
      BY <1>4, <3>1 DEF FrameOf
  <2> QED
    BY <1>6, <2>1, <2>2
<1>9. OneMapping' /\ HeadersMapped' /\ PathsLead'
  BY <1>2, <1>7, <1>8, Placed
<1>10. \A h \in Frame : Occupied(h)' <=> Occupied(h)
  BY <1>3, <1>7, OnlyProcess, SentinelAssumption DEF Occupied
<1>11. InUse' = InUse /\ FramesAccounted'
  BY <1>1, <1>10 DEF InUse, Single, FramesAccounted
<1>12. \A u \in Page :
         TlbWithoutVictim(f)[Process][u] =
           IF u = page[f] THEN NoFrame ELSE tlb[Process][u]
  BY <1>4, TypesOfSingle, OnlyProcess DEF TlbWithoutVictim, Tlbs
<1>13. \A u \in Page : TlbWithoutVictim(f)[Process][u] \notin
                         {NoFrame, FrameOf(Process, u)'} => Aliased(u)
  <2> DEFINE t == TlbWithoutVictim(f)
  <2>1. \A u \in Page : t[Process][u] # NoFrame =>
                          /\ t[Process][u] = tlb[Process][u]
                          /\ Occupied(f) => u # page[f]
    BY <1>12
  <2> HIDE DEF t
  <2>2. \A u \in Page : t[Process][u] \notin {NoFrame, FrameOf(Process, u)'} => Aliased(u)
    BY <1>2, <1>8, <2>1, StaleAfterPlaced
  <2> QED
    BY <2>2 DEF t
<1> QED
  BY <1>3, <1>4, <1>6, <1>7, <1>8, <1>9, <1>11, <1>13

\* The inserted translation is there.
LEMMA InsertedIsThere ==
  ASSUME NEW t \in Tlbs, NEW p \in Proc, NEW v \in Page, NEW f \in Frame,
         NEW r \in TlbInsert(t, p, v, f)
  PROVE  r[p][v] = f
<1>1. CASE r = [t EXCEPT ![p][v] = f]
  BY <1>1 DEF Tlbs
<1>2. CASE \E m \in TlbUsed(t) : r = [t EXCEPT ![m[1]][m[2]] = NoFrame, ![p][v] = f]
  <2>1. PICK m \in TlbUsed(t) : r = [t EXCEPT ![m[1]][m[2]] = NoFrame, ![p][v] = f]
    BY <1>2
  <2>2. m[1] \in Proc /\ m[2] \in Page
    BY DEF TlbUsed, Mapping
  <2> DEFINE without == [t EXCEPT ![m[1]][m[2]] = NoFrame]
  <2>3. without \in Tlbs
    BY <2>2 DEF Tlbs
  <2>4. r = [without EXCEPT ![p][v] = f]
    BY <2>1
  <2> HIDE DEF without
  <2> QED
    BY <2>3, <2>4 DEF Tlbs
<1> QED
  BY <1>1, <1>2 DEF TlbInsert

\* The slots after a victim was saved.
LEMMA VictimCounted ==
  ASSUME Single, NEW f \in Frame, owner[f] = Process, page[f] \in Page
  PROVE  /\ SwapAfterSave(f) \in Swaps
         /\ dirty[f] => SwapAfterSave(f) = [swap EXCEPT ![Process][page[f]] = data[f]]
         /\ ~dirty[f] => SwapAfterSave(f) = swap
         /\ data[f] \in Value
         /\ \A u \in Page \ {page[f]} : SwapAfterSave(f)[Process][u] = swap[Process][u]
<1>1. HasSwap
  BY ProgramAssumption
<1>2. SwapAfterSave(f) \in Swaps /\ swap \in Swaps /\ data[f] \in Value
  BY SwapAfterSaveType, TypesOfSingle DEF Contents
<1>3. /\ dirty[f] => SwapAfterSave(f) = [swap EXCEPT ![Process][page[f]] = data[f]]
      /\ ~dirty[f] => SwapAfterSave(f) = swap
  BY <1>1 DEF SwapAfterSave, MustSave
<1>4. \A u \in Page \ {page[f]} : SwapAfterSave(f)[Process][u] = swap[Process][u]
  BY <1>2, <1>3, OnlyProcess DEF Swaps
<1> QED
  BY <1>2, <1>3, <1>4

LEMMA ReplaceStep ==
  ASSUME Single, NEW v \in Page, NEW w \in BOOLEAN,
         ReplacePage(Process, v, w, NoData)
  PROVE  /\ Single' /\ (SlotsClear => SlotsClear')
         /\ InUse' = InUse /\ tlb[Process][v] = NoFrame
         /\ \E f \in InUse :
              /\ tlb'[Process][v] = f
              /\ owner[f] = Process /\ page[f] \in Page \ {v}
              /\ swap' = [SwapAfterSave(f) EXCEPT ![Process][v] = NoData]
<1>1. PICK f \in Frame :
        /\ Evictable(f)
        /\ Reuse(f, Process, v)
        /\ tlb' \in TlbInsert(TlbWithoutVictim(f), Process, v, f)
        /\ swap' = [SwapAfterSave(f) EXCEPT ![Process][v] = NoData]
  BY DEF ReplacePage
<1>2. Translation(Process, v) = NoFrame
  BY DEF ReplacePage
<1>3. tlb[Process][v] = NoFrame
  BY <1>2, NotResident
<1>4. TypeOK'
  BY OnlyProcess, TypeReplacePage DEF Single
<1>5. /\ OneMapping' /\ HeadersMapped' /\ PathsLead' /\ FramesAccounted'
      /\ InUse' = InUse /\ Occupied(f) /\ owner[f] = Process
      /\ page[f] \in Page \ {v}
      /\ FrameOf(Process, v)' = f
      /\ \A u \in Page : TlbWithoutVictim(f)[Process][u] \notin
                           {NoFrame, FrameOf(Process, u)'} => Aliased(u)
      /\ \A h \in Frame : page'[h] = IF h = f THEN v ELSE page[h]
  BY <1>1, <1>2, ReuseStep
<1>6. TlbWithoutVictim(f) \in Tlbs
  BY VictimTranslation, TypesOfSingle
<1>7. StaleOnlyAmongAliases'
  BY <1>1, <1>5, <1>6, StaleAfterInsert
<1>8. tlb'[Process][v] = f
  BY <1>1, <1>6, InsertedIsThere, OnlyProcess
<1>9. SlotsClear => SlotsClear'
  <2>1. SwapAfterSave(f) \in Swaps
        /\ \A u \in Page \ {page[f]} : SwapAfterSave(f)[Process][u] = swap[Process][u]
    BY <1>5, VictimCounted
  <2>2. \A u \in Page : swap'[Process][u] =
          IF u = v THEN NoData ELSE SwapAfterSave(f)[Process][u]
    BY <1>1, <2>1, OnlyProcess DEF Swaps
  <2>3. ASSUME NEW h \in Frame, Occupied(h), h # f
        PROVE  page[h] \in Page \ {page[f]}
    BY <1>5, <2>3 DEF Single, HeadersMapped
  <2>4. \A h \in Frame : Occupied(h)' <=> Occupied(h)
    BY <1>5 DEF InUse
  <2> QED
    BY <1>5, <2>1, <2>2, <2>3, <2>4 DEF SlotsClear
<1> QED
  BY <1>1, <1>3, <1>4, <1>5, <1>7, <1>8, <1>9 DEF Single, InUse

LEMMA RestoreFailsStep ==
  ASSUME Single, NEW v \in Page, ReplaceRestoreFails(Process, v)
  PROVE  /\ Single' /\ InUse' = InUse /\ tlb[Process][v] = NoFrame
         /\ \E f \in InUse :
              /\ pt'[Process][PathOf[v]] = f
              /\ owner[f] = Process /\ page[f] \in Page
              /\ swap' = SwapAfterSave(f)
<1>1. PICK f \in Frame :
        /\ Evictable(f)
        /\ Reuse(f, Process, v)
        /\ tlb' = TlbWithoutVictim(f)
        /\ swap' = SwapAfterSave(f)
  BY DEF ReplaceRestoreFails
<1>2. Translation(Process, v) = NoFrame
  BY DEF ReplaceRestoreFails
<1>3. tlb[Process][v] = NoFrame
  BY <1>2, NotResident
<1>4. TypeOK'
  BY OnlyProcess, TypeReplaceRestoreFails DEF Single
<1>5. /\ OneMapping' /\ HeadersMapped' /\ PathsLead' /\ FramesAccounted'
      /\ InUse' = InUse /\ Occupied(f) /\ owner[f] = Process
      /\ page[f] \in Page \ {v}
      /\ FrameOf(Process, v)' = f
      /\ \A u \in Page : TlbWithoutVictim(f)[Process][u] \notin
                           {NoFrame, FrameOf(Process, u)'} => Aliased(u)
  BY <1>1, <1>2, ReuseStep
<1>6. StaleOnlyAmongAliases'
  BY <1>1, <1>5 DEF StaleOnlyAmongAliases, Aliased
<1> QED
  BY <1>1, <1>3, <1>4, <1>5, <1>6 DEF Single, InUse, FrameOf

\* A call that changes nothing; a victim has no slot that a save could spoil.
LEMMA RefusedStep ==
  ASSUME Single, SlotsClear, NEW v \in Page,
         LoadFreeFrameFails(Process, v) \/ ReplaceRefused(Process, v)
  PROVE  /\ UNCHANGED <<pt, frameVars, cow, loaded, tlb, swap>>
         /\ tlb[Process][v] = NoFrame
<1>1. Translation(Process, v) = NoFrame /\ UNCHANGED <<pt, frameVars, cow, loaded, tlb>>
  BY DEF LoadFreeFrameFails, ReplaceRefused
<1>2. CASE LoadFreeFrameFails(Process, v)
  BY <1>1, <1>2, NotResident DEF LoadFreeFrameFails
<1>3. CASE ReplaceRefused(Process, v)
  <2>1. PICK f \in loaded :
          swap' = swap \/ <<owner[f], page[f]>> \in UsedSlots(swap)
    BY <1>3 DEF ReplaceRefused
  <2>2. f \in Frame /\ Occupied(f)
    BY <2>1 DEF Single, FramesAccounted
  <2>3. owner[f] = Process /\ swap[Process][page[f]] = NoData
    BY <2>2 DEF Single, HeadersMapped, SlotsClear
  <2> QED
    BY <1>1, <2>1, <2>3, NotResident DEF UsedSlots
<1> QED
  BY <1>2, <1>3

-----------------------------------------------------------------------------
(* The counters. *)

Slots(s) == Cardinality(UsedSlots(s))

LEMMA SlotsAreFew ==
  ASSUME NEW s
  PROVE  UsedSlots(s) \subseteq Mapping /\ IsFiniteSet(UsedSlots(s)) /\ Slots(s) \in Nat
<1>1. UsedSlots(s) \subseteq Mapping
  BY DEF UsedSlots
<1> QED
  BY <1>1, MappingsFinite DEF Slots

LEMMA SlotEmptied ==
  ASSUME NEW s \in Swaps, NEW v \in Page
  PROVE  Slots([s EXCEPT ![Process][v] = NoData]) =
           IF s[Process][v] = NoData THEN Slots(s) ELSE Slots(s) - 1
<1> DEFINE r == [s EXCEPT ![Process][v] = NoData]
           m == <<Process, v>>
<1>1. UsedSlots(r) = UsedSlots(s) \ {m}
  BY OnlyProcess DEF UsedSlots, Swaps, Mapping
<1>2. s[Process][v] = NoData <=> m \notin UsedSlots(s)
  BY OnlyProcess DEF UsedSlots, Mapping
<1>3. IsFiniteSet(UsedSlots(s)) /\ Cardinality(UsedSlots(s)) \in Nat
  BY SlotsAreFew DEF Slots
<1> HIDE DEF r, m
<1>4. CASE m \notin UsedSlots(s)
  <2>1. UsedSlots(r) = UsedSlots(s)
    BY <1>1, <1>4
  <2> QED
    BY <1>2, <1>4, <2>1 DEF Slots, r
<1>5. CASE m \in UsedSlots(s)
  <2>1. Cardinality(UsedSlots(r)) = Cardinality(UsedSlots(s)) - 1
    BY <1>1, <1>3, <1>5, FS_RemoveElement
  <2> QED
    BY <1>2, <1>5, <2>1 DEF Slots, r
<1> QED
  BY <1>4, <1>5

LEMMA SlotFilled ==
  ASSUME NEW s \in Swaps, NEW v \in Page, NEW x \in Value, s[Process][v] = NoData
  PROVE  Slots([s EXCEPT ![Process][v] = x]) = Slots(s) + 1
<1> DEFINE r == [s EXCEPT ![Process][v] = x]
           m == <<Process, v>>
<1>1. UsedSlots(r) = UsedSlots(s) \union {m} /\ m \notin UsedSlots(s)
  BY OnlyProcess, SentinelAssumption DEF UsedSlots, Swaps, Mapping
<1>2. IsFiniteSet(UsedSlots(s)) /\ Cardinality(UsedSlots(s)) \in Nat
  BY SlotsAreFew DEF Slots
<1> HIDE DEF r, m
<1>3. Cardinality(UsedSlots(r)) = Cardinality(UsedSlots(s)) + 1
  BY <1>1, <1>2, FS_AddElement
<1> QED
  BY <1>3 DEF Slots, r

LEMMA FramesAreFew == IsFiniteSet(InUse) /\ Cardinality(InUse) \in Nat
<1>1. InUse \subseteq Frame
  BY DEF InUse
<1> QED
  BY <1>1, FrameFacts, FS_Subset, FS_CardinalityType

One(b) == IF b THEN 1 ELSE 0

LEMMA Counted ==
  ASSUME stats \in [Counter -> Nat], NEW S, Count(S)
  PROVE  /\ stats' \in [Counter -> Nat]
         /\ \A c \in Counter : stats'[c] = stats[c] + One(c \in S)
BY DEF Count, One

\* CountersMatchMemory as a statement about numbers.
Balanced(st, n, frames, slots) ==
  LET refused == st["total_accesses"] - n
  IN  /\ refused = 0 \/ refused = 1
      /\ st["total_accesses"] = st["read_accesses"] + st["write_accesses"]
      /\ st["total_accesses"] = st["tlb_hits"] + st["tlb_misses"]
      /\ st["page_walks"] = st["tlb_misses"]
      /\ st["page_faults"] <= st["tlb_misses"]
      /\ frames = st["page_faults"] - st["replacements"] - refused
      /\ slots = st["swap_writes"] - st["swap_reads"]
      /\ 0 <= st["swap_writes"] - st["dirty_evictions"]
      /\ st["swap_writes"] - st["dirty_evictions"] <= refused
      /\ st["dirty_evictions"] <= st["replacements"]
      /\ st["swap_reads"] <= st["page_faults"]

AllNat(st) ==
  /\ st["total_accesses"] \in Nat /\ st["read_accesses"] \in Nat
  /\ st["write_accesses"] \in Nat /\ st["tlb_hits"] \in Nat
  /\ st["tlb_misses"] \in Nat /\ st["page_walks"] \in Nat
  /\ st["page_faults"] \in Nat /\ st["replacements"] \in Nat
  /\ st["dirty_evictions"] \in Nat /\ st["swap_reads"] \in Nat
  /\ st["swap_writes"] \in Nat

LEMMA BalancedIsMatch ==
  ASSUME AllNat(stats), processed \in Nat
  PROVE  CountersMatchMemory <=> Balanced(stats, processed, Cardinality(InUse), Slots(swap))
BY DEF CountersMatchMemory, Balanced, InUse, Slots, AllNat

Late == {"page_faults", "replacements", "dirty_evictions", "swap_reads", "swap_writes"}

\* What a call counts beyond its lookup, S, and what it does to the frames and
\* the slots in use have to fit.
Fits(S, done, frames, slots, moreFrames, moreSlots) ==
  /\ S \subseteq Late
  /\ done \in {0, 1}
  /\ moreFrames = frames + One("page_faults" \in S) - One("replacements" \in S) - (1 - done)
  /\ moreSlots = slots + One("swap_writes" \in S) - One("swap_reads" \in S)
  /\ One("dirty_evictions" \in S) <= One("swap_writes" \in S)
  /\ One("swap_writes" \in S) <= One("dirty_evictions" \in S) + (1 - done)
  /\ One("dirty_evictions" \in S) <= One("replacements" \in S)
  /\ One("swap_reads" \in S) <= One("page_faults" \in S)

LEMMA OneIsNat == \A b : One(b) \in Nat
BY DEF One

LEMMA Differences ==
  \A a, b, i, j \in Nat : \A d \in {0, 1} :
    /\ a - b + i - j = (a + i) - (b + j)
    /\ a - b + i - j - (1 - d) = (a + i) - (b + j) - (1 - d)
OBVIOUS

LEMMA BalanceStep ==
  ASSUME stats \in [Counter -> Nat], NEW n \in Nat,
         NEW frames \in Nat, NEW slots \in Nat,
         Balanced(stats, n, frames, slots), stats["total_accesses"] = n,
         NEW v, NEW w \in BOOLEAN, NEW S, NEW done, NEW moreFrames, NEW moreSlots,
         Fits(S, done, frames, slots, moreFrames, moreSlots),
         S = {} \/ tlb[Process][v] = NoFrame,
         Count(Looked(v, w) \union S)
  PROVE  /\ Balanced(stats', n + done, moreFrames, moreSlots)
         /\ stats'["total_accesses"] = n + 1
         /\ stats' \in [Counter -> Nat]
<1> DEFINE T == Looked(v, w) \union S
           hit == tlb[Process][v] # NoFrame
<1>1. /\ stats' \in [Counter -> Nat]
      /\ \A c \in Counter : stats[c] \in Nat /\ stats'[c] = stats[c] + One(c \in T)
  <2>1. Count(T)
    OBVIOUS
  <2> HIDE DEF T
  <2> QED
    BY <2>1, Counted
<1>2. /\ "total_accesses" \in T
      /\ "write_accesses" \in T <=> w
      /\ "read_accesses" \in T <=> ~w
      /\ "tlb_hits" \in T <=> hit
      /\ "tlb_misses" \in T <=> ~hit
      /\ "page_walks" \in T <=> ~hit
      /\ \A c \in Late : c \in T <=> c \in S
      /\ hit => S = {}
  BY DEF Looked, Late, Fits
<1> HIDE DEF T, hit
<1>3. \A c \in Counter : c \in T => stats'[c] = stats[c] + 1
  BY <1>1 DEF One
<1>4. \A c \in Counter : c \notin T => stats'[c] = stats[c]
  BY <1>1 DEF One
<1>5. stats'["total_accesses"] = stats["total_accesses"] + 1
  BY <1>2, <1>3 DEF Counter
<1>6. \A c \in Late : stats'[c] = stats[c] + One(c \in S)
  BY <1>1, <1>2 DEF Late, Counter, One
<1>7. stats'["read_accesses"] + stats'["write_accesses"]
        = stats["read_accesses"] + stats["write_accesses"] + 1
  BY <1>1, <1>2, <1>3, <1>4 DEF Counter
<1>8. /\ \/ /\ hit
            /\ stats'["page_walks"] = stats["page_walks"]
            /\ stats'["tlb_misses"] = stats["tlb_misses"]
         \/ /\ ~hit
            /\ stats'["page_walks"] = stats["page_walks"] + 1
            /\ stats'["tlb_misses"] = stats["tlb_misses"] + 1
      /\ stats'["tlb_hits"] + stats'["tlb_misses"]
           = stats["tlb_hits"] + stats["tlb_misses"] + 1
  BY <1>1, <1>2, <1>3, <1>4 DEF Counter
<1>9. AllNat(stats) /\ AllNat(stats')
  BY <1>1 DEF AllNat, Counter, One
<1>10. PICK pf \in Nat, rp \in Nat, de \in Nat, sr \in Nat, sw \in Nat :
         /\ pf = One("page_faults" \in S) /\ rp = One("replacements" \in S)
         /\ de = One("dirty_evictions" \in S)
         /\ sr = One("swap_reads" \in S) /\ sw = One("swap_writes" \in S)
  BY OneIsNat
<1>11. /\ stats'["page_faults"] = stats["page_faults"] + pf
       /\ stats'["replacements"] = stats["replacements"] + rp
       /\ stats'["dirty_evictions"] = stats["dirty_evictions"] + de
       /\ stats'["swap_reads"] = stats["swap_reads"] + sr
       /\ stats'["swap_writes"] = stats["swap_writes"] + sw
  BY <1>6, <1>10 DEF Late
<1>12. /\ done \in {0, 1}
       /\ moreFrames = frames + pf - rp - (1 - done)
       /\ moreSlots = slots + sw - sr
       /\ de <= sw /\ sw <= de + (1 - done) /\ de <= rp /\ sr <= pf
       /\ pf \in {0, 1} /\ (hit => pf = 0)
  BY <1>2, <1>10 DEF Fits, One
<1>13. /\ stats'["total_accesses"] = n + 1
       /\ stats'["total_accesses"] - (n + done) = 1 - done
       /\ 1 - done = 0 \/ 1 - done = 1
  BY <1>5, <1>12
<1>14. stats'["total_accesses"] = stats'["read_accesses"] + stats'["write_accesses"]
  BY <1>5, <1>7 DEF Balanced
<1>15. stats'["total_accesses"] = stats'["tlb_hits"] + stats'["tlb_misses"]
  BY <1>5, <1>8 DEF Balanced
<1>16. stats'["page_walks"] = stats'["tlb_misses"]
  BY <1>8, <1>9 DEF Balanced, AllNat
<1>17. stats'["page_faults"] <= stats'["tlb_misses"]
  BY <1>8, <1>9, <1>11, <1>12 DEF Balanced, AllNat
<1>18. moreFrames = stats'["page_faults"] - stats'["replacements"] - (1 - done)
  <2>1. frames = stats["page_faults"] - stats["replacements"]
    BY <1>9 DEF Balanced, AllNat
  <2> QED
    BY <1>9, <1>10, <1>11, <1>12, <2>1, Differences DEF AllNat
<1>19. moreSlots = stats'["swap_writes"] - stats'["swap_reads"]
  <2>1. slots = stats["swap_writes"] - stats["swap_reads"]
    BY <1>9 DEF Balanced, AllNat
  <2> QED
    BY <1>9, <1>10, <1>11, <1>12, <2>1, Differences DEF AllNat
<1>20. /\ 0 <= stats'["swap_writes"] - stats'["dirty_evictions"]
       /\ stats'["swap_writes"] - stats'["dirty_evictions"] <= 1 - done
  BY <1>9, <1>11, <1>12 DEF Balanced, AllNat
<1>21. /\ stats'["dirty_evictions"] <= stats'["replacements"]
       /\ stats'["swap_reads"] <= stats'["page_faults"]
  BY <1>9, <1>11, <1>12 DEF Balanced, AllNat
<1> QED
  BY <1>1, <1>13, <1>14, <1>15, <1>16, <1>17, <1>18, <1>19, <1>20, <1>21 DEF Balanced

\* The counters fit the memory, and no access was refused yet.
Even ==
  /\ stats \in [Counter -> Nat] /\ processed \in Nat
  /\ Balanced(stats, processed, Cardinality(InUse), Slots(swap))
  /\ stats["total_accesses"] = processed

\* What an access adds to the counters, to the frames and to the slots.
LEMMA EvenStep ==
  ASSUME Even, NEW v, NEW w \in BOOLEAN, NEW S, NEW done \in {0, 1},
         Fits(S, done, Cardinality(InUse), Slots(swap),
              Cardinality(InUse'), Slots(swap')),
         S = {} \/ tlb[Process][v] = NoFrame,
         Count(Looked(v, w) \union S),
         processed' = processed + done
  PROVE  /\ stats' \in [Counter -> Nat] /\ processed' \in Nat
         /\ Balanced(stats', processed', Cardinality(InUse)', Slots(swap)')
         /\ stats'["total_accesses"] = processed + 1
<1>1. Cardinality(InUse) \in Nat /\ Slots(swap) \in Nat
  BY FramesAreFew, SlotsAreFew
<1>2. Cardinality(InUse') = Cardinality(InUse)' /\ Slots(swap') = Slots(swap)'
  OBVIOUS
<1>3. processed \in Nat
  BY DEF Even
<1>4. /\ Balanced(stats', processed + done, Cardinality(InUse'), Slots(swap'))
      /\ stats'["total_accesses"] = processed + 1
      /\ stats' \in [Counter -> Nat]
  BY <1>1, <1>3, BalanceStep DEF Even
<1> QED
  BY <1>2, <1>3, <1>4

LEMMA AccessedCounted ==
  ASSUME Single, SlotsClear, Even, NEW v \in Page, NEW w \in BOOLEAN,
         Accessed(v, w), processed' = processed + 1
  PROVE  Single' /\ SlotsClear' /\ Even'
<1>0. swap \in Swaps /\ Cardinality(InUse) \in Nat /\ Slots(swap) \in Nat
  BY TypesOfSingle, FramesAreFew, SlotsAreFew
<1>1. ASSUME NEW S, Fits(S, 1, Cardinality(InUse), Slots(swap),
                         Cardinality(InUse'), Slots(swap')),
             S = {} \/ tlb[Process][v] = NoFrame,
             Count(Looked(v, w) \union S)
      PROVE  Even'
  <2>1. processed' = processed + 1 /\ 1 \in {0, 1}
    OBVIOUS
  <2>2. /\ stats' \in [Counter -> Nat] /\ processed' \in Nat
        /\ Balanced(stats', processed', Cardinality(InUse)', Slots(swap)')
        /\ stats'["total_accesses"] = processed + 1
    BY <1>1, <2>1, EvenStep
  <2> QED
    BY <2>1, <2>2 DEF Even
<1>2. CASE AccessResident(Process, v, w, NoData) /\ Count(Looked(v, w))
  <2>1. Single' /\ InUse' = InUse /\ swap' = swap /\ SlotsClear'
    BY <1>2, ResidentStep
  <2>2. Count(Looked(v, w) \union {})
    BY <1>2
  <2>3. Fits({}, 1, Cardinality(InUse), Slots(swap), Cardinality(InUse'), Slots(swap'))
    BY <1>0, <2>1 DEF Fits, One
  <2> QED
    BY <1>1, <2>1, <2>2, <2>3
<1>3. CASE /\ LoadFreeFrame(Process, v, w, NoData)
           /\ Count(Looked(v, w) \union {"page_faults"} \union SwapRead(swap, v))
  <2> DEFINE S == {"page_faults"} \union SwapRead(swap, v)
  <2>1. /\ Single' /\ SlotsClear' /\ tlb[Process][v] = NoFrame
        /\ \E g \in Frame \ InUse : InUse' = InUse \union {g}
        /\ swap' = [swap EXCEPT ![Process][v] = NoData]
    BY <1>3, LoadStep
  <2>2. Count(Looked(v, w) \union S)
    BY <1>3, Zenon
  <2>3. Cardinality(InUse') = Cardinality(InUse) + 1
    BY <2>1, FramesAreFew, FS_AddElement
  <2>4. Slots(swap') = IF swap[Process][v] = NoData THEN Slots(swap) ELSE Slots(swap) - 1
    BY <1>0, <2>1, SlotEmptied
  <2>5. Fits(S, 1, Cardinality(InUse), Slots(swap), Cardinality(InUse'), Slots(swap'))
    BY <1>0, <2>3, <2>4 DEF Fits, One, SwapRead, Late
  <2> QED
    BY <1>1, <2>1, <2>2, <2>5
<1>4. CASE /\ ReplacePage(Process, v, w, NoData)
           /\ LET f == tlb'[Process][v]
              IN  Count(Looked(v, w) \union {"page_faults", "replacements"}
                        \union SwapRead(SwapAfterSave(f), v) \union SwapWrite(f)
                        \union IF dirty[f] THEN {"dirty_evictions"} ELSE {})
  <2>1. /\ Single' /\ SlotsClear' /\ InUse' = InUse /\ tlb[Process][v] = NoFrame
        /\ \E f \in InUse :
             /\ tlb'[Process][v] = f
             /\ owner[f] = Process /\ page[f] \in Page \ {v}
             /\ swap' = [SwapAfterSave(f) EXCEPT ![Process][v] = NoData]
    BY <1>4, ReplaceStep
  <2>2. PICK f \in InUse :
             /\ tlb'[Process][v] = f
             /\ owner[f] = Process /\ page[f] \in Page \ {v}
             /\ swap' = [SwapAfterSave(f) EXCEPT ![Process][v] = NoData]
    BY <2>1
  <2> DEFINE saved == SwapAfterSave(f)
             S == {"page_faults", "replacements"} \union SwapRead(saved, v)
                  \union SwapWrite(f) \union IF dirty[f] THEN {"dirty_evictions"} ELSE {}
  <2>3. Count(Looked(v, w) \union S)
    <3>1. Looked(v, w) \union S
            = Looked(v, w) \union {"page_faults", "replacements"}
              \union SwapRead(saved, v) \union SwapWrite(f)
              \union IF dirty[f] THEN {"dirty_evictions"} ELSE {}
      OBVIOUS
    <3> QED
      BY <1>4, <2>2, <3>1, Zenon
  <2>4. f \in Frame /\ swap[Process][page[f]] = NoData
    BY <2>2 DEF InUse, SlotsClear
  <2>5. saved \in Swaps /\ Slots(saved) = Slots(swap) + One(dirty[f])
    BY <1>0, <2>2, <2>4, VictimCounted, SlotFilled DEF One
  <2>6. Slots(swap') = IF saved[Process][v] = NoData THEN Slots(saved) ELSE Slots(saved) - 1
    BY <2>2, <2>5, SlotEmptied
  <2>7. MustSave(f) <=> dirty[f]
    BY ProgramAssumption DEF MustSave
  <2> HIDE DEF saved
  <2>8. /\ S \subseteq Late
        /\ "page_faults" \in S /\ "replacements" \in S
        /\ "swap_reads" \in S <=> saved[Process][v] # NoData
        /\ "swap_writes" \in S <=> dirty[f]
        /\ "dirty_evictions" \in S <=> dirty[f]
    BY <2>7 DEF Late, SwapRead, SwapWrite
  <2> HIDE DEF S
  <2>9. Fits(S, 1, Cardinality(InUse), Slots(swap), Cardinality(InUse'), Slots(swap'))
    BY <1>0, <2>1, <2>5, <2>6, <2>8 DEF Fits, One
  <2> QED
    BY <1>1, <2>1, <2>3, <2>9
<1> QED
  BY <1>2, <1>3, <1>4 DEF Accessed

\* The same after a call that failed: it is counted, and not processed.
Uneven ==
  /\ stats \in [Counter -> Nat] /\ processed \in Nat
  /\ Balanced(stats, processed, Cardinality(InUse), Slots(swap))

LEMMA RefusedCounted ==
  ASSUME Single, SlotsClear, Even, NEW v \in Page, NEW w \in BOOLEAN,
         AccessRefused(v, w), processed' = processed
  PROVE  Single' /\ Uneven'
<1>0. swap \in Swaps /\ Cardinality(InUse) \in Nat /\ Slots(swap) \in Nat
      /\ processed \in Nat
  BY TypesOfSingle, FramesAreFew, SlotsAreFew DEF Even
<1>1. ASSUME NEW S, Fits(S, 0, Cardinality(InUse), Slots(swap),
                         Cardinality(InUse'), Slots(swap')),
             tlb[Process][v] = NoFrame,
             Count(Looked(v, w) \union S)
      PROVE  Uneven'
  <2>1. processed' = processed + 0 /\ 0 \in {0, 1}
    BY <1>0
  <2>2. /\ stats' \in [Counter -> Nat] /\ processed' \in Nat
        /\ Balanced(stats', processed', Cardinality(InUse)', Slots(swap)')
    BY <1>1, <2>1, EvenStep
  <2> QED
    BY <2>2 DEF Uneven
<1>2. CASE /\ LoadFreeFrameFails(Process, v) \/ ReplaceRefused(Process, v)
           /\ Count(Looked(v, w) \union {"page_faults"})
  <2>1. /\ UNCHANGED <<pt, frameVars, cow, loaded, tlb, swap>>
        /\ tlb[Process][v] = NoFrame
    BY <1>2, RefusedStep
  <2>2. InUse' = InUse
    BY <2>1 DEF InUse, Occupied, frameVars
  <2>3. Fits({"page_faults"}, 0, Cardinality(InUse), Slots(swap),
             Cardinality(InUse'), Slots(swap'))
    BY <1>0, <2>1, <2>2 DEF Fits, One, Late
  <2>4. live' \subseteq Proc /\ registered' \subseteq Proc
    BY <1>2, OnlyProcess DEF LoadFreeFrameFails, ReplaceRefused, Call, Single, TypeOK
  <2>5. TypeOK'
    BY <2>1, <2>4 DEF Single, TypeOK, frameVars
  <2>6. Single'
    BY <2>1, <2>5 DEF Single, OneMapping, HeadersMapped, PathsLead, FramesAccounted,
                      StaleOnlyAmongAliases, FrameOf, Occupied, frameVars
  <2> QED
    BY <1>1, <1>2, <2>1, <2>3, <2>6
<1>3. CASE /\ ReplaceRestoreFails(Process, v)
           /\ Count(Looked(v, w) \union {"page_faults"}
                    \union SwapWrite(pt'[Process][PathOf[v]]))
  <2>1. /\ Single' /\ InUse' = InUse /\ tlb[Process][v] = NoFrame
        /\ \E f \in InUse :
             /\ pt'[Process][PathOf[v]] = f
             /\ owner[f] = Process /\ page[f] \in Page
             /\ swap' = SwapAfterSave(f)
    BY <1>3, RestoreFailsStep
  <2>2. PICK f \in InUse :
             /\ pt'[Process][PathOf[v]] = f
             /\ owner[f] = Process /\ page[f] \in Page
             /\ swap' = SwapAfterSave(f)
    BY <2>1
  <2> DEFINE S == {"page_faults"} \union SwapWrite(f)
  <2>3. Count(Looked(v, w) \union S)
    <3>1. Looked(v, w) \union S = Looked(v, w) \union {"page_faults"} \union SwapWrite(f)
      OBVIOUS
    <3> QED
      BY <1>3, <2>2, <3>1, Zenon
  <2>4. f \in Frame /\ swap[Process][page[f]] = NoData
    BY <2>2 DEF InUse, SlotsClear
  <2>5. Slots(swap') = Slots(swap) + One(dirty[f])
    BY <1>0, <2>2, <2>4, VictimCounted, SlotFilled DEF One
  <2>6. /\ S \subseteq Late
        /\ "page_faults" \in S
        /\ "swap_writes" \in S <=> dirty[f]
        /\ S \intersect {"replacements", "dirty_evictions", "swap_reads"} = {}
    BY ProgramAssumption DEF Late, SwapWrite, MustSave
  <2> HIDE DEF S
  <2>7. Fits(S, 0, Cardinality(InUse), Slots(swap), Cardinality(InUse'), Slots(swap'))
    BY <1>0, <2>1, <2>5, <2>6 DEF Fits, One
  <2> QED
    BY <1>1, <2>1, <2>3, <2>7
<1> QED
  BY <1>2, <1>3 DEF AccessRefused

-----------------------------------------------------------------------------
(* The program and its memory: while the replay runs no access was refused  *)
(* and no slot stands beside a frame; the refusal ends the replay.          *)

AccountInv ==
  /\ Single /\ Uneven
  /\ NotBegun \/ phase = "replay" => SlotsClear /\ Even

LEMMA AccountInit == SimInit => AccountInv
<1> SUFFICES ASSUME SimInit PROVE AccountInv
  OBVIOUS
<1>1. Init /\ stats = [c \in Counter |-> 0] /\ processed = 0
  BY DEF SimInit
<1>2. Single
  BY <1>1, SingleInit
<1>3. \A f \in Frame : ~Occupied(f)
  BY <1>1 DEF Init, Occupied
<1>4. SlotsClear /\ InUse = {}
  BY <1>3 DEF SlotsClear, InUse
<1>5. UsedSlots(swap) = {}
  BY <1>1 DEF Init, UsedSlots, NoSlot, Mapping
<1>6. Cardinality(InUse) = 0 /\ Slots(swap) = 0
  BY <1>4, <1>5, FS_EmptySet DEF Slots
<1>7. Even
  BY <1>1, <1>6 DEF Even, Balanced, Counter
<1> QED
  BY <1>2, <1>4, <1>7 DEF AccountInv, Even, Uneven

LEMMA AccountNext == ReaderInv /\ AccountInv /\ [SimNext]_simVars => AccountInv'
<1> SUFFICES ASSUME ReaderInv, AccountInv, [SimNext]_simVars PROVE AccountInv'
  OBVIOUS
<1>1. ASSUME UNCHANGED <<pt, frameVars, cow, loaded, tlb, swap, stats, processed>>,
             live' \subseteq Proc, registered' = registered,
             NotBegun' \/ phase' = "replay" => NotBegun \/ phase = "replay"
      PROVE  AccountInv'
  <2>1. Single'
    BY <1>1 DEF AccountInv, Single, TypeOK, OneMapping, HeadersMapped, PathsLead,
                FramesAccounted, StaleOnlyAmongAliases, FrameOf, Occupied, frameVars
  <2>2. InUse' = InUse
    BY <1>1 DEF InUse, Occupied, frameVars
  <2>3. SlotsClear => SlotsClear'
    BY <1>1 DEF SlotsClear, Occupied, frameVars
  <2>4. Slots(swap)' = Slots(swap)
    BY <1>1
  <2>5. Uneven' /\ (Even => Even')
    BY <1>1, <2>2, <2>4 DEF Uneven, Even, AccountInv
  <2> QED
    BY <1>1, <2>1, <2>3, <2>5 DEF AccountInv
<1>2. ASSUME UNCHANGED <<vars, stats, processed>>,
             NotBegun' \/ phase' = "replay" => NotBegun \/ phase = "replay"
      PROVE  AccountInv'
  <2>1. live \subseteq Proc
    BY DEF AccountInv, Single, TypeOK
  <2> QED
    BY <1>1, <1>2, <2>1 DEF vars
<1>3. CASE StartProcess
  <2>1. live' \subseteq Proc
    BY <1>3, OnlyProcess DEF StartProcess, CreateProcess, AccountInv, Single, TypeOK
  <2> QED
    BY <1>1, <1>3, <2>1 DEF StartProcess, CreateProcess, replayVars, NotBegun, Becomes
<1>4. CASE AccessPage \/ AccessPageFails
  <2>1. /\ phase = "replay" /\ entry # NoEntry /\ ~Overflows(entry)
        /\ Single /\ SlotsClear /\ Even
    BY <1>4 DEF AccessPage, AccessPageFails, AccountInv
  <2>2. next \in Page /\ entry.write \in BOOLEAN
    BY <2>1, NextIsPage DEF ReaderInv, Entry
  <2>3. CASE AccessPage
    <3>1. Single' /\ SlotsClear' /\ Even'
      BY <2>1, <2>2, <2>3, AccessedCounted DEF AccessPage
    <3> QED
      BY <3>1 DEF AccountInv, Even, Uneven
  <2>4. CASE AccessPageFails
    <3>1. Single' /\ Uneven'
      BY <2>1, <2>2, <2>4, RefusedCounted DEF AccessPageFails, Returns
    <3>2. phase' = "replay failed"
      BY <2>4 DEF AccessPageFails, Returns, Becomes
    <3> QED
      BY <3>1, <3>2 DEF AccountInv, NotBegun
  <2> QED
    BY <1>4, <2>3, <2>4
<1>5. CASE ReadCommandLine \/ CreateMemory \/ CreateMemoryFails
           \/ StartProcessFails \/ Export \/ ExportFails \/ NothingToExport \/ Leave
  BY <1>2, <1>5 DEF ReadCommandLine, CreateMemory, CreateMemoryFails,
                    StartProcessFails, Export, ExportFails, NothingToExport, Leave,
                    replayVars, NotBegun, Becomes
<1>6. CASE OpenTrace \/ TakePending \/ ReadLine
  BY <1>2, <1>6 DEF OpenTrace, TakePending, ReadLine, Replaying, NotBegun, Becomes
<1>7. CASE OpenTraceFails \/ ReadFails \/ EndOfFile \/ EntryFails
  BY <1>2, <1>7 DEF OpenTraceFails, ReadFails, EndOfFile, EntryFails,
                    Returns, NotBegun, Becomes
<1>8. CASE UNCHANGED simVars
  BY <1>2, <1>8 DEF simVars, replayVars, NotBegun
<1> QED
  BY <1>3, <1>4, <1>5, <1>6, <1>7, <1>8 DEF SimNext

LEMMA AccountAlways == SimSpec => [](ReaderInv /\ AccountInv)
<1>1. SimInit => ReaderInv /\ AccountInv
  BY ReaderInit, AccountInit
<1>2. ReaderInv /\ AccountInv /\ [SimNext]_simVars => (ReaderInv /\ AccountInv)'
  BY ReaderNext, AccountNext
<1> QED
  BY <1>1, <1>2, PTL DEF SimSpec

\* For every page size, address space, trace and number of frames and slots:
\* while vmsim runs, a translation that the TLB holds is the one of the page
\* table, unless another page in use shares the path of its page through the
\* trie (src/page_table.c indexes it with 36 of the 52 bits of a page number).
THEOREM StaleOnlyAmongAliasesCorrect == SimSpec => []StaleOnlyAmongAliases
<1>1. AccountInv => StaleOnlyAmongAliases
  BY DEF AccountInv, Single
<1> QED
  BY <1>1, AccountAlways, PTL

\* The eleven counters of memory->stats fit the memory after every access of
\* a replay, also after the one that failed and ended it: faults that replaced
\* nothing are the frames in use, writes to swap that were not read back the
\* slots in use.
THEOREM CountersMatchMemoryCorrect == SimSpec => []CountersMatchMemory
<1>1. AccountInv => CountersMatchMemory
  <2> SUFFICES ASSUME AccountInv PROVE CountersMatchMemory
    OBVIOUS
  <2>1. AllNat(stats) /\ processed \in Nat
    BY DEF AccountInv, Uneven, AllNat, Counter
  <2> QED
    BY <2>1, BalancedIsMatch DEF AccountInv, Uneven
<1> QED
  BY <1>1, AccountAlways, PTL

-----------------------------------------------------------------------------
(* Flattening a sequence of sequences, one by one.                         *)

\* F has what the first i sequences of s make, for each i up to m.
Gathers(F, s, m) ==
  F = [i \in 1 .. m |-> IF i = 1 THEN s[i] ELSE F[i - 1] \o s[i]]

LEMMA GathersAt ==
  ASSUME NEW F, NEW s, NEW m, Gathers(F, s, m), NEW i \in 1 .. m
  PROVE  F[i] = IF i = 1 THEN s[i] ELSE F[i - 1] \o s[i]
BY DEF Gathers

LEMMA GatherExists ==
  ASSUME NEW s, NEW m \in Nat
  PROVE  \E F : Gathers(F, s, m)
<1> DEFINE bad == {k \in Nat : ~ \E F : Gathers(F, s, k)}
<1> SUFFICES ASSUME bad # {} PROVE FALSE
  OBVIOUS
<1> DEFINE k == First(bad)
<1>1. k \in bad /\ \A j \in bad : k <= j
  <2>1. bad \in SUBSET Nat
    OBVIOUS
  <2> HIDE DEF bad
  <2> QED
    BY <2>1, FirstOfNaturals
<1> HIDE DEF k
<1>2. k \in Nat /\ ~ \E F : Gathers(F, s, k)
  BY <1>1
<1>3. k # 0
  <2> SUFFICES ASSUME k = 0 PROVE FALSE
    OBVIOUS
  <2> DEFINE F == [i \in 1 .. 0 |-> s[i]]
  <2>1. F = [i \in 1 .. 0 |-> IF i = 1 THEN s[i] ELSE F[i - 1] \o s[i]]
    <3>1. \A i \in 1 .. 0 : FALSE
      OBVIOUS
    <3> QED
      BY <3>1
  <2> QED
    BY <1>2, <2>1 DEF Gathers
<1>4. k - 1 \in Nat /\ k - 1 \notin bad
  BY <1>1, <1>2, <1>3
<1>5. PICK G : Gathers(G, s, k - 1)
  BY <1>4
<1> DEFINE last == IF k = 1 THEN s[k] ELSE G[k - 1] \o s[k]
           F == [i \in 1 .. k |-> IF i = k THEN last ELSE G[i]]
           turn(i) == IF i = 1 THEN s[i] ELSE F[i - 1] \o s[i]
<1>6. \A i \in 1 .. k - 1 : F[i] = G[i]
  BY <1>2
<1>7. ASSUME NEW i \in 1 .. k PROVE F[i] = turn(i)
  <2>1. CASE i = k
    <3>1. F[i] = last /\ (k # 1 => F[i - 1] = G[i - 1])
      BY <1>2, <1>3, <1>6, <2>1
    <3> QED
      BY <2>1, <3>1
  <2>2. CASE i # k
    <3>1. i \in 1 .. k - 1 /\ (i # 1 => i - 1 \in 1 .. k - 1)
      BY <1>2, <2>2
    <3>2. G[i] = IF i = 1 THEN s[i] ELSE G[i - 1] \o s[i]
      BY <1>5, <3>1 DEF Gathers
    <3>3. i # 1 => F[i - 1] = G[i - 1]
      BY <1>6, <3>1
    <3> QED
      BY <1>6, <3>1, <3>2, <3>3
  <2> QED
    BY <2>1, <2>2
<1>8. F = [i \in 1 .. k |-> F[i]]
  OBVIOUS
<1>9. F = [i \in 1 .. k |-> turn(i)]
  <2> HIDE DEF turn, F
  <2> QED
    BY <1>7, <1>8
<1>10. Gathers(F, s, k)
  <2> HIDE DEF F
  <2> QED
    BY <1>9 DEF Gathers
<1> QED
  BY <1>2, <1>10

LEMMA FlattenGathers ==
  ASSUME NEW s, Len(s) \in Nat \ {0}
  PROVE  \E F : Gathers(F, s, Len(s)) /\ FlattenSeq(s) = F[Len(s)]
<1> DEFINE F == CHOOSE F : Gathers(F, s, Len(s))
<1>1. Gathers(F, s, Len(s))
  BY GatherExists
<1>2. FlattenSeq(s) = F[Len(s)]
  BY DEF FlattenSeq, Gathers
<1> QED
  BY <1>1, <1>2

\* Functions that gather the same agree.
LEMMA GathersAgree ==
  ASSUME NEW s, NEW r, NEW F, NEW G, NEW m \in Nat, NEW n \in Nat, n <= m,
         Gathers(F, s, m), Gathers(G, r, n),
         \A i \in 1 .. n : s[i] = r[i]
  PROVE  \A i \in 1 .. n : F[i] = G[i]
<1> DEFINE bad == {i \in 1 .. n : F[i] # G[i]}
<1> SUFFICES ASSUME bad # {} PROVE FALSE
  OBVIOUS
<1> DEFINE k == First(bad)
<1>1. k \in bad /\ \A j \in bad : k <= j
  <2>1. bad \in SUBSET Nat
    OBVIOUS
  <2> HIDE DEF bad
  <2> QED
    BY <2>1, FirstOfNaturals
<1> HIDE DEF k
<1>2. k \in 1 .. n /\ F[k] # G[k] /\ k \in 1 .. m
  BY <1>1
<1>3. /\ F[k] = IF k = 1 THEN s[k] ELSE F[k - 1] \o s[k]
      /\ G[k] = IF k = 1 THEN r[k] ELSE G[k - 1] \o r[k]
  BY <1>2 DEF Gathers
<1>4. k # 1 => k - 1 \in 1 .. n /\ k - 1 \notin bad
  BY <1>1, <1>2
<1> QED
  BY <1>2, <1>3, <1>4

ReplayAccess == Nat \X BOOLEAN

\* The accesses of the first n lines of t.
Demand(t, n) == FlattenSeq([i \in 1 .. n |-> AccessesOf(t[i])])

LEMMA DemandNone ==
  ASSUME NEW t
  PROVE  Demand(t, 0) = <<>>
<1> DEFINE s == [i \in 1 .. 0 |-> AccessesOf(t[i])]
<1>1. s \in Seq(ReplayAccess) /\ Len(s) = 0
  <2>1. \A i \in 1 .. 0 : FALSE
    OBVIOUS
  <2>2. s \in [1 .. 0 -> ReplayAccess]
    BY <2>1
  <2> HIDE DEF s
  <2> QED
    BY <2>2
<1>2. s = <<>>
  BY <1>1, EmptySeq
<1> QED
  BY <1>1, <1>2 DEF FlattenSeq, Demand

LEMMA DemandNext ==
  ASSUME NEW t, NEW n \in Nat, AccessesOf(t[n + 1]) \in Seq(ReplayAccess)
  PROVE  Demand(t, n + 1) = Demand(t, n) \o AccessesOf(t[n + 1])
<1> DEFINE s == [i \in 1 .. n + 1 |-> AccessesOf(t[i])]
           r == [i \in 1 .. n |-> AccessesOf(t[i])]
<1>1. /\ Len(s) = n + 1 /\ Len(r) = n /\ n + 1 \in Nat \ {0}
      /\ \A i \in 1 .. n : s[i] = r[i]
      /\ s[n + 1] = AccessesOf(t[n + 1])
  OBVIOUS
<1>2. Demand(t, n + 1) = FlattenSeq(s) /\ Demand(t, n) = FlattenSeq(r)
  BY DEF Demand
<1> HIDE DEF s, r
<1>3. PICK F : Gathers(F, s, n + 1) /\ FlattenSeq(s) = F[n + 1]
  BY <1>1, FlattenGathers
<1>4. F[n + 1] = IF n + 1 = 1 THEN s[n + 1] ELSE F[n + 1 - 1] \o s[n + 1]
  <2>1. n + 1 \in 1 .. n + 1
    OBVIOUS
  <2> QED
    BY <1>3, <2>1, GathersAt
<1>5. CASE n = 0
  <2>1. Demand(t, n + 1) = AccessesOf(t[n + 1])
    BY <1>1, <1>2, <1>3, <1>4, <1>5
  <2>2. Demand(t, n) = <<>>
    BY <1>5, DemandNone
  <2> QED
    BY <2>1, <2>2, ConcatEmptySeq
<1>6. CASE n # 0
  <2>1. PICK G : Gathers(G, r, n) /\ FlattenSeq(r) = G[n]
    BY <1>1, <1>6, FlattenGathers
  <2>2. F[n] = G[n]
    <3>1. n \in 1 .. n /\ n <= n + 1 /\ n + 1 \in Nat
      BY <1>6
    <3>2. \A i \in 1 .. n : F[i] = G[i]
      BY <1>1, <1>3, <2>1, <3>1, GathersAgree
    <3> QED
      BY <3>1, <3>2
  <2>3. n + 1 # 1 /\ n + 1 - 1 = n
    BY <1>6
  <2> QED
    BY <1>1, <1>2, <1>3, <1>4, <2>1, <2>2, <2>3
<1> QED
  BY <1>5, <1>6

\* What more lines stand for comes behind what the first ones stand for.
LEMMA DemandGrows ==
  ASSUME NEW t, NEW n \in Nat, NEW m \in Nat, n <= m,
         \A i \in 1 .. m : AccessesOf(t[i]) \in Seq(ReplayAccess)
  PROVE  /\ Demand(t, n) \in Seq(ReplayAccess)
         /\ \E rest \in Seq(ReplayAccess) : Demand(t, m) = Demand(t, n) \o rest
<1> DEFINE Good(a, b) == /\ Demand(t, a) \in Seq(ReplayAccess)
                         /\ \E rest \in Seq(ReplayAccess) : Demand(t, b) = Demand(t, a) \o rest
<1>1. ASSUME NEW a \in 0 .. m, Demand(t, a) \in Seq(ReplayAccess)
      PROVE  \A b \in a .. m : Good(a, b)
  <2> DEFINE bad == {b \in a .. m : ~Good(a, b)}
  <2> SUFFICES ASSUME bad # {} PROVE FALSE
    OBVIOUS
  <2> DEFINE k == First(bad)
  <2>1. k \in bad /\ \A j \in bad : k <= j
    <3>1. bad \in SUBSET Nat
      OBVIOUS
    <3> HIDE DEF bad
    <3> QED
      BY <3>1, FirstOfNaturals
  <2> HIDE DEF k
  <2>2. k \in a .. m /\ ~Good(a, k)
    BY <2>1
  <2>3. k # a
    <3> SUFFICES ASSUME k = a PROVE FALSE
      OBVIOUS
    <3>1. Demand(t, a) = Demand(t, a) \o <<>> /\ <<>> \in Seq(ReplayAccess)
      BY <1>1, ConcatEmptySeq, EmptySeq
    <3> QED
      BY <1>1, <2>2, <3>1
  <2> DEFINE j == k - 1
  <2>4. j \in a .. m /\ j \in Nat /\ k = j + 1 /\ j + 1 \in 1 .. m /\ ~(k <= j)
    BY <2>2, <2>3
  <2>5. Good(a, j)
    BY <2>1, <2>4
  <2> HIDE DEF j
  <2>6. PICK rest \in Seq(ReplayAccess) : Demand(t, j) = Demand(t, a) \o rest
    BY <2>5
  <2> DEFINE new == AccessesOf(t[j + 1])
  <2>7. new \in Seq(ReplayAccess) /\ Demand(t, j + 1) = Demand(t, j) \o new
    BY <2>4, DemandNext
  <2> HIDE DEF new
  <2>8. rest \o new \in Seq(ReplayAccess)
    BY <2>7, ConcatProperties
  <2>9. Demand(t, k) = Demand(t, a) \o (rest \o new)
    <3>1. (Demand(t, a) \o rest) \o new = Demand(t, a) \o (rest \o new)
      BY <1>1, <2>6, <2>7, ConcatAssociative, SMTT(30)
    <3> QED
      BY <2>4, <2>6, <2>7, <3>1
  <2> QED
    BY <1>1, <2>2, <2>8, <2>9
<1>2. Demand(t, n) \in Seq(ReplayAccess)
  <2>1. Demand(t, 0) = <<>> /\ <<>> \in Seq(ReplayAccess)
    BY DemandNone, EmptySeq
  <2>2. 0 \in 0 .. m /\ n \in 0 .. m
    OBVIOUS
  <2>3. Good(0, n)
    BY <1>1, <2>1, <2>2
  <2>4. PICK rest \in Seq(ReplayAccess) : Demand(t, n) = <<>> \o rest
    BY <2>1, <2>3
  <2> QED
    BY <2>4, ConcatEmptySeq
<1>3. n \in 0 .. m /\ m \in n .. m
  OBVIOUS
<1>4. Good(n, m)
  BY <1>1, <1>2, <1>3
<1> QED
  BY <1>4

LEMMA ConcatThree ==
  ASSUME NEW S, NEW a \in Seq(S), NEW b \in Seq(S), NEW c \in Seq(S)
  PROVE  (a \o b) \o c = a \o (b \o c)
BY ConcatAssociative

LEMMA PrefixOfConcat ==
  ASSUME NEW S, NEW s \in Seq(S), NEW r \in Seq(S)
  PROVE  IsPrefix(s, s \o r)
<1>1. /\ Len(s) <= Len(s \o r)
      /\ SubSeq(s, 1, Len(s)) = SubSeq(s \o r, 1, Len(s))
  OBVIOUS
<1> QED
  BY <1>1 DEF IsPrefix

-----------------------------------------------------------------------------
(* The accesses that one line stands for. *)

\* Pages from .. to, each accessed once.
Span(from, to, w) == [i \in 1 .. to - from + 1 |-> <<from + i - 1, w>>]

Quotient(x, b) == x \div b

LEMMA PageBetween ==
  ASSUME NEW b \in Nat \ {0}, NEW a \in Nat, NEW c \in Nat, NEW v \in Nat,
         a <= c, Quotient(a, b) <= v, v <= Quotient(c, b)
  PROVE  \E x \in Nat : a <= x /\ x <= c /\ Quotient(x, b) = v
<1>1. CASE v = a \div b
  BY <1>1 DEF Quotient
<1>2. CASE v # a \div b
  <2> DEFINE x == v * b
  <2>1. x \in Nat
    OBVIOUS
  <2>2. x <= c
    BY DEF Quotient
  <2>3. a <= x
    BY <1>2 DEF Quotient
  <2>4. Quotient(x, b) = v
    BY DEF Quotient
  <2> HIDE DEF x
  <2> QED
    BY <2>1, <2>2, <2>3, <2>4
<1> QED
  BY <1>1, <1>2

LEMMA WriteOrNot ==
  ASSUME NEW l
  PROVE  l.op \notin {"W", "S"} => EntryOf(l).write = FALSE
<1>1. EntryOf(l).write = (l.op \in {"W", "S"})
  BY DEF EntryOf
<1>2. ASSUME l.op \notin {"W", "S"} PROVE (l.op \in {"W", "S"}) = FALSE
  BY <1>2
<1> QED
  BY <1>1, <1>2

\* A line that is well formed is ignored, or is valid and ends at an address.
LEMMA WellFormedLines ==
  ASSUME NEW l \in TraceLine
  PROVE  WellFormed(l) <=> Ignored(l) \/ (Valid(l) /\ ~Overflows(EntryOf(l)))
<1> DEFINE last == l.address + l.size - 1
<1>1. l.address \in 0 .. AddressCount - 1 /\ l.size \in Nat /\ last \in Int
      /\ AddressCount \in Nat
  BY AddressAssumption DEF TraceLine
<1>2. Bytes(l) = l.address .. last
  BY DEF Bytes
<1>3. Bytes(l) # {} <=> HasParameters(l)
  BY <1>1, <1>2 DEF HasParameters
<1>4. HasParameters(l) => (Bytes(l) \subseteq 0 .. AddressCount - 1
                            <=> ~Overflows(EntryOf(l)))
  <2> SUFFICES ASSUME HasParameters(l)
               PROVE  Bytes(l) \subseteq 0 .. AddressCount - 1 <=> ~Overflows(EntryOf(l))
    OBVIOUS
  <2>1. Overflows(EntryOf(l)) <=> last > AddressCount - 1
    BY <1>1 DEF Overflows, EntryOf
  <2>2. last \in Bytes(l)
    BY <1>1, <1>2 DEF HasParameters
  <2> HIDE DEF last
  <2> QED
    BY <1>1, <1>2, <2>1, <2>2
<1> QED
  BY <1>3, <1>4 DEF WellFormed, Valid

LEMMA PagesSpan ==
  ASSUME NEW l \in TraceLine, HasParameters(l)
  PROVE  \A w \in BOOLEAN :
           Each(l, w) = Span(FirstPage(EntryOf(l)), LastPage(EntryOf(l)), w)
<1> DEFINE last == l.address + l.size - 1
           pages == {b \div PageSize : b \in Bytes(l)}
           f == FirstPage(EntryOf(l))
           g == LastPage(EntryOf(l))
           Rank(v) == Cardinality({u \in pages : u <= v})
<1>1. l.address \in Nat /\ last \in Nat /\ l.address <= last /\ PageSize \in Nat \ {0}
  BY AddressAssumption DEF TraceLine, HasParameters
<1>2. Bytes(l) = l.address .. last
  BY DEF Bytes
<1>3. f = l.address \div PageSize /\ g = last \div PageSize
  BY <1>1 DEF FirstPage, LastPage, EntryOf, TraceLine
<1> HIDE DEF last, f, g
<1>4. f \in Nat /\ g \in Nat /\ f <= g
  BY <1>1, <1>3, PageOrder
<1>5. pages = f .. g
  <2>1. ASSUME NEW b \in Bytes(l) PROVE b \div PageSize \in f .. g
    <3>1. b \in Nat /\ l.address <= b /\ b <= last
      BY <1>1, <1>2
    <3>2. f <= b \div PageSize /\ b \div PageSize <= g /\ b \div PageSize \in Nat
      BY <1>1, <1>3, <3>1, PageOrder
    <3> QED
      BY <1>4, <3>2
  <2>2. ASSUME NEW v \in f .. g PROVE \E b \in Bytes(l) : b \div PageSize = v
    <3>1. v \in Nat /\ Quotient(l.address, PageSize) <= v /\ v <= Quotient(last, PageSize)
      BY <1>3, <1>4 DEF Quotient
    <3>2. PICK x \in Nat : l.address <= x /\ x <= last /\ Quotient(x, PageSize) = v
      BY <1>1, <3>1, PageBetween
    <3>3. x \in Bytes(l)
      BY <1>1, <1>2, <3>2
    <3> QED
      BY <3>2, <3>3 DEF Quotient
  <2> QED
    BY <2>1, <2>2
<1> HIDE DEF pages
<1>6. Cardinality(pages) = g - f + 1
  BY <1>4, <1>5, FS_Interval
<1>7. \A v \in pages : Rank(v) = v - f + 1
  <2> SUFFICES ASSUME NEW v \in pages PROVE Rank(v) = v - f + 1
    OBVIOUS
  <2>1. {u \in pages : u <= v} = f .. v /\ v \in Int /\ f <= v
    BY <1>4, <1>5
  <2>2. Rank(v) = Cardinality(f .. v)
    BY <2>1
  <2>3. Cardinality(f .. v) = v - f + 1
    BY <1>4, <2>1, FS_Interval
  <2> QED
    BY <2>2, <2>3
<1> HIDE DEF Rank
<1>8. ASSUME NEW i \in 1 .. g - f + 1
      PROVE  (CHOOSE v \in pages : Rank(v) = i) = f + i - 1
  <2>1. f + i - 1 \in pages /\ Rank(f + i - 1) = i
    <3>1. f + i - 1 \in pages
      BY <1>4, <1>5
    <3> QED
      BY <1>4, <1>7, <3>1
  <2>2. \A v \in pages : Rank(v) = i => v = f + i - 1
    BY <1>4, <1>5, <1>7
  <2> QED
    BY <2>1, <2>2
<1>9. PagesInOrder(l) = [i \in 1 .. g - f + 1 |-> CHOOSE v \in pages : Rank(v) = i]
  BY <1>6 DEF PagesInOrder, pages, Rank
<1>10. PagesInOrder(l) = [i \in 1 .. g - f + 1 |-> f + i - 1]
  BY <1>8, <1>9
<1> QED
  BY <1>10 DEF Each, Span, f, g

LEMMA SpanProperties ==
  ASSUME NEW from \in Nat, NEW to \in Nat, NEW w \in BOOLEAN
  PROVE  /\ Span(from, to, w) \in Seq(ReplayAccess)
         /\ from <= to => Span(from, to, w) = <<<<from, w>>>> \o Span(from + 1, to, w)
         /\ from > to => Span(from, to, w) = <<>>
<1>1. ASSUME NEW a \in Nat, NEW b \in Nat
      PROVE  /\ Span(a, b, w) \in Seq(ReplayAccess)
             /\ Len(Span(a, b, w)) = IF a <= b THEN b - a + 1 ELSE 0
             /\ \A i \in 1 .. b - a + 1 : Span(a, b, w)[i] = <<a + i - 1, w>>
  <2> DEFINE n == IF a <= b THEN b - a + 1 ELSE 0
  <2>1. n \in Nat /\ 1 .. b - a + 1 = 1 .. n
    OBVIOUS
  <2>2. Span(a, b, w) = [i \in 1 .. n |-> <<a + i - 1, w>>]
    BY <2>1 DEF Span
  <2>3. \A i \in 1 .. n : <<a + i - 1, w>> \in ReplayAccess
    BY <2>1 DEF ReplayAccess
  <2> HIDE DEF n
  <2>4. Span(a, b, w) \in [1 .. n -> ReplayAccess]
    BY <2>2, <2>3
  <2>5. Span(a, b, w) \in Seq(ReplayAccess) /\ Len(Span(a, b, w)) = n
    BY <2>1, <2>4
  <2> QED
    BY <2>1, <2>2, <2>5 DEF n
<1>2. from <= to => Span(from, to, w) = <<<<from, w>>>> \o Span(from + 1, to, w)
  <2> SUFFICES ASSUME from <= to
               PROVE  Span(from, to, w) = <<<<from, w>>>> \o Span(from + 1, to, w)
    OBVIOUS
  <2> DEFINE s == Span(from, to, w)
             one == <<<<from, w>>>>
             r == Span(from + 1, to, w)
  <2>1. /\ s \in Seq(ReplayAccess) /\ Len(s) = to - from + 1
        /\ \A i \in 1 .. to - from + 1 : s[i] = <<from + i - 1, w>>
    BY <1>1
  <2>2. /\ r \in Seq(ReplayAccess) /\ Len(r) = to - from
        /\ \A i \in 1 .. to - from : r[i] = <<from + i, w>>
    <3>1. from + 1 \in Nat /\ to - (from + 1) + 1 = to - from
      OBVIOUS
    <3>2. \A i \in 1 .. to - from : from + 1 + i - 1 = from + i
      OBVIOUS
    <3>3. /\ r \in Seq(ReplayAccess)
          /\ Len(r) = IF from + 1 <= to THEN to - (from + 1) + 1 ELSE 0
          /\ \A i \in 1 .. to - (from + 1) + 1 : r[i] = <<from + 1 + i - 1, w>>
      BY <1>1, <3>1
    <3> HIDE DEF r
    <3> QED
      BY <3>1, <3>2, <3>3
  <2>3. one \in Seq(ReplayAccess) /\ Len(one) = 1 /\ one[1] = <<from, w>>
    BY DEF ReplayAccess
  <2> HIDE DEF s, one, r
  <2>4. /\ one \o r \in Seq(ReplayAccess) /\ Len(one \o r) = to - from + 1
        /\ \A i \in 1 .. to - from + 1 :
             (one \o r)[i] = IF i <= 1 THEN one[i] ELSE r[i - 1]
    <3>1. Len(one) + Len(r) = to - from + 1
      BY <2>2, <2>3
    <3>2. /\ one \o r \in Seq(ReplayAccess) /\ Len(one \o r) = Len(one) + Len(r)
          /\ \A i \in 1 .. Len(one) + Len(r) :
               (one \o r)[i] = IF i <= Len(one) THEN one[i] ELSE r[i - Len(one)]
      BY <2>2, <2>3, ConcatProperties
    <3> QED
      BY <2>3, <3>1, <3>2
  <2>5. ASSUME NEW i \in 1 .. to - from + 1 PROVE s[i] = (one \o r)[i]
    <3>1. CASE i = 1
      <4>1. from + i - 1 = from
        BY <3>1
      <4>2. (one \o r)[i] = <<from, w>>
        BY <2>3, <2>4, <3>1
      <4>3. s[i] = <<from + i - 1, w>>
        BY <2>1
      <4> QED
        BY <4>1, <4>2, <4>3
    <3>2. CASE i # 1
      <4>1. i - 1 \in 1 .. to - from /\ ~(i <= 1) /\ from + (i - 1) = from + i - 1
        BY <3>2
      <4>2. (one \o r)[i] = r[i - 1]
        BY <2>4, <4>1
      <4>3. r[i - 1] = <<from + (i - 1), w>>
        BY <2>2, <4>1
      <4>4. s[i] = <<from + i - 1, w>>
        BY <2>1
      <4> QED
        BY <4>1, <4>2, <4>3, <4>4
    <3> QED
      BY <3>1, <3>2
  <2> QED
    BY <2>1, <2>4, <2>5, SeqEqual DEF s, one, r
<1>3. from > to => Span(from, to, w) = <<>>
  BY <1>1, EmptySeq
<1> QED
  BY <1>1, <1>2, <1>3

LEMMA PagesOfEntry ==
  ASSUME NEW e \in Entry
  PROVE  FirstPage(e) \in Nat /\ LastPage(e) \in Nat
BY AddressAssumption DEF Entry, FirstPage, LastPage

\* What a line stands for: the entry that is read of it, and a write behind.
LEMMA LineShape ==
  ASSUME NEW l \in TraceLine, WellFormed(l)
  PROVE  /\ AccessesOf(l) \in Seq(ReplayAccess)
         /\ Ignored(l) => AccessesOf(l) = <<>>
         /\ Valid(l) =>
              LET e == EntryOf(l)
              IN  AccessesOf(l) = Span(FirstPage(e), LastPage(e), e.write)
                                  \o IF Modifies(l) THEN Span(FirstPage(e), LastPage(e), TRUE)
                                                    ELSE <<>>
<1>1. CASE Ignored(l)
  <2>1. ~Valid(l)
    BY <1>1 DEF Ignored, Valid
  <2>2. AccessesOf(l) = <<>>
    BY <1>1 DEF AccessesOf, Ignored
  <2> QED
    BY <2>1, <2>2, EmptySeq
<1>2. CASE ~Ignored(l)
  <2> DEFINE e == EntryOf(l)
             f == FirstPage(e)
             g == LastPage(e)
  <2>1. Valid(l) /\ HasParameters(l)
    BY <1>2, WellFormedLines DEF Valid
  <2>2. f \in Nat /\ g \in Nat
    BY <2>1, EntryOfLine, PagesOfEntry
  <2>3. \A w \in BOOLEAN : Each(l, w) = Span(f, g, w) /\ Span(f, g, w) \in Seq(ReplayAccess)
    BY <2>1, <2>2, PagesSpan, SpanProperties
  <2>4. e.write = (l.op \in {"W", "S"}) /\ (Modifies(l) <=> l.op = "M")
    BY DEF EntryOf, Modifies
  <2> HIDE DEF e, f, g
  <2>5. CASE l.op \in {"R", "L"}
    <3>1. AccessesOf(l) = Each(l, FALSE) /\ e.write = FALSE /\ ~Modifies(l)
      <4>1. AccessesOf(l) = Each(l, FALSE) /\ ~Modifies(l) /\ l.op \notin {"W", "S"}
        BY <1>2, <2>4, <2>5 DEF AccessesOf
      <4>2. e.write = FALSE
        BY <4>1, WriteOrNot DEF e
      <4> QED
        BY <4>1, <4>2
    <3>2. AccessesOf(l) = Span(f, g, FALSE) /\ Span(f, g, FALSE) \in Seq(ReplayAccess)
      BY <2>3, <3>1
    <3>3. Span(f, g, FALSE) \o <<>> = Span(f, g, FALSE)
      BY <3>2, ConcatEmptySeq
    <3> QED
      BY <1>2, <3>1, <3>2, <3>3 DEF e, f, g
  <2>6. CASE l.op \in {"W", "S"}
    <3>1. AccessesOf(l) = Each(l, TRUE) /\ e.write = TRUE /\ ~Modifies(l)
      BY <1>2, <2>4, <2>6 DEF AccessesOf
    <3>2. AccessesOf(l) = Span(f, g, TRUE) /\ Span(f, g, TRUE) \in Seq(ReplayAccess)
      BY <2>3, <3>1
    <3>3. Span(f, g, TRUE) \o <<>> = Span(f, g, TRUE)
      BY <3>2, ConcatEmptySeq
    <3> QED
      BY <1>2, <3>1, <3>2, <3>3 DEF e, f, g
  <2>7. CASE l.op = "M"
    <3>1. AccessesOf(l) = Each(l, FALSE) \o Each(l, TRUE) /\ e.write = FALSE /\ Modifies(l)
      <4>1. /\ AccessesOf(l) = Each(l, FALSE) \o Each(l, TRUE)
            /\ Modifies(l) /\ l.op \notin {"W", "S"}
        BY <1>2, <2>4, <2>7 DEF AccessesOf
      <4>2. e.write = FALSE
        BY <4>1, WriteOrNot DEF e
      <4> QED
        BY <4>1, <4>2
    <3>2. /\ AccessesOf(l) = Span(f, g, FALSE) \o Span(f, g, TRUE)
          /\ Span(f, g, FALSE) \in Seq(ReplayAccess) /\ Span(f, g, TRUE) \in Seq(ReplayAccess)
      BY <2>3, <3>1
    <3>3. AccessesOf(l) \in Seq(ReplayAccess)
      BY <3>2, ConcatProperties
    <3> QED
      BY <1>2, <3>1, <3>2, <3>3 DEF e, f, g
  <2> QED
    BY <2>1, <2>5, <2>6, <2>7 DEF Valid
<1> QED
  BY <1>1, <1>2

LEMMA MinOfNaturals ==
  ASSUME NEW S \in SUBSET Nat, S # {}
  PROVE  Min(S) \in S /\ \A j \in S : Min(S) <= j
<1>1. First(S) \in S /\ \A j \in S : First(S) <= j
  BY FirstOfNaturals
<1> QED
  BY <1>1 DEF Min

LinesGood(t, n) == \A i \in 1 .. n : WellFormed(t[i])

LEMMA GoodShape ==
  ASSUME NEW t \in Seq(TraceLine)
  PROVE  \E k \in 0 .. Len(t) :
           /\ LinesGood(t, k)
           /\ k = Len(t) \/ ~WellFormed(t[k + 1])
           /\ GoodLines(t) = SubSeq(t, 1, k)
           /\ Demanded(t) = Demand(t, k)
<1> DEFINE bad == {i \in DOMAIN t : ~WellFormed(t[i])}
           k == IF bad = {} THEN Len(t) ELSE Min(bad) - 1
<1>1. Len(t) \in Nat /\ DOMAIN t = 1 .. Len(t)
  OBVIOUS
<1>2. bad # {} => Min(bad) \in bad /\ \A j \in bad : Min(bad) <= j
  <2>1. bad \in SUBSET Nat
    BY <1>1
  <2> HIDE DEF bad
  <2> QED
    BY <2>1, MinOfNaturals
<1>3. GoodLines(t) = SubSeq(t, 1, k)
  BY DEF GoodLines
<1>4. k \in 0 .. Len(t) /\ LinesGood(t, k) /\ (k = Len(t) \/ ~WellFormed(t[k + 1]))
  <2>1. CASE bad = {}
    BY <1>1, <2>1 DEF LinesGood
  <2>2. CASE bad # {}
    <3>1. /\ Min(bad) \in 1 .. Len(t) /\ ~WellFormed(t[Min(bad)])
          /\ k = Min(bad) - 1
      BY <1>1, <1>2, <2>2
    <3>2. ASSUME NEW i \in 1 .. k PROVE WellFormed(t[i])
      <4>1. i \in 1 .. Len(t) /\ ~(Min(bad) <= i)
        BY <1>1, <3>1
      <4> QED
        BY <1>1, <1>2, <4>1
    <3>3. k + 1 = Min(bad) /\ k \in 0 .. Len(t)
      BY <1>1, <3>1
    <3> QED
      BY <3>1, <3>2, <3>3 DEF LinesGood
  <2> QED
    BY <2>1, <2>2
<1> HIDE DEF k, bad
<1>5. /\ GoodLines(t) \in Seq(TraceLine) /\ Len(GoodLines(t)) = k
      /\ \A i \in 1 .. k : GoodLines(t)[i] = t[i]
  <2>0. k \in Nat /\ \A i \in 1 .. k : i \in 1 .. Len(t)
    <3>1. k \in 0 .. Len(t)
      BY <1>4, Zenon
    <3> QED
      BY <1>1, <3>1
  <2>1. \A i \in 1 .. k : t[i] \in TraceLine
    BY <2>0
  <2>2. /\ SubSeq(t, 1, k) \in Seq(TraceLine)
        /\ Len(SubSeq(t, 1, k)) = IF 1 <= k THEN k - 1 + 1 ELSE 0
        /\ \A i \in 1 .. k - 1 + 1 : SubSeq(t, 1, k)[i] = t[1 + i - 1]
    BY <2>0, <2>1, SubSeqProperties
  <2>3. k - 1 + 1 = k /\ (IF 1 <= k THEN k - 1 + 1 ELSE 0) = k
        /\ \A i \in 1 .. k : 1 + i - 1 = i
    BY <2>0
  <2> QED
    BY <1>3, <2>2, <2>3
<1>6. [i \in DOMAIN GoodLines(t) |-> AccessesOf(GoodLines(t)[i])]
        = [i \in 1 .. k |-> AccessesOf(t[i])]
  BY <1>5
<1>7. Demanded(t) = Demand(t, k)
  BY <1>6 DEF Demanded, Demand
<1> QED
  BY <1>3, <1>4, <1>7

\* Accesses that lead to those of n good lines are a beginning of all.
LEMMA Beginning ==
  ASSUME NEW t \in Seq(TraceLine), NEW n \in 0 .. Len(t), LinesGood(t, n),
         NEW m \in Seq(ReplayAccess), NEW rest \in Seq(ReplayAccess)
  PROVE  m \o rest = Demand(t, n) => IsPrefix(m, Demanded(t))
<1>1. PICK k \in 0 .. Len(t) :
        /\ LinesGood(t, k)
        /\ k = Len(t) \/ ~WellFormed(t[k + 1])
        /\ Demanded(t) = Demand(t, k)
  BY GoodShape
<1>2. n <= k /\ n \in Nat /\ k \in Nat
  <2> SUFFICES ASSUME ~(n <= k) PROVE FALSE
    OBVIOUS
  <2>1. k + 1 \in 1 .. n /\ k # Len(t)
    OBVIOUS
  <2> QED
    BY <1>1, <2>1 DEF LinesGood
<1>3. ASSUME NEW i \in 1 .. k PROVE AccessesOf(t[i]) \in Seq(ReplayAccess)
  <2>1. t[i] \in TraceLine /\ WellFormed(t[i])
    BY <1>1 DEF LinesGood
  <2> QED
    BY <2>1, LineShape
<1>4. PICK more \in Seq(ReplayAccess) : Demand(t, k) = Demand(t, n) \o more
  BY <1>2, <1>3, DemandGrows
<1>5. (m \o rest) \o more = m \o (rest \o more)
  BY ConcatThree
<1>6. IsPrefix(m, m \o (rest \o more))
  <2>1. rest \o more \in Seq(ReplayAccess)
    BY ConcatProperties
  <2> QED
    BY <2>1, PrefixOfConcat
<1> QED
  BY <1>1, <1>4, <1>5, <1>6

-----------------------------------------------------------------------------
(* The replay: what was accessed, and what is left of the lines it has read, *)
(* is what these lines stand for.  An entry that ends beyond the last address *)
(* is one of a line that is not well formed, and nothing of it is accessed.   *)

Current(e, nx) == IF e = NoEntry THEN <<>> ELSE Span(nx, LastPage(e), e.write)

Behind(p) == IF p = NoEntry THEN <<>> ELSE Span(FirstPage(p), LastPage(p), TRUE)

Following(t, n, p, e, nx, m) ==
  /\ p # NoEntry =>
       n > 0 /\ Valid(t[n]) /\ Modifies(t[n]) /\ p = WriteAfter(EntryOf(t[n]))
  /\ e # NoEntry =>
       n > 0 /\ Valid(t[n]) /\ e.address = t[n].address /\ e.size = t[n].size
  /\ IF e # NoEntry /\ Overflows(e)
     THEN LinesGood(t, n - 1) /\ ~WellFormed(t[n]) /\ m = Demand(t, n - 1)
     ELSE LinesGood(t, n) /\ m \o (Current(e, nx) \o Behind(p)) = Demand(t, n)

LEMMA RestIsAccesses ==
  ASSUME NEW p \in Entry \union {NoEntry}, NEW e \in Entry \union {NoEntry}, NEW nx,
         e # NoEntry => nx \in Nat
  PROVE  /\ Current(e, nx) \in Seq(ReplayAccess) /\ Behind(p) \in Seq(ReplayAccess)
         /\ Current(e, nx) \o Behind(p) \in Seq(ReplayAccess)
<1>1. <<>> \in Seq(ReplayAccess)
  BY EmptySeq
<1>2. Current(e, nx) \in Seq(ReplayAccess)
  <2>1. CASE e = NoEntry
    BY <1>1, <2>1 DEF Current
  <2>2. CASE e # NoEntry
    <3>1. e \in Entry /\ nx \in Nat /\ e.write \in BOOLEAN
      BY <2>2 DEF Entry
    <3>2. LastPage(e) \in Nat
      BY <3>1, PagesOfEntry
    <3> QED
      BY <2>2, <3>1, <3>2, SpanProperties DEF Current
  <2> QED
    BY <2>1, <2>2
<1>3. Behind(p) \in Seq(ReplayAccess)
  <2>1. CASE p = NoEntry
    BY <1>1, <2>1 DEF Behind
  <2>2. CASE p # NoEntry
    <3>1. FirstPage(p) \in Nat /\ LastPage(p) \in Nat
      BY <2>2, PagesOfEntry
    <3> QED
      BY <2>2, <3>1, SpanProperties DEF Behind
  <2> QED
    BY <2>1, <2>2
<1> QED
  BY <1>2, <1>3, ConcatProperties

LEMMA FollowBegins ==
  ASSUME NEW t \in Seq(TraceLine), NEW nx
  PROVE  Following(t, 0, NoEntry, NoEntry, nx, <<>>)
<1>1. Current(NoEntry, nx) = <<>> /\ Behind(NoEntry) = <<>>
  BY DEF Current, Behind
<1>2. <<>> \o <<>> = <<>>
  BY EmptySeq, ConcatEmptySeq
<1>3. LinesGood(t, 0)
  BY DEF LinesGood
<1>4. Demand(t, 0) = <<>>
  BY DemandNone
<1> QED
  BY <1>1, <1>2, <1>3, <1>4 DEF Following

\* A line that is well formed and the entry that was read of it.
LEMMA EntryOfGoodLine ==
  ASSUME NEW l \in TraceLine, Valid(l), NEW e, e.address = l.address, e.size = l.size
  PROVE  Overflows(e) <=> ~WellFormed(l)
<1>1. ~Ignored(l)
  BY DEF Valid, Ignored
<1>2. Overflows(e) <=> Overflows(EntryOf(l))
  BY DEF Overflows, EntryOf
<1> QED
  BY <1>1, <1>2, WellFormedLines

LEMMA FollowPending ==
  ASSUME NEW t \in Seq(TraceLine), NEW n \in 0 .. Len(t), NEW p \in Entry,
         NEW nx, NEW m, Following(t, n, p, NoEntry, nx, m)
  PROVE  Following(t, n, NoEntry, p, FirstPage(p), m)
<1>1. /\ p # NoEntry
      /\ n > 0 /\ Valid(t[n]) /\ p = WriteAfter(EntryOf(t[n]))
      /\ LinesGood(t, n) /\ m \o (Current(NoEntry, nx) \o Behind(p)) = Demand(t, n)
  BY EntryIsSome DEF Following
<1>2. p.write = TRUE /\ p.address = t[n].address /\ p.size = t[n].size
  BY <1>1 DEF WriteAfter, EntryOf
<1>3. ~Overflows(p)
  <2>1. n \in 1 .. n /\ t[n] \in TraceLine
    BY <1>1
  <2>2. WellFormed(t[n])
    BY <1>1, <2>1 DEF LinesGood
  <2> QED
    BY <1>1, <1>2, <2>1, <2>2, EntryOfGoodLine
<1>4. Current(NoEntry, nx) \o Behind(p) = Current(p, FirstPage(p)) \o Behind(NoEntry)
  <2>1. Current(NoEntry, nx) = <<>> /\ Behind(NoEntry) = <<>>
    BY DEF Current, Behind
  <2>2. Current(p, FirstPage(p)) = Behind(p)
    BY <1>1, <1>2 DEF Current, Behind
  <2>3. Behind(p) \in Seq(ReplayAccess)
    BY RestIsAccesses
  <2>4. <<>> \o Behind(p) = Behind(p) /\ Behind(p) \o <<>> = Behind(p)
    BY <2>3, ConcatEmptySeq
  <2> QED
    BY <2>1, <2>2, <2>4
<1>5. m \o (Current(p, FirstPage(p)) \o Behind(NoEntry)) = Demand(t, n)
  BY <1>1, <1>4
<1> QED
  BY <1>1, <1>2, <1>3, <1>5 DEF Following

\* When nothing is left of the lines that were read, all of them was accessed.
LEMMA FollowBetween ==
  ASSUME NEW t, NEW n, NEW nx, NEW m \in Seq(ReplayAccess)
  PROVE  Following(t, n, NoEntry, NoEntry, nx, m) <=> LinesGood(t, n) /\ m = Demand(t, n)
<1>1. Current(NoEntry, nx) = <<>> /\ Behind(NoEntry) = <<>>
  BY DEF Current, Behind
<1>2. <<>> \o <<>> = <<>>
  BY EmptySeq, ConcatEmptySeq
<1>3. m \o (Current(NoEntry, nx) \o Behind(NoEntry)) = m
  BY <1>1, <1>2, ConcatEmptySeq
<1> QED
  BY <1>3 DEF Following

LEMMA FollowIgnored ==
  ASSUME NEW t \in Seq(TraceLine), NEW n \in Nat, n + 1 \in 1 .. Len(t), NEW nx,
         NEW m \in Seq(ReplayAccess), Following(t, n, NoEntry, NoEntry, nx, m),
         Ignored(t[n + 1])
  PROVE  Following(t, n + 1, NoEntry, NoEntry, nx, m)
<1>1. LinesGood(t, n) /\ m = Demand(t, n)
  BY FollowBetween
<1>2. t[n + 1] \in TraceLine /\ WellFormed(t[n + 1])
  BY DEF WellFormed
<1>3. LinesGood(t, n + 1)
  BY <1>1, <1>2 DEF LinesGood
<1>4. AccessesOf(t[n + 1]) = <<>> /\ <<>> \in Seq(ReplayAccess)
  BY <1>2, LineShape, EmptySeq
<1>5. Demand(t, n + 1) = Demand(t, n) \o <<>>
  BY <1>4, DemandNext
<1>6. m \o <<>> = m
  BY ConcatEmptySeq
<1>7. m = Demand(t, n + 1)
  BY <1>1, <1>5, <1>6
<1> QED
  BY <1>3, <1>7, FollowBetween

LEMMA FollowLine ==
  ASSUME NEW t \in Seq(TraceLine), NEW n \in Nat, n + 1 \in 1 .. Len(t), NEW nx,
         NEW m \in Seq(ReplayAccess), Following(t, n, NoEntry, NoEntry, nx, m),
         Valid(t[n + 1])
  PROVE  LET e == EntryOf(t[n + 1])
             p == IF Modifies(t[n + 1]) THEN WriteAfter(e) ELSE NoEntry
         IN  Following(t, n + 1, p, e, FirstPage(e), m)
<1> DEFINE l == t[n + 1]
           e == EntryOf(l)
           p == IF Modifies(l) THEN WriteAfter(e) ELSE NoEntry
<1>1. LinesGood(t, n) /\ m = Demand(t, n)
  BY FollowBetween
<1>2. l \in TraceLine /\ Valid(l)
  OBVIOUS
<1>3. e \in Entry /\ e # NoEntry /\ e.address = l.address /\ e.size = l.size
  BY <1>2, EntryOfLine, EntryIsSome DEF EntryOf
<1>4. Overflows(e) <=> ~WellFormed(l)
  BY <1>2, <1>3, EntryOfGoodLine
<1>5. p # NoEntry => Modifies(l) /\ p = WriteAfter(EntryOf(l))
  OBVIOUS
<1>6. n + 1 > 0 /\ n + 1 - 1 = n
  OBVIOUS
<1>7. CASE Overflows(e)
  <2>1. LinesGood(t, n + 1 - 1) /\ m = Demand(t, n + 1 - 1) /\ ~WellFormed(l)
    BY <1>1, <1>4, <1>6, <1>7
  <2> HIDE DEF e, p
  <2>2. Following(t, n + 1, p, e, FirstPage(e), m)
    BY <1>2, <1>3, <1>5, <1>6, <1>7, <2>1 DEF Following
  <2> QED
    BY <2>2 DEF e, p
<1>8. CASE ~Overflows(e)
  <2>1. WellFormed(l)
    BY <1>4, <1>8
  <2>2. LinesGood(t, n + 1)
    BY <1>1, <2>1 DEF LinesGood
  <2>3. /\ AccessesOf(l) \in Seq(ReplayAccess)
        /\ AccessesOf(l) = Span(FirstPage(e), LastPage(e), e.write)
                           \o IF Modifies(l) THEN Span(FirstPage(e), LastPage(e), TRUE)
                                             ELSE <<>>
    BY <1>2, <2>1, LineShape
  <2>4. Current(e, FirstPage(e)) = Span(FirstPage(e), LastPage(e), e.write)
    BY <1>3 DEF Current
  <2>5. Behind(p) = IF Modifies(l) THEN Span(FirstPage(e), LastPage(e), TRUE) ELSE <<>>
    <3>1. WriteAfter(e) # NoEntry
      BY <1>2, EntryOfLine, EntryIsSome
    <3>2. FirstPage(WriteAfter(e)) = FirstPage(e) /\ LastPage(WriteAfter(e)) = LastPage(e)
      BY DEF FirstPage, LastPage, WriteAfter
    <3> HIDE DEF e
    <3> QED
      BY <3>1, <3>2 DEF Behind
  <2>6. Demand(t, n + 1) = Demand(t, n) \o AccessesOf(l)
    BY <2>3, DemandNext
  <2>7. m \o (Current(e, FirstPage(e)) \o Behind(p)) = Demand(t, n + 1)
    BY <1>1, <2>3, <2>4, <2>5, <2>6
  <2> HIDE DEF e, p
  <2>8. Following(t, n + 1, p, e, FirstPage(e), m)
    BY <1>2, <1>3, <1>5, <1>6, <1>8, <2>2, <2>7 DEF Following
  <2> QED
    BY <2>8 DEF e, p
<1> QED
  BY <1>7, <1>8

LEMMA OneMore ==
  ASSUME NEW S, NEW a \in Seq(S), NEW x \in S, NEW b \in Seq(S), NEW c \in Seq(S)
  PROVE  Append(a, x) \o (b \o c) = a \o ((<<x>> \o b) \o c)
<1>1. <<x>> \in Seq(S) /\ b \o c \in Seq(S)
  BY ConcatProperties
<1>2. Append(a, x) = a \o <<x>>
  BY AppendIsConcat
<1>3. (a \o <<x>>) \o (b \o c) = a \o (<<x>> \o (b \o c))
  BY <1>1, ConcatThree
<1>4. (<<x>> \o b) \o c = <<x>> \o (b \o c)
  BY <1>1, ConcatThree
<1> QED
  BY <1>2, <1>3, <1>4

LEMMA FollowAccess ==
  ASSUME NEW t, NEW n, NEW p \in Entry \union {NoEntry}, NEW e \in Entry, NEW nx,
         Within(e, nx), ~Overflows(e), NEW m \in Seq(ReplayAccess),
         Following(t, n, p, e, nx, m)
  PROVE  LET more == Append(m, <<nx, e.write>>)
         IN  IF nx < LastPage(e) THEN Following(t, n, p, e, nx + 1, more)
                                 ELSE Following(t, n, p, NoEntry, 0, more)
<1> DEFINE more == Append(m, <<nx, e.write>>)
           left == Span(nx + 1, LastPage(e), e.write)
<1>1. /\ nx \in Nat /\ nx <= LastPage(e) /\ LastPage(e) \in Nat /\ nx + 1 \in Nat
      /\ e.write \in BOOLEAN /\ e # NoEntry /\ <<nx, e.write>> \in ReplayAccess
  BY PagesOfEntry, EntryIsSome DEF Within, Entry, ReplayAccess
<1>2. /\ p # NoEntry =>
           n > 0 /\ Valid(t[n]) /\ Modifies(t[n]) /\ p = WriteAfter(EntryOf(t[n]))
      /\ n > 0 /\ Valid(t[n]) /\ e.address = t[n].address /\ e.size = t[n].size
      /\ LinesGood(t, n) /\ m \o (Current(e, nx) \o Behind(p)) = Demand(t, n)
  BY <1>1 DEF Following
<1>3. Current(e, nx) = <<<<nx, e.write>>>> \o left
  BY <1>1, SpanProperties DEF Current
<1>4. left \in Seq(ReplayAccess) /\ Behind(p) \in Seq(ReplayAccess)
  BY <1>1, RestIsAccesses, SpanProperties
<1>5. more \o (left \o Behind(p)) = m \o ((<<<<nx, e.write>>>> \o left) \o Behind(p))
  <2> DEFINE x == <<nx, e.write>>
             y == Behind(p)
  <2>1. x \in ReplayAccess /\ left \in Seq(ReplayAccess) /\ y \in Seq(ReplayAccess)
    BY <1>1, <1>4
  <2> HIDE DEF left, x, y
  <2>2. Append(m, x) \o (left \o y) = m \o ((<<x>> \o left) \o y)
    BY <2>1, OneMore, SMTT(30)
  <2> QED
    BY <2>2 DEF x, y
<1>6. more \o (left \o Behind(p)) = Demand(t, n)
  BY <1>2, <1>3, <1>5
<1>7. CASE nx < LastPage(e)
  <2>1. Current(e, nx + 1) = left
    BY <1>1 DEF Current
  <2> HIDE DEF left, more
  <2>2. more \o (Current(e, nx + 1) \o Behind(p)) = Demand(t, n)
    BY <1>6, <2>1
  <2>3. Following(t, n, p, e, nx + 1, more)
    BY <1>2, <2>2 DEF Following
  <2> QED
    BY <1>7, <2>3 DEF more
<1>8. CASE ~(nx < LastPage(e))
  <2>1. left = <<>> /\ Current(NoEntry, 0) = <<>>
    <3>1. nx + 1 > LastPage(e)
      BY <1>1, <1>8
    <3>2. left = <<>>
      BY <1>1, <3>1, SpanProperties
    <3> QED
      BY <3>2 DEF Current
  <2> HIDE DEF left, more
  <2>2. more \o (Current(NoEntry, 0) \o Behind(p)) = Demand(t, n)
    BY <1>6, <2>1
  <2>3. Following(t, n, p, NoEntry, 0, more)
    BY <1>2, <2>2 DEF Following
  <2> QED
    BY <1>8, <2>3 DEF more
<1> QED
  BY <1>7, <1>8

\* Wherever the replay stops, it has made a beginning of the accesses.
LEMMA FollowPrefix ==
  ASSUME NEW t \in Seq(TraceLine), NEW n \in 0 .. Len(t),
         NEW p \in Entry \union {NoEntry}, NEW e \in Entry \union {NoEntry}, NEW nx,
         e # NoEntry => nx \in Nat, NEW m \in Seq(ReplayAccess),
         Following(t, n, p, e, nx, m)
  PROVE  IsPrefix(m, Demanded(t))
<1>1. CASE e # NoEntry /\ Overflows(e)
  <2>1. n - 1 \in 0 .. Len(t) /\ LinesGood(t, n - 1) /\ m = Demand(t, n - 1)
    BY <1>1 DEF Following
  <2>2. m \o <<>> = m /\ <<>> \in Seq(ReplayAccess)
    BY ConcatEmptySeq, EmptySeq
  <2>3. m \o <<>> = Demand(t, n - 1)
    BY <2>1, <2>2
  <2> QED
    BY <2>1, <2>2, <2>3, Beginning
<1>2. CASE ~(e # NoEntry /\ Overflows(e))
  <2> DEFINE rest == Current(e, nx) \o Behind(p)
  <2>1. LinesGood(t, n) /\ m \o rest = Demand(t, n)
    BY <1>2 DEF Following
  <2>2. rest \in Seq(ReplayAccess)
    BY RestIsAccesses
  <2> HIDE DEF rest
  <2> QED
    BY <2>1, <2>2, Beginning
<1> QED
  BY <1>1, <1>2

\* At the end of the file it has made all of them.
LEMMA FollowEnds ==
  ASSUME NEW t \in Seq(TraceLine), NEW nx, NEW m \in Seq(ReplayAccess),
         Following(t, Len(t), NoEntry, NoEntry, nx, m)
  PROVE  m = Demanded(t) /\ GoodLines(t) = t
<1>1. LinesGood(t, Len(t)) /\ m = Demand(t, Len(t)) /\ Len(t) \in Nat
  BY FollowBetween
<1>2. PICK k \in 0 .. Len(t) :
        /\ k = Len(t) \/ ~WellFormed(t[k + 1])
        /\ GoodLines(t) = SubSeq(t, 1, k)
        /\ Demanded(t) = Demand(t, k)
  BY GoodShape
<1>3. k = Len(t)
  <2> SUFFICES ASSUME k # Len(t) PROVE FALSE
    OBVIOUS
  <2>1. k + 1 \in 1 .. Len(t)
    BY <1>1
  <2> QED
    BY <1>1, <1>2, <2>1 DEF LinesGood
<1>4. SubSeq(t, 1, Len(t)) = t
  OBVIOUS
<1> QED
  BY <1>1, <1>2, <1>3, <1>4

Finished == phase \in {"report", "export failed", "end"}

FollowInv ==
  /\ made \in Seq(ReplayAccess) /\ processed = Len(made)
  /\ NotBegun =>
       made = <<>> /\ trace = <<>> /\ entry = NoEntry /\ pending = NoEntry
  /\ phase = "replay" => Following(trace, line, pending, entry, next, made)
  /\ ~NotBegun /\ phase # "replay" => IsPrefix(made, Demanded(trace))
  /\ Finished => made = Demanded(trace) /\ GoodLines(trace) = trace

LEMMA FollowInit == SimInit => FollowInv
<1> SUFFICES ASSUME SimInit PROVE FollowInv
  OBVIOUS
<1>1. /\ phase = "start" /\ made = <<>> /\ processed = 0 /\ trace = <<>>
      /\ entry = NoEntry /\ pending = NoEntry
  BY DEF SimInit
<1>2. made \in Seq(ReplayAccess) /\ Len(made) = 0
  BY <1>1, EmptySeq
<1> QED
  BY <1>1, <1>2 DEF FollowInv, NotBegun, Finished

\* Nothing is a beginning of everything.
LEMMA NothingIsPrefix ==
  ASSUME NEW t \in Seq(TraceLine)
  PROVE  IsPrefix(<<>>, Demanded(t))
<1>1. Following(t, 0, NoEntry, NoEntry, 0, <<>>) /\ <<>> \in Seq(ReplayAccess)
      /\ 0 \in 0 .. Len(t)
  BY FollowBegins, EmptySeq
<1> QED
  BY <1>1, FollowPrefix

\* What is so wherever the replay is.
LEMMA FollowsToHere ==
  ASSUME ReaderInv, FollowInv
  PROVE  IsPrefix(made, Demanded(trace))
<1>1. /\ trace \in Seq(TraceLine) /\ line \in 0 .. Len(trace)
      /\ pending \in Entry \union {NoEntry} /\ entry \in Entry \union {NoEntry}
      /\ entry # NoEntry => next \in Nat
      /\ made \in Seq(ReplayAccess)
  BY DEF ReaderInv, Within, FollowInv
<1>2. CASE NotBegun
  BY <1>1, <1>2, NothingIsPrefix DEF FollowInv
<1>3. CASE phase = "replay"
  <2>1. Following(trace, line, pending, entry, next, made)
    BY <1>3 DEF FollowInv
  <2> QED
    BY <1>1, <2>1, FollowPrefix
<1> QED
  BY <1>2, <1>3 DEF FollowInv

LEMMA FollowNext == ReaderInv /\ FollowInv /\ [SimNext]_simVars => FollowInv'
<1> SUFFICES ASSUME ReaderInv, FollowInv, [SimNext]_simVars PROVE FollowInv'
  OBVIOUS
<1>0. /\ trace \in Seq(TraceLine) /\ line \in 0 .. Len(trace) /\ Len(trace) \in Nat
      /\ pending \in Entry \union {NoEntry} /\ entry \in Entry \union {NoEntry}
      /\ entry # NoEntry => Within(entry, next)
      /\ made \in Seq(ReplayAccess) /\ processed = Len(made)
  BY DEF ReaderInv, FollowInv
<1>1. ASSUME phase' = "replay", made' \in Seq(ReplayAccess), processed' = Len(made'),
             Following(trace', line', pending', entry', next', made')
      PROVE  FollowInv'
  BY <1>1 DEF FollowInv, NotBegun, Finished
<1>2. ASSUME made' = made, processed' = processed, trace' = trace,
             ~NotBegun', phase' # "replay",
             Finished' => made = Demanded(trace) /\ GoodLines(trace) = trace
      PROVE  FollowInv'
  <2>1. IsPrefix(made', Demanded(trace'))
    BY <1>2, FollowsToHere
  <2>2. Finished' => made' = Demanded(trace') /\ GoodLines(trace') = trace'
    BY <1>2
  <2> QED
    BY <1>0, <1>2, <2>1, <2>2 DEF FollowInv
<1>3. CASE ReadCommandLine \/ CreateMemory \/ CreateMemoryFails \/ StartProcess
           \/ StartProcessFails
  <2>1. /\ made' = made /\ processed' = processed /\ trace' = trace
        /\ entry' = entry /\ pending' = pending /\ NotBegun
    BY <1>3 DEF ReadCommandLine, CreateMemory, CreateMemoryFails, StartProcess,
                StartProcessFails, replayVars, readerVars, NotBegun
  <2>2. NotBegun' \/ phase' = "done"
    BY <1>3 DEF ReadCommandLine, CreateMemory, CreateMemoryFails, StartProcess,
                StartProcessFails, Becomes, NotBegun
  <2>3. CASE NotBegun'
    BY <1>0, <2>1, <2>3 DEF FollowInv, NotBegun, Finished
  <2>4. CASE phase' = "done"
    BY <1>2, <2>1, <2>4 DEF NotBegun, Finished
  <2> QED
    BY <2>2, <2>3, <2>4
<1>4. CASE OpenTrace
  <2>1. /\ trace' \in Traces /\ line' = line /\ pending' = pending /\ entry' = entry
        /\ next' = next /\ made' = made /\ processed' = processed
        /\ phase' = "replay" /\ NotBegun
    BY <1>4 DEF OpenTrace, NotBegun, Becomes
  <2>2. /\ line' = 0 /\ pending' = NoEntry /\ entry' = NoEntry /\ made' = <<>>
        /\ trace' \in Seq(TraceLine)
    BY <2>1, TraceAssumption DEF ReaderInv, FollowInv
  <2>3. Following(trace', line', pending', entry', next', made')
    BY <2>2, FollowBegins
  <2> QED
    BY <1>0, <1>1, <2>1, <2>3
<1>5. CASE TakePending
  <2>1. /\ phase = "replay" /\ entry = NoEntry /\ pending \in Entry
        /\ trace' = trace /\ line' = line /\ pending' = NoEntry /\ entry' = pending
        /\ next' = FirstPage(pending) /\ made' = made /\ processed' = processed
        /\ phase' = "replay"
    BY <1>0, <1>5 DEF TakePending, Replaying, Replay
  <2>2. Following(trace, line, pending, NoEntry, next, made)
    BY <2>1 DEF FollowInv
  <2>3. Following(trace, line, NoEntry, pending, FirstPage(pending), made)
    BY <1>0, <2>1, <2>2, FollowPending
  <2>4. Following(trace', line', pending', entry', next', made')
    BY <2>1, <2>3
  <2> QED
    BY <1>0, <1>1, <2>1, <2>4
<1>6. CASE ReadLine
  <2>1. /\ phase = "replay" /\ entry = NoEntry /\ pending = NoEntry
        /\ line < Len(trace) /\ line' = line + 1
        /\ trace' = trace /\ made' = made /\ processed' = processed
        /\ phase' = "replay"
    BY <1>6 DEF ReadLine, Replaying
  <2>2. line \in Nat /\ line + 1 \in 1 .. Len(trace)
    BY <1>0, <2>1
  <2>3. Following(trace, line, NoEntry, NoEntry, next, made)
    BY <2>1 DEF FollowInv
  <2>4. CASE Ignored(trace[line + 1]) /\ UNCHANGED <<pending, entry, next>>
    <3>1. Following(trace, line + 1, NoEntry, NoEntry, next, made)
      BY <1>0, <2>2, <2>3, <2>4, FollowIgnored
    <3>2. Following(trace', line', pending', entry', next', made')
      BY <2>1, <2>4, <3>1
    <3> QED
      BY <1>0, <1>1, <2>1, <3>2
  <2>5. CASE /\ Valid(trace[line + 1]) /\ Replay(EntryOf(trace[line + 1]))
             /\ pending' = IF Modifies(trace[line + 1])
                           THEN WriteAfter(EntryOf(trace[line + 1])) ELSE pending
    <3> DEFINE e == EntryOf(trace[line + 1])
               p == IF Modifies(trace[line + 1]) THEN WriteAfter(e) ELSE NoEntry
    <3>1. Following(trace, line + 1, p, e, FirstPage(e), made)
      BY <1>0, <2>2, <2>3, <2>5, FollowLine
    <3>2. entry' = e /\ next' = FirstPage(e) /\ pending' = p
      BY <2>1, <2>5 DEF Replay
    <3> HIDE DEF e, p
    <3>3. Following(trace', line', pending', entry', next', made')
      BY <2>1, <3>1, <3>2
    <3> QED
      BY <1>0, <1>1, <2>1, <3>3
  <2> QED
    BY <1>6, <2>4, <2>5 DEF ReadLine
<1>7. CASE AccessPage
  <2> DEFINE more == Append(made, <<next, entry.write>>)
  <2>1. /\ phase = "replay" /\ entry \in Entry /\ ~Overflows(entry)
        /\ Within(entry, next) /\ phase' = "replay"
        /\ trace' = trace /\ line' = line /\ pending' = pending
        /\ made' = more /\ processed' = processed + 1
        /\ IF next < LastPage(entry)
             THEN next' = next + 1 /\ entry' = entry
             ELSE entry' = NoEntry /\ next' = 0
    BY <1>0, <1>7 DEF AccessPage
  <2>2. Following(trace, line, pending, entry, next, made)
    BY <2>1 DEF FollowInv
  <2>3. more \in Seq(ReplayAccess) /\ Len(more) = Len(made) + 1
    <3>1. <<next, entry.write>> \in ReplayAccess
      BY <2>1 DEF Within, Entry, ReplayAccess
    <3> QED
      BY <1>0, <3>1, AppendProperties
  <2>4. IF next < LastPage(entry)
          THEN Following(trace, line, pending, entry, next + 1, more)
          ELSE Following(trace, line, pending, NoEntry, 0, more)
    BY <1>0, <2>1, <2>2, FollowAccess
  <2> HIDE DEF more
  <2>5. Following(trace', line', pending', entry', next', made')
    BY <2>1, <2>4
  <2> QED
    BY <1>0, <1>1, <2>1, <2>3, <2>5
<1>8. CASE OpenTraceFails \/ ReadFails \/ AccessPageFails \/ EntryFails
  <2>1. phase' = "replay failed" /\ made' = made /\ processed' = processed /\ trace' = trace
    BY <1>8 DEF OpenTraceFails, ReadFails, AccessPageFails, EntryFails, Returns,
                Becomes, readerVars
  <2> QED
    BY <1>2, <2>1 DEF NotBegun, Finished
<1>9. CASE EndOfFile
  <2>1. /\ phase = "replay" /\ entry = NoEntry /\ pending = NoEntry /\ line = Len(trace)
        /\ phase' = "report" /\ made' = made /\ processed' = processed /\ trace' = trace
    BY <1>9 DEF EndOfFile, Replaying, Returns, Becomes, readerVars
  <2>2. Following(trace, Len(trace), NoEntry, NoEntry, next, made)
    BY <2>1 DEF FollowInv
  <2>3. made = Demanded(trace) /\ GoodLines(trace) = trace
    BY <1>0, <2>2, FollowEnds
  <2> QED
    BY <1>2, <2>1, <2>3 DEF NotBegun
<1>10. CASE Export \/ ExportFails \/ NothingToExport
  <2>1. /\ phase = "report" /\ phase' \in {"end", "export failed"}
        /\ made' = made /\ processed' = processed /\ trace' = trace
    BY <1>10 DEF Export, ExportFails, NothingToExport, Becomes, replayVars, readerVars
  <2>2. made = Demanded(trace) /\ GoodLines(trace) = trace
    BY <2>1 DEF FollowInv, Finished
  <2> QED
    BY <1>2, <2>1, <2>2 DEF NotBegun
<1>11. CASE Leave
  <2>1. phase' = "done" /\ made' = made /\ processed' = processed /\ trace' = trace
    BY <1>11 DEF Leave, Becomes, replayVars, readerVars
  <2> QED
    BY <1>2, <2>1 DEF NotBegun, Finished
<1>12. CASE UNCHANGED simVars
  BY <1>12 DEF FollowInv, NotBegun, Finished, simVars, replayVars, readerVars
<1> QED
  BY <1>3, <1>4, <1>5, <1>6, <1>7, <1>8, <1>9, <1>10, <1>11, <1>12 DEF SimNext

\* The replay of a trace makes the accesses its lines stand for, each once and
\* in order, and reports only when all of them are done.
THEOREM ReplayFollowsTraceCorrect == SimSpec => []ReplayFollowsTrace
<1>1. SimInit => ReaderInv /\ FollowInv
  BY ReaderInit, FollowInit
<1>2. ReaderInv /\ FollowInv /\ [SimNext]_simVars => (ReaderInv /\ FollowInv)'
  BY ReaderNext, FollowNext
<1>3. ReaderInv /\ FollowInv => ReplayFollowsTrace
  <2> SUFFICES ASSUME ReaderInv, FollowInv PROVE ReplayFollowsTrace
    OBVIOUS
  <2>1. IsPrefix(made, Demanded(trace))
    BY FollowsToHere
  <2> QED
    BY <2>1 DEF ReplayFollowsTrace, FollowInv, Finished
<1> QED
  BY <1>1, <1>2, <1>3, PTL DEF SimSpec

-----------------------------------------------------------------------------
(* The command line. *)

\* read has what is known after each of the first m arguments of a.
Reading(a, read, m) ==
  read = [n \in 0 .. m |-> IF n = 0 THEN Unread ELSE Argument(read[n - 1], a[n])]

LEMMA ReadingExists ==
  ASSUME NEW a, NEW m \in Nat
  PROVE  \E read : Reading(a, read, m)
<1> DEFINE bad == {k \in Nat : ~ \E read : Reading(a, read, k)}
<1> SUFFICES ASSUME bad # {} PROVE FALSE
  OBVIOUS
<1> DEFINE k == First(bad)
<1>1. k \in bad /\ \A j \in bad : k <= j
  <2>1. bad \in SUBSET Nat
    OBVIOUS
  <2> HIDE DEF bad
  <2> QED
    BY <2>1, FirstOfNaturals
<1> HIDE DEF k
<1>2. k \in Nat /\ ~ \E read : Reading(a, read, k)
  BY <1>1
<1>3. k # 0
  <2> SUFFICES ASSUME k = 0 PROVE FALSE
    OBVIOUS
  <2> DEFINE read == [n \in 0 .. 0 |-> Unread]
  <2>1. Reading(a, read, 0)
    <3>1. \A n \in 0 .. 0 : n = 0
      OBVIOUS
    <3> QED
      BY <3>1 DEF Reading
  <2> QED
    BY <1>2, <2>1
<1>4. k - 1 \in Nat /\ k - 1 \notin bad
  BY <1>1, <1>2, <1>3
<1>5. PICK before : Reading(a, before, k - 1)
  BY <1>4
<1> DEFINE last == Argument(before[k - 1], a[k])
           read == [n \in 0 .. k |-> IF n = k THEN last ELSE before[n]]
           turn(n) == IF n = 0 THEN Unread ELSE Argument(read[n - 1], a[n])
<1>6. \A n \in 0 .. k - 1 : read[n] = before[n]
  BY <1>2
<1>7. ASSUME NEW n \in 0 .. k PROVE read[n] = turn(n)
  <2>1. CASE n = k
    <3>1. read[n] = last /\ n # 0 /\ read[n - 1] = before[n - 1]
      BY <1>2, <1>3, <1>6, <2>1
    <3> QED
      BY <2>1, <3>1
  <2>2. CASE n # k
    <3>1. n \in 0 .. k - 1 /\ (n # 0 => n - 1 \in 0 .. k - 1)
      BY <1>2, <2>2
    <3>2. before[n] = IF n = 0 THEN Unread ELSE Argument(before[n - 1], a[n])
      BY <1>5, <3>1 DEF Reading
    <3>3. n # 0 => read[n - 1] = before[n - 1]
      BY <1>6, <3>1
    <3> QED
      BY <1>6, <3>1, <3>2, <3>3
  <2> QED
    BY <2>1, <2>2
<1>8. read = [n \in 0 .. k |-> read[n]]
  OBVIOUS
<1>9. read = [n \in 0 .. k |-> turn(n)]
  <2> HIDE DEF turn, read
  <2> QED
    BY <1>7, <1>8
<1>10. Reading(a, read, k)
  <2> HIDE DEF read
  <2> QED
    BY <1>9 DEF Reading
<1> QED
  BY <1>2, <1>10

\* The place of S that comes last.
LEMMA LastOfPlaces ==
  ASSUME NEW n \in Nat, NEW S \in SUBSET (1 .. n), n \in S
  PROVE  Max(S) = n
<1>1. \A i \in S : n >= i
  OBVIOUS
<1>2. \A x \in S : (\A i \in S : x >= i) => x = n
  OBVIOUS
<1> QED
  BY <1>1, <1>2 DEF Max

\* The places up to n where o is read as an option and its value was read too.
Served(a, opt, o, n) == {i \in opt : i < n /\ a[i] = o}

\* The last value of o in front of place n.
Latest(a, opt, o, n) ==
  IF Served(a, opt, o, n) = {} THEN NoOption ELSE a[1 + Max(Served(a, opt, o, n))]

\* What is known after n arguments that were accepted, of which opt stand in
\* the place of options.
ReadSoFar(a, opt, s, n) ==
  /\ s = [options |->
            [trace |-> Latest(a, opt, "--trace", n),
             csv |-> Latest(a, opt, "--csv", n),
             append |-> ~ \E i \in opt : i <= n /\ a[i] = "--csv-overwrite",
             removeSwap |-> ~ \E i \in opt : i <= n /\ a[i] = "--keep-swap"],
          awaits |-> IF n \in opt /\ a[n] \in Valued THEN a[n] ELSE NoOption,
          result |-> "ok"]
  /\ \A i \in (1 .. n) \ opt : /\ i - 1 \in opt /\ a[i - 1] \in Valued
                               /\ Accepts(a[i - 1], a[i])

LEMMA ReadNothing ==
  ASSUME NEW a, NEW opt \in SUBSET (Nat \ {0})
  PROVE  ReadSoFar(a, opt, Unread, 0)
<1>0. \A i \in opt : i \in Nat /\ ~(i < 0) /\ ~(i <= 0)
  OBVIOUS
<1>1. \A o : Served(a, opt, o, 0) = {}
  BY <1>0 DEF Served
<1>2. \A o : Latest(a, opt, o, 0) = NoOption
  BY <1>1 DEF Latest
<1>3. 0 \notin opt /\ (\A i \in opt : ~(i <= 0)) /\ 1 .. 0 = {}
  BY <1>0
<1> QED
  BY <1>2, <1>3 DEF ReadSoFar, Unread, Defaults

LEMMA LatestNext ==
  ASSUME NEW a, NEW opt \in SUBSET (Nat \ {0}), NEW o, NEW n \in Nat
  PROVE  Latest(a, opt, o, n + 1) =
           IF n \in opt /\ a[n] = o THEN a[n + 1] ELSE Latest(a, opt, o, n)
<1>0. \A i \in opt : i \in 1 .. n <=> i < n + 1
  OBVIOUS
<1>1. CASE n \in opt /\ a[n] = o
  <2> DEFINE S == Served(a, opt, o, n + 1)
  <2>1. S \in SUBSET (1 .. n) /\ n \in S
    <3>1. n < n + 1
      OBVIOUS
    <3>2. \A i \in S : i \in 1 .. n
      BY <1>0 DEF Served
    <3> QED
      BY <1>1, <3>1, <3>2 DEF Served
  <2> HIDE DEF S
  <2>2. Max(S) = n
    BY <2>1, LastOfPlaces
  <2>3. S # {} /\ 1 + Max(S) = n + 1
    BY <2>1, <2>2
  <2> QED
    BY <1>1, <2>3 DEF Latest, S
<1>2. CASE ~(n \in opt /\ a[n] = o)
  <2>1. \A i \in opt : i < n + 1 <=> i < n \/ i = n
    OBVIOUS
  <2>2. Served(a, opt, o, n + 1) = Served(a, opt, o, n)
    BY <1>2, <2>1 DEF Served
  <2> QED
    BY <1>2, <2>2 DEF Latest
<1> QED
  BY <1>1, <1>2

LEMMA OptionTaken ==
  ASSUME NEW s, NEW b
  PROVE  TakeOption(s, b) =
           IF b \in {"--help", "-h"} THEN [s EXCEPT !.result = "help"]
           ELSE IF b = "--keep-swap" THEN [s EXCEPT !.options.removeSwap = FALSE]
           ELSE IF b = "--csv-overwrite" THEN [s EXCEPT !.options.append = FALSE]
           ELSE IF b \in Valued THEN [s EXCEPT !.awaits = b]
           ELSE [s EXCEPT !.result = "invalid"]
BY DEF TakeOption, Valued, Named, Sized

LEMMA FlagTaken ==
  ASSUME NEW s, NEW x, NEW y, NEW z, NEW u, NEW w, NEW v, NEW c,
         s = [options |-> [trace |-> x, csv |-> y, append |-> z, removeSwap |-> u],
              awaits |-> w, result |-> v]
  PROVE  /\ [s EXCEPT !.options.append = c] =
              [options |-> [trace |-> x, csv |-> y, append |-> c, removeSwap |-> u],
               awaits |-> w, result |-> v]
         /\ [s EXCEPT !.options.removeSwap = c] =
              [options |-> [trace |-> x, csv |-> y, append |-> z, removeSwap |-> c],
               awaits |-> w, result |-> v]
OBVIOUS

LEMMA ReadOne ==
  ASSUME NEW a, NEW opt \in SUBSET (Nat \ {0}), NEW n \in Nat, NEW s,
         ReadSoFar(a, opt, s, n), n + 1 \in opt <=> s.awaits = NoOption,
         Argument(s, a[n + 1]).result = "ok"
  PROVE  ReadSoFar(a, opt, Argument(s, a[n + 1]), n + 1)
<1> DEFINE b == a[n + 1]
           t == Argument(s, b)
           Seen(o, m) == \E i \in opt : i <= m /\ a[i] = o
           waits == n \in opt /\ a[n] \in Valued
<1>0. s = [options |-> [trace |-> Latest(a, opt, "--trace", n),
                       csv |-> Latest(a, opt, "--csv", n),
                       append |-> ~Seen("--csv-overwrite", n),
                       removeSwap |-> ~Seen("--keep-swap", n)],
          awaits |-> IF waits THEN a[n] ELSE NoOption,
          result |-> "ok"]
  BY DEF ReadSoFar
<1>1. NoOption \notin Valued /\ "--trace" \in Valued /\ "--csv" \in Valued
  BY DEF NoOption, Valued, Named, Sized
<1>2. \A o : Seen(o, n + 1) <=> Seen(o, n) \/ (n + 1 \in opt /\ b = o)
  <2>1. \A i \in opt : i <= n + 1 <=> i <= n \/ i = n + 1
    OBVIOUS
  <2> QED
    BY <2>1
<1>3. n + 1 \in opt <=> ~waits
  BY <1>0, <1>1
<1>4. \A o : Latest(a, opt, o, n + 1) =
        IF n \in opt /\ a[n] = o THEN b ELSE Latest(a, opt, o, n)
  BY LatestNext
<1>5. \A i \in (1 .. n + 1) \ opt : i \in (1 .. n) \ opt \/ i = n + 1
  OBVIOUS
<1> HIDE DEF Seen
<1>6. CASE waits
  <2>1. s.awaits = a[n] /\ a[n] # NoOption /\ s.result = "ok"
    BY <1>0, <1>1, <1>6
  <2>2. t = TakeValue(s, b)
    BY <2>1 DEF Argument
  <2>3. Accepts(a[n], b)
    <3> SUFFICES ASSUME ~Accepts(a[n], b) PROVE FALSE
      OBVIOUS
    <3>1. t = [s EXCEPT !.result = "invalid"]
      BY <2>1, <2>2 DEF TakeValue
    <3>2. t.result = "invalid"
      BY <1>0, <3>1
    <3> QED
      BY <3>2
  <2>4. t = [options |-> [trace |-> IF a[n] = "--trace" THEN b ELSE s.options.trace,
                         csv |-> IF a[n] = "--csv" THEN b ELSE s.options.csv,
                         append |-> s.options.append,
                         removeSwap |-> s.options.removeSwap],
            awaits |-> NoOption,
            result |-> "ok"]
    BY <1>0, <2>1, <2>2, <2>3, ZenonT(30) DEF TakeValue
  <2>5. n + 1 \notin opt /\ n \in opt /\ a[n] \in Valued
    BY <1>3, <1>6
  <2>6. \A o : Seen(o, n + 1) <=> Seen(o, n)
    BY <1>2, <2>5
  <2>7. t = [options |-> [trace |-> Latest(a, opt, "--trace", n + 1),
                         csv |-> Latest(a, opt, "--csv", n + 1),
                         append |-> ~Seen("--csv-overwrite", n + 1),
                         removeSwap |-> ~Seen("--keep-swap", n + 1)],
            awaits |-> NoOption,
            result |-> "ok"]
    BY <1>0, <1>4, <2>4, <2>5, <2>6
  <2>8. \A i \in (1 .. n + 1) \ opt : /\ i - 1 \in opt /\ a[i - 1] \in Valued
                                     /\ Accepts(a[i - 1], a[i])
    BY <1>5, <2>3, <2>5 DEF ReadSoFar
  <2> QED
    BY <2>5, <2>7, <2>8 DEF ReadSoFar, Seen
<1>7. CASE ~waits
  <2>1. s.awaits = NoOption /\ s.result = "ok" /\ n + 1 \in opt
    BY <1>0, <1>3, <1>7
  <2>2. t = TakeOption(s, b) /\ t.result = "ok"
    BY <2>1 DEF Argument
  <2>3. \A o \in Valued : Latest(a, opt, o, n + 1) = Latest(a, opt, o, n)
    BY <1>4, <1>7
  <2> DEFINE Known == [options |-> [trace |-> s.options.trace,
                                   csv |-> s.options.csv,
                                   append |-> IF b = "--csv-overwrite" THEN FALSE
                                               ELSE s.options.append,
                                   removeSwap |-> IF b = "--keep-swap" THEN FALSE
                                                  ELSE s.options.removeSwap],
                       awaits |-> IF b \in Valued THEN b ELSE NoOption,
                       result |-> "ok"]
  <2>3a. s = [options |-> [trace |-> s.options.trace,
                          csv |-> s.options.csv,
                          append |-> s.options.append,
                          removeSwap |-> s.options.removeSwap],
             awaits |-> NoOption,
             result |-> "ok"]
    BY <1>0, <2>1
  <2>4. t = Known
    <3>1. b \notin {"--help", "-h"}
      <4>1. b \in {"--help", "-h"} => t = [s EXCEPT !.result = "help"]
        BY <2>2, OptionTaken
      <4>2. [s EXCEPT !.result = "help"].result = "help"
        BY <1>0
      <4> QED
        BY <2>2, <4>1, <4>2
    <3>2. CASE b = "--keep-swap"
      <4>1. t = [s EXCEPT !.options.removeSwap = FALSE]
        BY <2>2, <3>1, <3>2, OptionTaken
      <4>2. b \notin Valued /\ b # "--csv-overwrite"
        BY <3>2 DEF Valued, Named, Sized
      <4> QED
        BY <2>3a, <3>2, <4>1, <4>2, FlagTaken
    <3>3. CASE b = "--csv-overwrite"
      <4>1. t = [s EXCEPT !.options.append = FALSE]
        BY <2>2, <3>1, <3>3, OptionTaken
      <4>2. b \notin Valued /\ b # "--keep-swap"
        BY <3>3 DEF Valued, Named, Sized
      <4> QED
        BY <2>3a, <3>3, <4>1, <4>2, FlagTaken
    <3>4. CASE b \in Valued
      <4>1. b # "--keep-swap" /\ b # "--csv-overwrite"
        BY <3>4 DEF Valued, Named, Sized
      <4>2. t = [s EXCEPT !.awaits = b]
        BY <2>2, <3>1, <3>4, <4>1, OptionTaken
      <4> QED
        BY <1>0, <3>4, <4>1, <4>2
    <3>5. CASE b # "--keep-swap" /\ b # "--csv-overwrite" /\ b \notin Valued
      <4>1. t = [s EXCEPT !.result = "invalid"]
        BY <2>2, <3>1, <3>5, OptionTaken
      <4>2. t.result = "invalid"
        BY <1>0, <4>1
      <4> QED
        BY <2>2, <4>2
    <3> QED
      BY <3>2, <3>3, <3>4, <3>5
  <2>5. /\ ~Seen("--csv-overwrite", n + 1)
             = IF b = "--csv-overwrite" THEN FALSE ELSE s.options.append
        /\ ~Seen("--keep-swap", n + 1)
             = IF b = "--keep-swap" THEN FALSE ELSE s.options.removeSwap
    BY <1>0, <1>2, <2>1
  <2>6. /\ Latest(a, opt, "--trace", n + 1) = s.options.trace
        /\ Latest(a, opt, "--csv", n + 1) = s.options.csv
    BY <1>0, <1>1, <2>3
  <2>7. \A i \in (1 .. n + 1) \ opt : /\ i - 1 \in opt /\ a[i - 1] \in Valued
                                     /\ Accepts(a[i - 1], a[i])
    BY <1>5, <2>1 DEF ReadSoFar
  <2> QED
    BY <2>1, <2>4, <2>5, <2>6, <2>7, ZenonT(60) DEF ReadSoFar, Seen
<1> QED
  BY <1>6, <1>7

\* The places of options, as OptionPlaces has them.
Places(a, S) ==
  \A i \in DOMAIN a : i \in S <=> i = 1 \/ ~(i - 1 \in S /\ a[i - 1] \in Valued)

LEMMA PlacesAgree ==
  ASSUME NEW a, NEW m \in Nat, DOMAIN a = 1 .. m,
         NEW S \in SUBSET (1 .. m), Places(a, S),
         NEW T \in SUBSET (1 .. m), Places(a, T)
  PROVE  S = T
<1> DEFINE bad == {i \in 1 .. m : ~(i \in S <=> i \in T)}
<1> SUFFICES ASSUME bad # {} PROVE FALSE
  OBVIOUS
<1> DEFINE k == First(bad)
<1>1. k \in bad /\ \A j \in bad : k <= j
  <2>1. bad \in SUBSET Nat
    OBVIOUS
  <2> HIDE DEF bad
  <2> QED
    BY <2>1, FirstOfNaturals
<1> HIDE DEF k
<1>2. k \in 1 .. m /\ ~(k \in S <=> k \in T)
  BY <1>1
<1>3. k # 1
  BY <1>2 DEF Places
<1>4. k - 1 \in 1 .. m /\ k - 1 \notin bad
  BY <1>1, <1>2, <1>3
<1>5. k - 1 \in S <=> k - 1 \in T
  BY <1>4
<1> QED
  BY <1>2, <1>3, <1>5 DEF Places

\* After each argument up to one that was accepted it is known what was given.
LEMMA ReadAll ==
  ASSUME NEW a, NEW m \in Nat, NEW read, Reading(a, read, m),
         NEW opt \in SUBSET (Nat \ {0}),
         \A i \in 1 .. m : i \in opt <=> read[i - 1].awaits = NoOption
  PROVE  \A n \in 0 .. m :
           read[n].result = "ok" => \A k \in 0 .. n : ReadSoFar(a, opt, read[k], k)
<1> DEFINE Good(n) == read[n].result = "ok" => \A k \in 0 .. n : ReadSoFar(a, opt, read[k], k)
           bad == {n \in 0 .. m : ~Good(n)}
<1> SUFFICES ASSUME bad # {} PROVE FALSE
  OBVIOUS
<1> DEFINE n == First(bad)
<1>1. n \in bad /\ \A j \in bad : n <= j
  <2>1. bad \in SUBSET Nat
    OBVIOUS
  <2> HIDE DEF bad
  <2> QED
    BY <2>1, FirstOfNaturals
<1> HIDE DEF n
<1>2. n \in 0 .. m /\ ~Good(n)
  BY <1>1
<1>3. CASE n = 0
  <2>1. read[0] = Unread
    BY DEF Reading
  <2>2. \A k \in 0 .. 0 : k = 0
    OBVIOUS
  <2> QED
    BY <1>2, <1>3, <2>1, <2>2, ReadNothing
<1>4. CASE n # 0
  <2> DEFINE j == n - 1
  <2>1. j \in 0 .. m /\ j \in Nat /\ n = j + 1 /\ n \in 1 .. m /\ j \notin bad
    <3>1. j \in 0 .. m /\ j \in Nat /\ n = j + 1 /\ n \in 1 .. m /\ ~(n <= j)
      BY <1>2, <1>4
    <3> HIDE DEF bad, j
    <3> QED
      BY <1>1, <3>1
  <2>2. Good(j)
    BY <2>1
  <2>3. read[n] = Argument(read[j], a[n])
    BY <1>2, <1>4 DEF Reading
  <2>4. read[n].result = "ok"
    BY <1>2
  <2>5. read[j].result = "ok"
    BY <2>3, <2>4 DEF Argument
  <2>6. \A k \in 0 .. j : ReadSoFar(a, opt, read[k], k)
    BY <2>2, <2>5
  <2>7. ReadSoFar(a, opt, read[j], j) /\ (n \in opt <=> read[j].awaits = NoOption)
    BY <2>1, <2>6
  <2>8. ReadSoFar(a, opt, read[n], n)
    <3> HIDE DEF j, Good
    <3> QED
      BY <2>1, <2>3, <2>4, <2>7, ReadOne
  <2>9. \A k \in 0 .. n : k \in 0 .. j \/ k = n
    BY <2>1
  <2> QED
    BY <1>2, <2>6, <2>8, <2>9
<1> QED
  BY <1>3, <1>4

\* What cli_parse makes of a command line that it accepts.
LEMMA ParsedAsGiven ==
  ASSUME NEW a, Len(a) \in Nat, DOMAIN a = 1 .. Len(a),
         Parsed(a).result = "ok"
  PROVE  LET S == OptionPlaces(a)
             Given(o) == \E i \in S : a[i] = o
             Last_(o) == a[1 + Max({i \in S : a[i] = o})]
             parsed == Parsed(a).options
         IN  /\ \A i \in DOMAIN a : i \notin S => Accepts(a[i - 1], a[i])
             /\ parsed.trace = Last_("--trace")
             /\ parsed.csv = IF Given("--csv") THEN Last_("--csv") ELSE NoOption
             /\ parsed.append = ~Given("--csv-overwrite")
             /\ parsed.removeSwap = ~Given("--keep-swap")
<1> DEFINE m == Len(a)
           read == CHOOSE read : Reading(a, read, Len(a))
           opt == {i \in 1 .. m : read[i - 1].awaits = NoOption}
           s == read[m]
           S == OptionPlaces(a)
<1>1. m \in Nat /\ DOMAIN a = 1 .. m
  OBVIOUS
<1>2. Reading(a, read, m)
  BY <1>1, ReadingExists
<1>3. Parsed(a) = IF s.result = "ok" /\ (s.awaits # NoOption \/ s.options.trace = NoOption)
                    THEN [s EXCEPT !.result = "invalid"] ELSE s
  BY DEF Parsed, Reading
<1> HIDE DEF read
<1>4. opt \in SUBSET (Nat \ {0}) /\ opt \in SUBSET (1 .. m)
  BY <1>1
<1>5. \A n \in 0 .. m :
        read[n].result = "ok" => \A k \in 0 .. n : ReadSoFar(a, opt, read[k], k)
  <2>1. \A i \in 1 .. m : i \in opt <=> read[i - 1].awaits = NoOption
    OBVIOUS
  <2> HIDE DEF opt, m
  <2> QED
    BY <1>1, <1>2, <1>4, <2>1, ReadAll
<1> HIDE DEF opt
<1>6. s.result = "ok"
  BY <1>3
<1>7. \A k \in 0 .. m : ReadSoFar(a, opt, read[k], k)
  BY <1>1, <1>5, <1>6
<1>8. ReadSoFar(a, opt, s, m)
  BY <1>1, <1>7
<1>9. Parsed(a) = s /\ s.awaits = NoOption /\ s.options.trace # NoOption
  <2>1. [s EXCEPT !.result = "invalid"].result = "invalid"
    BY <1>8 DEF ReadSoFar
  <2> QED
    BY <1>3, <1>6, <2>1
<1>10. NoOption \notin Valued /\ "--trace" \in Valued /\ "--csv" \in Valued
  BY DEF NoOption, Valued, Named, Sized
<1>11. Places(a, opt)
  <2> SUFFICES ASSUME NEW i \in 1 .. m
               PROVE  i \in opt <=> i = 1 \/ ~(i - 1 \in opt /\ a[i - 1] \in Valued)
    BY <1>1 DEF Places
  <2>1. i - 1 \in 0 .. m /\ i - 1 \in Nat
    BY <1>1
  <2>2. read[i - 1].awaits =
          IF i - 1 \in opt /\ a[i - 1] \in Valued THEN a[i - 1] ELSE NoOption
    <3>1. ReadSoFar(a, opt, read[i - 1], i - 1)
      BY <1>7, <2>1
    <3> QED
      BY <3>1 DEF ReadSoFar
  <2>3. i = 1 => i - 1 \notin opt
    BY <1>4
  <2> QED
    BY <1>10, <2>2, <2>3 DEF opt
<1>12. S = opt
  <2>1. \E T \in SUBSET DOMAIN a : Places(a, T)
    BY <1>1, <1>4, <1>11
  <2>2. S \in SUBSET DOMAIN a /\ Places(a, S)
    BY <2>1 DEF OptionPlaces, Places
  <2> HIDE DEF S
  <2> QED
    BY <1>1, <1>4, <1>11, <2>2, PlacesAgree
<1>13. ASSUME NEW o \in Valued PROVE Served(a, opt, o, m) = {i \in opt : a[i] = o}
  <2>1. ~(m \in opt /\ a[m] \in Valued)
    BY <1>8, <1>9, <1>10 DEF ReadSoFar
  <2>2. \A i \in opt : a[i] = o => i < m
    <3>0. \A i \in opt : i \in 1 .. m
      BY <1>4
    <3>1. \A i \in opt : i < m \/ i = m
      BY <1>1, <3>0
    <3> QED
      BY <2>1, <3>1
  <2> QED
    BY <2>2 DEF Served
<1>14. /\ s.options.trace = Latest(a, opt, "--trace", m)
       /\ s.options.csv = Latest(a, opt, "--csv", m)
       /\ s.options.append = ~ \E i \in opt : i <= m /\ a[i] = "--csv-overwrite"
       /\ s.options.removeSwap = ~ \E i \in opt : i <= m /\ a[i] = "--keep-swap"
       /\ \A i \in (1 .. m) \ opt : Accepts(a[i - 1], a[i])
  BY <1>8 DEF ReadSoFar
<1>15. \A i \in opt : i <= m
  BY <1>1, <1>4
<1>16. s.options.trace = a[1 + Max({i \in opt : a[i] = "--trace"})]
  BY <1>9, <1>10, <1>13, <1>14 DEF Latest
<1>17. s.options.csv = IF \E i \in opt : a[i] = "--csv"
                         THEN a[1 + Max({i \in opt : a[i] = "--csv"})] ELSE NoOption
  <2>1. Served(a, opt, "--csv", m) = {i \in opt : a[i] = "--csv"}
    BY <1>10, <1>13
  <2> QED
    BY <1>14, <2>1 DEF Latest
<1>18. /\ s.options.append = ~ \E i \in opt : a[i] = "--csv-overwrite"
       /\ s.options.removeSwap = ~ \E i \in opt : a[i] = "--keep-swap"
  BY <1>14, <1>15
<1>19. \A i \in DOMAIN a : i \notin S => Accepts(a[i - 1], a[i])
  BY <1>1, <1>12, <1>14
<1> HIDE DEF S, s
<1> QED
  BY <1>9, <1>12, <1>16, <1>17, <1>18, <1>19 DEF S

ArgsInv == phase = "start" => args \in CommandLines

\* The simulation starts with the options that the command line gives, and only
\* if there is nothing wrong with any of its arguments.
THEOREM OptionsAsGivenCorrect == SimSpec => OptionsAsGiven
<1>1. SimInit => ArgsInv
  BY DEF SimInit, ArgsInv
<1>2. ArgsInv /\ [SimNext]_simVars => ArgsInv'
  <2> SUFFICES ASSUME ArgsInv, [SimNext]_simVars, phase' = "start"
               PROVE  args \in CommandLines /\ args' = args
    BY DEF ArgsInv
  <2>1. CASE SimNext
    <3>1. CASE \/ ReadCommandLine \/ CreateMemory \/ CreateMemoryFails
               \/ StartProcess \/ StartProcessFails \/ OpenTrace
      BY <3>1 DEF ReadCommandLine, CreateMemory, CreateMemoryFails, StartProcess,
                  StartProcessFails, OpenTrace, Becomes
    <3>2. CASE OpenTraceFails \/ ReadFails \/ EndOfFile \/ AccessPageFails \/ EntryFails
      BY <3>2 DEF OpenTraceFails, ReadFails, EndOfFile, AccessPageFails, EntryFails,
                  Returns, Becomes
    <3>3. CASE TakePending \/ ReadLine \/ AccessPage
      BY <3>3 DEF TakePending, ReadLine, AccessPage, Replaying
    <3>4. CASE Export \/ ExportFails \/ NothingToExport \/ Leave
      BY <3>4 DEF Export, ExportFails, NothingToExport, Leave, Becomes
    <3> QED
      BY <2>1, <3>1, <3>2, <3>3, <3>4 DEF SimNext
  <2>2. CASE UNCHANGED simVars
    BY <2>2 DEF simVars, ArgsInv
  <2> QED
    BY <2>1, <2>2
<1>3. ArgsInv /\ [SimNext]_simVars => StartsAsGiven
  <2> SUFFICES ASSUME ArgsInv, SimNext, phase = "start", phase' = "create memory"
               PROVE  StartsAsGiven
    BY DEF StartsAsGiven, simVars
  <2>1. ReadCommandLine
    BY DEF SimNext, CreateMemory, CreateMemoryFails, StartProcess,
           StartProcessFails, OpenTrace, OpenTraceFails, TakePending, ReadLine,
           ReadFails, EndOfFile, AccessPage, AccessPageFails, EntryFails, Export,
           ExportFails, NothingToExport, Leave, Replaying
  <2>2. Parsed(args).result = "ok" /\ options' = Parsed(args).options
    BY <2>1 DEF ReadCommandLine, Becomes
  <2>3. args \in Seq(STRING \ {NoOption})
    BY CommandLineAssumption DEF ArgsInv
  <2>4. Len(args) \in Nat /\ DOMAIN args = 1 .. Len(args)
    BY <2>3, LenProperties
  <2> QED
    BY <2>2, <2>4, ParsedAsGiven DEF StartsAsGiven
<1> QED
  BY <1>1, <1>2, <1>3, PTL DEF SimSpec, OptionsAsGiven, StartsAsGiven

=============================================================================

----------------------------- MODULE Simulator -----------------------------
(***************************************************************************)
(* The program vmsim: src/main.c, which reads the command line, creates a  *)
(* memory and a process, replays a trace on them (src/trace.c), reports    *)
(* the statistics that virtual_memory.c kept and exports them.             *)
(*                                                                         *)
(* The memory is the one of VirtualMemory with a single process, accessed  *)
(* without storing anything: a call of virtual_memory_access is one step.  *)
(* Everything outside of the program may fail once it is asked: a creation,*)
(* fopen, fgets, the swap file, a write to the CSV file.                   *)
(***************************************************************************)
EXTENDS VirtualMemory, TraceReader, CommandLine, CsvFile

CONSTANTS
  CommandLines,   \* the command lines it is started with
  TraceName,      \* the only name under which there is a trace
  Traces,         \* what that file may hold
  CsvFiles        \* what the CSV file may hold before

ASSUME ProgramAssumption ==
  /\ Cardinality(Proc) = 1
  /\ HasSwap
  /\ Page = 0 .. (AddressCount \div PageSize) - 1

\* NoOption stands for a null pointer, and is no argument.
ASSUME CommandLineAssumption == CommandLines \subseteq Seq(STRING \ {NoOption})

ASSUME TraceAssumption == Traces \subseteq Seq(TraceLine)

\* Earlier runs write a header only at the beginning of a file.
ASSUME CsvAssumption ==
  \A file \in CsvFiles : HeaderFirst(file)

Process == CHOOSE p \in Proc : TRUE

VARIABLES
  phase,       \* where main is
  args,        \* the command line, until it is parsed
  options,     \* CliOptions
  held,        \* what main has to give back
  trace,       \* the lines of the trace file
  line,        \* the number of lines that were read
  pending,     \* reader->pending_entry, or NoEntry
  entry,       \* the entry that is being replayed, or NoEntry
  next,        \* the page of it that is accessed next
  processed,   \* processed_accesses
  made,        \* the accesses that succeeded, in their order
  stats,       \* memory->stats
  export,      \* the CSV file before and after csv_export_result
  status       \* the exit status

readerVars == <<trace, line, pending, entry, next>>
replayVars == <<readerVars, processed, made, stats>>
simVars == <<vars, phase, args, options, held, replayVars, export, status>>

NoEntry == [size |-> 0]
NoExport == [before |-> <<>>, after |-> <<>>]

Counter == {"total_accesses", "read_accesses", "write_accesses",
            "tlb_hits", "tlb_misses", "page_walks", "page_faults",
            "replacements", "dirty_evictions", "swap_reads", "swap_writes"}

SimInit ==
  /\ Init
  /\ phase = "start"
  /\ args \in CommandLines
  /\ options = Defaults
  /\ held = {}
  /\ trace = <<>> /\ line = 0
  /\ pending = NoEntry /\ entry = NoEntry /\ next = 0
  /\ processed = 0 /\ made = <<>>
  /\ stats = [c \in Counter |-> 0]
  /\ export = NoExport
  /\ status = "none"

-----------------------------------------------------------------------------
(* virtual_memory_access, with what it counts. *)

Count(S) == stats' = [c \in Counter |-> IF c \in S THEN stats[c] + 1 ELSE stats[c]]

\* virtual_memory_register_access, and the lookup.
Looked(v, w) ==
  {"total_accesses", IF w THEN "write_accesses" ELSE "read_accesses"}
  \union IF tlb[Process][v] # NoFrame THEN {"tlb_hits"}
                                      ELSE {"tlb_misses", "page_walks"}

\* Mutant: a swap-in is counted whether there was a slot or not.
SwapReadAlways(slots, v) == {"swap_reads"}

SwapRead(slots, v) ==
  IF slots[Process][v] # NoData THEN {"swap_reads"} ELSE {}

SwapWrite(f) == IF MustSave(f) THEN {"swap_writes"} ELSE {}

\* The call returns OK or PAGE_FAULT.
Accessed(v, w) ==
  \/ /\ AccessResident(Process, v, w, NoData)
     /\ Count(Looked(v, w))
  \/ /\ LoadFreeFrame(Process, v, w, NoData)
     /\ Count(Looked(v, w) \union {"page_faults"} \union SwapRead(swap, v))
  \/ /\ ReplacePage(Process, v, w, NoData)
     /\ LET f == tlb'[Process][v]
        IN  Count(Looked(v, w) \union {"page_faults", "replacements"}
                  \union SwapRead(SwapAfterSave(f), v) \union SwapWrite(f)
                  \union IF dirty[f] THEN {"dirty_evictions"} ELSE {})

\* The call returns SWAP_ERROR: a replacement is not counted unless all of it
\* was done, a victim that was saved is.
AccessRefused(v, w) ==
  \/ /\ LoadFreeFrameFails(Process, v) \/ ReplaceRefused(Process, v)
     /\ Count(Looked(v, w) \union {"page_faults"})
  \/ /\ ReplaceRestoreFails(Process, v)
     /\ Count(Looked(v, w) \union {"page_faults"} \union SwapWrite(pt'[Process][PathOf[v]]))

-----------------------------------------------------------------------------
(* main, up to the replay. *)

Becomes(p) == phase' = p

\* cli_parse
ReadCommandLine ==
  /\ phase = "start"
  /\ LET parsed == Parsed(args)
     IN  CASE parsed.result = "ok" ->
                Becomes("create memory") /\ options' = parsed.options
                /\ UNCHANGED status
           [] parsed.result = "help" ->
                Becomes("done") /\ status' = "success" /\ UNCHANGED options
           [] OTHER ->
                Becomes("done") /\ status' = "failure" /\ UNCHANGED options
  /\ args' = <<>>
  /\ UNCHANGED <<vars, held, replayVars, export>>

\* virtual_memory_create_complete, which creates the swap file.
CreateMemory ==
  /\ phase = "create memory"
  /\ Becomes("create process")
  /\ held' = held \union {"memory", "swap file"}
  /\ UNCHANGED <<vars, args, options, replayVars, export, status>>

CreateMemoryFails ==
  /\ phase = "create memory"
  /\ Becomes("done")
  /\ status' = "failure"
  /\ UNCHANGED <<vars, args, options, held, replayVars, export>>

\* virtual_memory_destroy gives back the memory, and removes the swap file
\* unless it is to be kept.
WithoutMemory(S) ==
  S \ (IF options.removeSwap THEN {"memory", "swap file"} ELSE {"memory"})

StartProcess ==
  /\ phase = "create process"
  /\ CreateProcess(Process)
  /\ Becomes("open trace")
  /\ held' = held \union {"process"}
  /\ UNCHANGED <<args, options, replayVars, export, status>>

\* Mutant: the memory is forgotten.
StartProcessFailsLeaks ==
  /\ phase = "create process"
  /\ Becomes("done")
  /\ status' = "failure"
  /\ UNCHANGED <<vars, args, options, held, replayVars, export>>

StartProcessFails ==
  /\ phase = "create process"
  /\ Becomes("done")
  /\ status' = "failure"
  /\ held' = WithoutMemory(held)
  /\ UNCHANGED <<vars, args, options, replayVars, export>>

-----------------------------------------------------------------------------
(* trace_replay. *)

OpenTrace ==
  /\ phase = "open trace"
  /\ options.trace = TraceName
  /\ trace' \in Traces
  /\ Becomes("replay")
  /\ held' = held \union {"reader"}
  /\ UNCHANGED <<vars, args, options, line, pending, entry, next, processed,
                 made, stats, export, status>>

\* trace_replay returns, with the reader closed if there is one.
Returns(p) ==
  /\ Becomes(p)
  /\ held' = held \ {"reader"}
  /\ UNCHANGED <<args, options, processed, made, export, status>>

OpenTraceFails ==
  /\ phase = "open trace"
  /\ Returns("replay failed")
  /\ UNCHANGED <<vars, readerVars, stats>>

Replaying == phase = "replay" /\ entry = NoEntry

Replay(e) == entry' = e /\ next' = FirstPage(e)

\* Mutant: a pending entry is looked at only when another line is asked for.
TakePendingLate ==
  /\ Replaying /\ pending # NoEntry
  /\ line < Len(trace)
  /\ Replay(pending)
  /\ pending' = NoEntry
  /\ UNCHANGED <<vars, phase, args, options, held, trace, line, processed,
                 made, stats, export, status>>

\* trace_reader_next: the pending entry comes first.
TakePending ==
  /\ Replaying /\ pending # NoEntry
  /\ Replay(pending)
  /\ pending' = NoEntry
  /\ UNCHANGED <<vars, phase, args, options, held, trace, line, processed,
                 made, stats, export, status>>

ReadLine ==
  /\ Replaying /\ pending = NoEntry
  /\ line < Len(trace)
  /\ line' = line + 1
  /\ LET l == trace[line + 1]
     IN  \/ /\ Ignored(l)
            /\ UNCHANGED <<pending, entry, next>>
         \/ /\ Valid(l)
            /\ Replay(EntryOf(l))
            /\ pending' = IF Modifies(l) THEN WriteAfter(EntryOf(l)) ELSE pending
  /\ UNCHANGED <<vars, phase, args, options, held, trace, processed, made, stats,
                 export, status>>

\* A line that is no entry, or fgets fails.
ReadFails ==
  /\ Replaying /\ pending = NoEntry
  /\ \/ line < Len(trace) /\ ~Ignored(trace[line + 1]) /\ ~Valid(trace[line + 1])
     \/ IoFaults
  /\ Returns("replay failed")
  /\ UNCHANGED <<vars, readerVars, stats>>

EndOfFile ==
  /\ Replaying /\ pending = NoEntry
  /\ line = Len(trace)
  /\ Returns("report")
  /\ UNCHANGED <<vars, readerVars, stats>>

\* trace_replay_entry: the next page of the entry, from the first to the last.
AccessPage ==
  /\ phase = "replay" /\ entry # NoEntry /\ ~Overflows(entry)
  /\ Accessed(next, entry.write)
  /\ processed' = processed + 1
  /\ made' = Append(made, <<next, entry.write>>)
  /\ IF next < LastPage(entry)
       THEN next' = next + 1 /\ UNCHANGED entry
       ELSE entry' = NoEntry /\ next' = 0
  /\ UNCHANGED <<phase, args, options, held, trace, line, pending, export, status>>

\* The first access that fails ends the replay.
AccessPageFails ==
  /\ phase = "replay" /\ entry # NoEntry /\ ~Overflows(entry)
  /\ AccessRefused(next, entry.write)
  /\ Returns("replay failed")
  /\ UNCHANGED readerVars

\* An entry that ends beyond the last address is not begun.
EntryFails ==
  /\ phase = "replay" /\ entry # NoEntry /\ Overflows(entry)
  /\ Returns("replay failed")
  /\ UNCHANGED <<vars, readerVars, stats>>

-----------------------------------------------------------------------------
(* main, from the report on. *)

\* print_simulation_results, then csv_export_result if a file was named.
Export ==
  /\ phase = "report"
  /\ options.csv # NoOption
  /\ \E file \in CsvFiles :
       export' = [before |-> file, after |-> Exported(file, options.append)]
  /\ Becomes("end")
  /\ UNCHANGED <<vars, args, options, held, replayVars, status>>

ExportFails ==
  /\ phase = "report"
  /\ options.csv # NoOption
  /\ \E file \in CsvFiles :
       \E left \in LeftByFailure(file, options.append) :
         export' = [before |-> file, after |-> left]
  /\ Becomes("export failed")
  /\ UNCHANGED <<vars, args, options, held, replayVars, status>>

NothingToExport ==
  /\ phase = "report"
  /\ options.csv = NoOption
  /\ Becomes("end")
  /\ UNCHANGED <<vars, args, options, held, replayVars, export, status>>

\* process_destroy and virtual_memory_destroy.  What they free is not looked at
\* any more, and is left as it is here.
Leave ==
  /\ phase \in {"replay failed", "export failed", "end"}
  /\ status' = IF phase = "end" THEN "success" ELSE "failure"
  /\ Becomes("done")
  /\ held' = WithoutMemory(held \ {"process"})
  /\ UNCHANGED <<vars, args, options, replayVars, export>>

SimNext ==
  \/ ReadCommandLine
  \/ CreateMemory \/ CreateMemoryFails
  \/ StartProcess \/ StartProcessFails
  \/ OpenTrace \/ OpenTraceFails
  \/ TakePending \/ ReadLine \/ ReadFails \/ EndOfFile
  \/ AccessPage \/ AccessPageFails \/ EntryFails
  \/ Export \/ ExportFails \/ NothingToExport
  \/ Leave

\* The program goes on running.
SimSpec == SimInit /\ [][SimNext]_simVars /\ WF_simVars(SimNext)

-----------------------------------------------------------------------------

Bytes(l) == l.address .. l.address + l.size - 1

\* The accesses that the lines of a trace stand for, page by page in the order
\* of their bytes, up to the first line that is not well formed.
WellFormed(l) ==
  \/ Ignored(l)
  \/ /\ l.op \in {"R", "L", "W", "S", "M"}
     /\ Bytes(l) # {} /\ Bytes(l) \subseteq 0 .. AddressCount - 1

PagesInOrder(l) ==
  LET pages == {b \div PageSize : b \in Bytes(l)}
      Rank(v) == Cardinality({u \in pages : u <= v})
  IN  [i \in 1 .. Cardinality(pages) |-> CHOOSE v \in pages : Rank(v) = i]

Each(l, w) == [i \in DOMAIN PagesInOrder(l) |-> <<PagesInOrder(l)[i], w>>]

AccessesOf(l) ==
  CASE Ignored(l) -> <<>>
    [] l.op \in {"R", "L"} -> Each(l, FALSE)
    [] l.op \in {"W", "S"} -> Each(l, TRUE)
    [] l.op = "M" -> Each(l, FALSE) \o Each(l, TRUE)

GoodLines(t) ==
  LET bad == {i \in DOMAIN t : ~WellFormed(t[i])}
  IN  SubSeq(t, 1, IF bad = {} THEN Len(t) ELSE Min(bad) - 1)

Demanded(t) == FlattenSeq([i \in DOMAIN GoodLines(t) |-> AccessesOf(GoodLines(t)[i])])

\* The replay makes the accesses the trace stands for, each once and in order;
\* an access over several pages and the write of an M line are neither lost nor
\* begun twice.  There is a report only when all of the trace was good and done.
ReplayFollowsTrace ==
  /\ IsPrefix(made, Demanded(trace))
  /\ processed = Len(made)
  /\ phase \in {"report", "export failed", "end"} =>
       made = Demanded(trace) /\ GoodLines(trace) = trace

\* The statistics tell the state of the memory, also of one that a failed
\* access left: each frame in use is a fault that replaced nothing, each slot
\* in use a write to swap that was not read back.  Of a finished replay it says
\* what scripts/check_stress.sh demands of a row, and more.
CountersMatchMemory ==
  LET refused == stats["total_accesses"] - processed
  IN  /\ refused \in {0, 1}
      /\ stats["total_accesses"] = stats["read_accesses"] + stats["write_accesses"]
      /\ stats["total_accesses"] = stats["tlb_hits"] + stats["tlb_misses"]
      /\ stats["page_walks"] = stats["tlb_misses"]
      /\ stats["page_faults"] <= stats["tlb_misses"]
      /\ Cardinality({f \in Frame : Occupied(f)})
           = stats["page_faults"] - stats["replacements"] - refused
      /\ Cardinality(UsedSlots(swap)) = stats["swap_writes"] - stats["swap_reads"]
      /\ stats["swap_writes"] - stats["dirty_evictions"] \in 0 .. refused
      /\ stats["dirty_evictions"] <= stats["replacements"]
      /\ stats["swap_reads"] <= stats["page_faults"]

\* Two pages that share a path of the trie are one page to the page table and
\* two to the rest.  That makes translations stale, but only of such pages.
StaleOnlyAmongAliases ==
  \A v \in Page :
    tlb[Process][v] \notin {NoFrame, FrameOf(Process, v)} =>
      \E u \in Page \ {v} : PathOf[u] = PathOf[v]

\* The file holds one line per run, up to the damage of writes that stopped in
\* the middle.  An export that appends costs no earlier run its row, not even if
\* it fails, and it leaves at most one more damaged line.  One that succeeds
\* damages none and ends its line; but its row is a line of its own only if the
\* file ended with a whole line.  Otherwise it joins the torn text, and the file
\* has as many rows as before.  The header is never written below other lines.
ExportKeepsLines ==
  LET opened == IF options.append THEN export.before ELSE <<>>
      after == export.after
  IN  /\ HeaderFirst(after)
      /\ options.append => Results(export.before) \subseteq Results(after)
      /\ phase = "export failed" =>
           \/ after = export.before
           \/ \E i \in 0 .. Len(after) :
                Damaged(after) \subseteq Damaged(opened) \union {i}
      /\ phase = "end" /\ options.csv # NoOption =>
           /\ Whole(after)
           /\ Damaged(after) = Damaged(opened)
           /\ Results(after) \ Results(opened)
                = IF Whole(opened) THEN {Len(after) - 1} ELSE {}

\* Whichever way the program ends, it has closed the trace, freed the process
\* and the memory, and left a swap file only if it was told to.
NothingHeldAtExit ==
  phase = "done" =>
    held \subseteq IF options.removeSwap THEN {} ELSE {"swap file"}

-----------------------------------------------------------------------------

\* The places of a command line where an option stands: those that do not
\* follow an option with a value.
OptionPlaces(a) ==
  CHOOSE S \in SUBSET DOMAIN a :
    \A i \in DOMAIN a :
      i \in S <=> i = 1 \/ ~(i - 1 \in S /\ a[i - 1] \in Valued)

StartsAsGiven ==
  phase = "start" /\ phase' = "create memory" =>
    LET S == OptionPlaces(args)
        Given(o) == \E i \in S : args[i] = o
        Last_(o) == args[1 + Max({i \in S : args[i] = o})]
    IN  /\ \A i \in DOMAIN args :
             i \notin S => Accepts(args[i - 1], args[i])
        /\ options'.trace = Last_("--trace")
        /\ options'.csv = IF Given("--csv") THEN Last_("--csv") ELSE NoOption
        /\ options'.append = ~Given("--csv-overwrite")
        /\ options'.removeSwap = ~Given("--keep-swap")

\* What stands in the place of a value is a value, even if it looks like an
\* option, and the last value of an option counts; one argument that is wrong
\* and the simulation does not start.
OptionsAsGiven == [][StartsAsGiven]_simVars

\* The program ends, whatever it is given.
Ends == <>(phase = "done")

=============================================================================

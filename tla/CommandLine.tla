---------------------------- MODULE CommandLine ----------------------------
(***************************************************************************)
(* src/cli.c: the command line of the simulator.  Of the options, those    *)
(* are kept that decide what main does: is there a trace, is there a CSV   *)
(* file and is it appended to, is the swap file kept.  The others (frames, *)
(* policy, TLB, slots, pid) are the constants of VirtualMemory; here they  *)
(* only matter for the values they refuse.                                 *)
(***************************************************************************)
EXTENDS Naturals, SequencesExt

\* The options that take a value.
Named == {"--trace", "--swap", "--csv"}
Sized == {"--frames", "--tlb", "--swap-slots"}
Valued == Named \union Sized \union {"--pid", "--policy"}

\* The values that cli_parse_size, cli_parse_pid and cli_parse_policy accept;
\* a name may be anything, the name of an option too.
Accepts(option, value) ==
  CASE option \in Named -> TRUE
    [] option \in Sized -> value = "7"
    [] option = "--pid" -> value \in {"0", "7"}
    [] option = "--policy" -> value = "fifo"

NoOption == "none"

\* cli_options_init, with nothing read yet.
Defaults ==
  [trace |-> NoOption, csv |-> NoOption, append |-> TRUE, removeSwap |-> TRUE]

Unread == [options |-> Defaults, awaits |-> NoOption, result |-> "ok"]

\* The value of the option that was read before.
TakeValue(s, a) ==
  IF Accepts(s.awaits, a)
    THEN [s EXCEPT !.awaits = NoOption,
                   !.options.trace = IF s.awaits = "--trace" THEN a ELSE @,
                   !.options.csv = IF s.awaits = "--csv" THEN a ELSE @]
    ELSE [s EXCEPT !.result = "invalid"]

\* An argument in the place of an option.
TakeOption(s, a) ==
  CASE a \in {"--help", "-h"} -> [s EXCEPT !.result = "help"]
    [] a = "--keep-swap" -> [s EXCEPT !.options.removeSwap = FALSE]
    [] a = "--csv-overwrite" -> [s EXCEPT !.options.append = FALSE]
    [] a \in Valued -> [s EXCEPT !.awaits = a]
    [] OTHER -> [s EXCEPT !.result = "invalid"]

\* Mutant: an argument that looks like a flag is one, wherever it stands.
ArgumentByItsLooks(s, a) ==
  IF s.result # "ok" THEN s
  ELSE IF s.awaits # NoOption /\ a \in {"7", "0", "fifo", "x"}
    THEN TakeValue(s, a) ELSE TakeOption(s, a)

\* One turn of the loop of cli_parse.
Argument(s, a) ==
  IF s.result # "ok" THEN s
  ELSE IF s.awaits # NoOption THEN TakeValue(s, a) ELSE TakeOption(s, a)

\* cli_parse: a value that is missing and a trace that is not named are errors.
Parsed(args) ==
  LET read[n \in 0 .. Len(args)] ==
        IF n = 0 THEN Unread ELSE Argument(read[n - 1], args[n])
      s == read[Len(args)]
  IN  IF s.result = "ok" /\ (s.awaits # NoOption \/ s.options.trace = NoOption)
        THEN [s EXCEPT !.result = "invalid"]
        ELSE s

=============================================================================

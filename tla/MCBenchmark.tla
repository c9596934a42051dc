---------------------------- MODULE MCBenchmark ----------------------------
(***************************************************************************)
(* The benchmark program on machines with three and six cores.            *)
(***************************************************************************)
EXTENDS Benchmark

CommandLine(t, m, s) ==
  [t |-> t, v |-> 4, m |-> m, s |-> s, f |-> TRUE, o |-> FALSE, d |-> FALSE, unknown |-> FALSE]
Clean == [source |-> "below", target |-> "below", cut |-> FALSE, zeroed |-> TRUE, clash |-> FALSE]
Run(line, circumstances) == [opt |-> line, given |-> circumstances]

\* Every way through the options, with nothing in the way.
CleanLines ==
  LET line == CommandLine(0, 0, FALSE) IN
  {CommandLine(1, m, s) : m \in {1, 2}, s \in BOOLEAN}
  \cup {CommandLine(2, 0, FALSE), CommandLine(0, Unset, TRUE),
        CommandLine(1, 3, TRUE)}
  \cup {[line EXCEPT !.d = TRUE, !.m = Unset], [line EXCEPT !.o = TRUE], [line EXCEPT !.f = FALSE],
        [line EXCEPT !.v = 0], [line EXCEPT !.unknown = TRUE]}

\* Binaries that do not fit -v, with -o to end early, and what a search meets.
MCRuns ==
  {Run(line, Clean) : line \in CleanLines}
  \cup {Run([CommandLine(1, 1, s) EXCEPT !.o = TRUE], [Clean EXCEPT !.source = place]) :
           s \in BOOLEAN, place \in Places}
  \cup {Run([CommandLine(1, 1, s) EXCEPT !.o = TRUE], [Clean EXCEPT !.target = place]) :
           s \in BOOLEAN, place \in Places}
  \cup {Run(CommandLine(1, 0, FALSE), [Clean EXCEPT !.target = "at"]),
        Run(CommandLine(1, 0, TRUE), [Clean EXCEPT !.cut = TRUE]),
        Run(CommandLine(1, 0, TRUE), [Clean EXCEPT !.zeroed = FALSE]),
        Run(CommandLine(2, 0, TRUE), [Clean EXCEPT !.clash = TRUE])}
MCMachines == {3, 6}
=============================================================================

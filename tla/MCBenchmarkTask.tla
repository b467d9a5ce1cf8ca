--------------------------- MODULE MCBenchmarkTask ---------------------------
(* What the Config asks for in the runs of BenchmarkTask: a share of the   *)
(* requests for each of three workers and a duration, or neither, so that  *)
(* a run has no end; and a share each for two workers.                     *)
EXTENDS BenchmarkTask

ShareOrEndless == {[requests |-> 7, duration |-> TRUE], [requests |-> 2, duration |-> FALSE]}
ShareOnly == {[requests |-> 2, duration |-> FALSE]}
=============================================================================

---------------------------- MODULE MCBenchmarkRun ----------------------------
(* Values of the constants of BenchmarkRun for TLC.                        *)
EXTENDS BenchmarkRun

CONSTANTS c1, c2, c3
=============================================================================

-------------------------- MODULE MCTestCoordinator --------------------------
(* Values of the constants of TestCoordinator for TLC.                     *)
EXTENDS TestCoordinator

CONSTANTS s1, s2, s3
=============================================================================

------------------------------- MODULE MCRunner -------------------------------
(* Two onit commands whose jobs may be given the same name, one of three   *)
(* exit codes.                                                             *)
EXTENDS Runner, TLC

MCCodes == {0, 1, 3}
===============================================================================

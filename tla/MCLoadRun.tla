------------------------------ MODULE MCLoadRun ----------------------------
(* A small instance of LoadRun.                                             *)
EXTENDS LoadRun

MCSeeds == {2, 3}
=============================================================================

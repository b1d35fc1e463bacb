----------------------------- MODULE MCDeployment --------------------------
(* A small instance of Deployment.                                          *)
EXTENDS Deployment

\* A chain of two, another way up from 1, and one that goes down.
MCUpcasters ==
  {[from |-> 1, to |-> 2], [from |-> 1, to |-> 3], [from |-> 2, to |-> 3],
   [from |-> 2, to |-> 1]}
\* Two in one replica share its attempts.
MCCallers == [r \in Replicas |-> IF r = "m1" THEN {1, 2} ELSE {1}]
=============================================================================

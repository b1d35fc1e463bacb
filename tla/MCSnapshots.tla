----------------------------- MODULE MCSnapshots ----------------------------
(* Small instances of Snapshots.                                            *)
EXTENDS Snapshots

CONSTANTS Deposit, Withdrawal

\* Definition 1 handles both types and is encrypted, 2 handles one of them, and
\* 3 is switched off by every = 0.
MCHandles == <<{Deposit, Withdrawal}, {Deposit}, {Withdrawal}>>
MCEvery == <<2, 1, 0>>
=============================================================================
